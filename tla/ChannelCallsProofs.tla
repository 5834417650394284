-------------------------- MODULE ChannelCallsProofs --------------------------
(***************************************************************************)
(* What a settlement promises, for any calls, and, for a call that is alone *)
(* in its channel, that it is not forgotten and that its claims fence.      *)
(*                                                                         *)
(* The two of the second kind are false of two calls: a reconciliation for *)
(* the one replaces the row and the claim of the other by what a read says *)
(* that may be older than both (MCStaleReconcile.cfg).                     *)
(***************************************************************************)
EXTENDS ChannelCalls, TLAPS

Ops == {"call", "join"} \cup Settlements
CallSteps == {"lookup", "start", "started", "lookupAgain"}
SettleSteps == {"barrier", "ended", "page", "check", "append", "consume"}
Steps == CallSteps \cup SettleSteps \cup {"redeliver"}
Callers == {"new", "calling", "parked", "failed", "cancelling", "cancelled"}

Event == [type : {"started", "terminal"}, call : Calls, by : Ops]
Request == [op : Ops, call : Calls, step : Steps, since : Nat, todo : SUBSET Calls]
Claim == [generation : Nat, holder : Providers \cup {0}]

Types ==
  /\ log \in Seq(Event)
  /\ rows \subseteq Calls
  /\ claim \in [Calls -> Claim]
  /\ request \in [Requests -> {Idle} \cup Request]
  /\ running \subseteq [call : Calls, generation : Nat]
  /\ working \subseteq [call : Calls, generation : Nat, holder : Providers]
  /\ caller \in [Calls -> Callers]

\* Rows, dispatches and claims are of calls that have started, and so are terminals.
TablesOK ==
  /\ \A c \in rows : StartedNow(c)
  /\ \A r \in running : StartedNow(r.call)
  /\ \A w \in working : StartedNow(w.call)
  /\ \A c \in Calls : EndedNow(c) => StartedNow(c)
  /\ \A c \in Calls : claim[c].generation > 0 => c \in rows

\* What a request may rely on.  A cancellation is the one settlement of a call that
\* may not have started: either its caller awaits the cancellation alone, or the
\* cancellation still awaits the start.
PlainlySound(d) ==
  /\ d.since <= Len(log)
  /\ \/ d.op = "call" /\ d.step \in CallSteps
     \/ d.op = "join" /\ d.step = "redeliver"
     \/ d.op \in Settlements /\ d.step \in SettleSteps
  /\ \A c \in d.todo : StartedNow(c)
  /\ d.todo # {} => d.op \in {"abandon", "join"}
  /\ d.op \in Settlements \ {"cancel"} => StartedNow(d.call)
  /\ d.step \in {"started", "lookupAgain", "check", "append", "consume"} => StartedNow(d.call)
  /\ d.step = "consume" => EndedNow(d.call)

SoundCancel(d) ==
  d.op = "cancel" /\ ~StartedNow(d.call) =>
    \/ caller[d.call] = "cancelling"
    \/ caller[d.call] = "calling" /\ d.step = "barrier"

\* The page that decides on a missing row is read after the start.
SoundPage(d) == d.step = "page" => Started(d.call, d.since) \/ ~StartedNow(d.call)

Sound(d) == PlainlySound(d) /\ SoundCancel(d) /\ SoundPage(d)

Cancels(d) == d # Idle /\ d.op = "cancel"

RequestsOK ==
  /\ \A q \in Requests, d \in Request : request[q] = d => Sound(d)
  /\ \A q, p \in Requests : Cancels(request[q]) /\ Cancels(request[p]) => q = p

\* The request of a caller, until it returns.
CarriesCall(d, c) == d # Idle /\ d.op \in {"call", "undeliverable"} /\ d.call = c
InFlight(c) == \E q \in Requests : CarriesCall(request[q], c)

CallersOK ==
  \A c \in Calls :
    /\ caller[c] = "calling" => InFlight(c)
    /\ InFlight(c) => caller[c] \in {"calling", "cancelled"}
    /\ \A q, p \in Requests : CarriesCall(request[q], c) /\ CarriesCall(request[p], c) => q = p
    /\ caller[c] = "new" => ~StartedNow(c)
    /\ caller[c] = "cancelled" => EndedNow(c) \/ (~StartedNow(c) /\ ~InFlight(c))

CallsInv == Types /\ TablesOK /\ RequestsOK /\ CallersOK

-----------------------------------------------------------------------------
(* The log only grows.                                                     *)

LogGrows ==
  /\ Len(log) \in Nat /\ Len(log') \in Nat /\ Len(log') >= Len(log)
  /\ \A i \in 1..Len(log) : log'[i] = log[i]

\* Nothing starts but a call whose caller still waits for it.
StartsAreCarried == \A c \in Calls : StartedNow(c)' /\ ~StartedNow(c) => InFlight(c)

LEMMA LogStays ==
  ASSUME log \in Seq(Event), UNCHANGED log
  PROVE  LogGrows
BY DEF LogGrows

LEMMA LogAppends ==
  ASSUME log \in Seq(Event), NEW e \in Event, log' = Append(log, e)
  PROVE  /\ LogGrows /\ log' \in Seq(Event)
         /\ Len(log') = Len(log) + 1 /\ log'[Len(log')] = e
BY DEF LogGrows

\* What was read of the log stays so, and what has happened has happened.
LEMMA ReadsLast ==
  ASSUME LogGrows, NEW c, NEW n \in Nat, n <= Len(log)
  PROVE  /\ Started(c, n)' <=> Started(c, n)
         /\ Ended(c, n)' <=> Ended(c, n)
         /\ Started(c, n) => StartedNow(c)
         /\ Ended(c, n) => EndedNow(c)
BY DEF LogGrows, Started, Ended, StartedNow, EndedNow

LEMMA PastLasts ==
  ASSUME LogGrows, NEW c
  PROVE  /\ StartedNow(c) => StartedNow(c)'
         /\ EndedNow(c) => EndedNow(c)'
BY DEF LogGrows, Started, Ended, StartedNow, EndedNow

LEMMA SameLog ==
  ASSUME UNCHANGED log, NEW c
  PROVE  /\ StartedNow(c)' <=> StartedNow(c)
         /\ EndedNow(c)' <=> EndedNow(c)
BY DEF Started, Ended, StartedNow, EndedNow

\* An event that is appended says what it says of its call, and of no other.
LEMMA AppendSays ==
  ASSUME log \in Seq(Event), NEW e \in Event, log' = Append(log, e), NEW c
  PROVE  /\ StartedNow(c)' <=> StartedNow(c) \/ (e.type = "started" /\ e.call = c)
         /\ EndedNow(c)' <=> EndedNow(c) \/ (e.type = "terminal" /\ e.call = c)
<1>1. /\ LogGrows /\ Len(log) \in Nat /\ Len(log') = Len(log) + 1
      /\ log'[Len(log) + 1] = e
  BY LogAppends DEF LogGrows
<1>2. PICK n \in Nat : n = Len(log)
  BY <1>1
<1>3. /\ \A i \in 1..n : log'[i] = log[i]
      /\ log'[n + 1] = e /\ Len(log') = n + 1
      /\ \A i \in 1..(n + 1) : i \in 1..n \/ i = n + 1
      /\ \A i \in 1..n : i \in 1..(n + 1)
      /\ n + 1 \in 1..(n + 1)
  BY <1>1, <1>2 DEF LogGrows
<1> QED
  BY <1>2, <1>3 DEF StartedNow, EndedNow, Started, Ended

-----------------------------------------------------------------------------
(* Requests as records.                                                    *)

LEMMA IdleIs ==
  /\ Idle \notin Request
  /\ \A d \in Request : d # Idle
<1>1. Idle.op = "idle" /\ "idle" \notin Ops
  BY DEF Idle, Ops, Settlements
<1>2. \A d \in Request : d.op \in Ops
  BY DEF Request
<1> QED
  BY <1>1, <1>2

LEMMA NewIs ==
  ASSUME NEW op \in Ops, NEW c \in Calls, NEW step \in Steps, NEW x, x = New(op, c, step)
  PROVE  /\ x \in Request
         /\ x.op = op /\ x.call = c /\ x.step = step /\ x.since = 0 /\ x.todo = {}
BY DEF New, Request

LEMMA TodoIs ==
  ASSUME NEW d \in Request, NEW S \in SUBSET Calls, NEW x, x = [d EXCEPT !.todo = S]
  PROVE  /\ x \in Request
         /\ x.op = d.op /\ x.call = d.call /\ x.step = d.step /\ x.since = d.since
         /\ x.todo = S
BY DEF Request

LEMMA StepIs ==
  ASSUME NEW d \in Request, NEW step \in Steps, NEW x, x = [d EXCEPT !.step = step]
  PROVE  /\ x \in Request
         /\ x.op = d.op /\ x.call = d.call /\ x.todo = d.todo /\ x.since = d.since
         /\ x.step = step
BY DEF Request

LEMMA ReadIs ==
  ASSUME log \in Seq(Event), NEW d \in Request, NEW step \in Steps, NEW x, x = Read(d, step)
  PROVE  /\ x \in Request
         /\ x.op = d.op /\ x.call = d.call /\ x.todo = d.todo
         /\ x.step = step /\ x.since = Len(log)
<1>1. PICK n \in Nat : n = Len(log)
  OBVIOUS
<1>2. PICK y : y = [d EXCEPT !.step = step]
  OBVIOUS
<1>3. y \in Request /\ y.op = d.op /\ y.call = d.call /\ y.todo = d.todo /\ y.step = step
  BY <1>2, StepIs
<1>4. x = [y EXCEPT !.since = n]
  BY <1>1, <1>2 DEF Read, Request
<1> QED
  BY <1>1, <1>3, <1>4 DEF Request

\* A request that is done turns to the next of its calls, or is over.
NextOf(d, x) ==
  /\ x \in Request /\ x.op = d.op /\ x.call \in d.todo /\ x.todo \subseteq d.todo
  /\ x.step = "barrier" /\ x.since = 0

LEMMA EndIs ==
  ASSUME Types, NEW q \in Requests, End(q), request[q] # Idle
  PROVE  \E x \in {Idle} \cup Request :
           /\ Goto(q, x)
           /\ request[q].todo = {} => x = Idle
           /\ request[q].todo # {} => NextOf(request[q], x)
<1>1. PICK d \in Request : d = request[q]
  BY DEF Types
<1>2. CASE d.todo = {}
  <2>1. Goto(q, Idle)
    BY <1>1, <1>2 DEF End
  <2> QED
    BY <1>1, <1>2, <2>1
<1>3. CASE d.todo # {}
  <2>1. PICK c : c = CHOOSE y \in d.todo : TRUE
    OBVIOUS
  <2>2. c \in d.todo /\ d.todo \in SUBSET Calls /\ d.op \in Ops
    BY <1>3, <2>1 DEF Request
  <2>3. PICK y : y = New(d.op, c, "barrier")
    OBVIOUS
  <2>4. y \in Request /\ y.op = d.op /\ y.call = c /\ y.step = "barrier" /\ y.since = 0
    BY <2>2, <2>3, NewIs DEF Steps, SettleSteps
  <2>5. PICK x : x = [y EXCEPT !.todo = d.todo \ {c}]
    OBVIOUS
  <2>6. /\ x \in Request /\ x.op = d.op /\ x.call = c /\ x.todo = d.todo \ {c}
        /\ x.step = "barrier" /\ x.since = 0
    BY <2>2, <2>4, <2>5, TodoIs
  <2>7. Goto(q, x)
    BY <1>1, <1>3, <2>1, <2>3, <2>5 DEF End
  <2> QED
    BY <1>1, <1>3, <2>2, <2>6, <2>7 DEF NextOf
<1> QED
  BY <1>2, <1>3

-----------------------------------------------------------------------------
(* One request moves, or none.                                             *)

\* What the step makes of the request q.
Becomes(q, d) == Goto(q, d) /\ q \in Requests /\ d \in {Idle} \cup Request

LEMMA Others ==
  ASSUME Types, NEW q, NEW d, Becomes(q, d)
  PROVE  /\ request' \in [Requests -> {Idle} \cup Request]
         /\ request'[q] = d
         /\ \A p \in Requests : p # q => request'[p] = request[p]
BY DEF Types, Becomes, Goto

\* A request that stays as it is stays sound, if no cancellation loses its caller.
LEMMA StillSound ==
  ASSUME Types, RequestsOK, CallersOK, LogGrows, StartsAreCarried,
         NEW p \in Requests, NEW d \in Request, request[p] = d,
         Cancels(d) /\ ~StartedNow(d.call) => caller'[d.call] = caller[d.call]
  PROVE  Sound(d)'
<1>2. Sound(d)
  BY DEF RequestsOK
<1>3. PICK c \in Calls : c = d.call
  BY DEF Request
<1>4. PICK n \in Nat : n = d.since /\ n <= Len(log)
  BY <1>2 DEF Sound, PlainlySound, Request
<1>5. PlainlySound(d)'
  <2>1. d.since <= Len(log')
    BY <1>4 DEF LogGrows
  <2>2. \A x \in d.todo : StartedNow(x)'
    BY <1>2, PastLasts DEF Sound, PlainlySound
  <2>3. (StartedNow(c) => StartedNow(c)') /\ (EndedNow(c) => EndedNow(c)')
    BY PastLasts
  <2> QED
    BY <1>2, <1>3, <2>1, <2>2, <2>3 DEF Sound, PlainlySound
<1>6. SoundCancel(d)'
  <2>1. ASSUME d.op = "cancel", ~StartedNow(c)'
        PROVE  \/ caller'[c] = "cancelling"
               \/ caller'[c] = "calling" /\ d.step = "barrier"
    <3>1. ~StartedNow(c)
      BY <2>1, PastLasts
    <3>2. caller'[c] = caller[c]
      BY <1>3, <2>1, <3>1, IdleIs DEF Cancels
    <3> QED
      BY <1>2, <1>3, <2>1, <3>1, <3>2 DEF Sound, SoundCancel
  <2> QED
    BY <1>3, <2>1 DEF SoundCancel
<1>7. SoundPage(d)'
  <2>1. CASE d.step # "page"
    BY <2>1 DEF SoundPage
  <2>2. CASE d.step = "page" /\ Started(c, n)
    BY <1>3, <1>4, <2>2, ReadsLast DEF SoundPage
  <2>3. CASE d.step = "page" /\ ~StartedNow(c)
    <3>1. d.op = "cancel"
      BY <1>2, <1>3, <2>3 DEF Sound, PlainlySound, CallSteps
    <3>2. caller[c] = "cancelling"
      BY <1>2, <1>3, <2>3, <3>1 DEF Sound, SoundCancel
    <3>3. ~StartedNow(c)'
      BY <2>3, <3>2 DEF StartsAreCarried, CallersOK
    <3> QED
      BY <1>3, <3>3 DEF SoundPage
  <2> QED
    BY <1>2, <1>3, <1>4, <2>1, <2>2, <2>3 DEF Sound, SoundPage
<1> QED
  BY <1>5, <1>6, <1>7 DEF Sound

\* The requests after the step of one.
LEMMA RequestsStep ==
  ASSUME Types, RequestsOK, CallersOK, LogGrows, StartsAreCarried,
         NEW q, NEW d, Becomes(q, d),
         d # Idle => Sound(d)',
         \A p \in Requests :
           p # q /\ Cancels(request[p]) =>
             /\ ~Cancels(d)
             /\ ~StartedNow(request[p].call)
                  => caller'[request[p].call] = caller[request[p].call]
  PROVE  RequestsOK'
<1>1. /\ request'[q] = d
      /\ \A p \in Requests : p # q => request'[p] = request[p]
  BY Others
<1>2. ASSUME NEW p \in Requests, NEW x \in Request, request'[p] = x
      PROVE  Sound(x)'
  <2>1. CASE p = q
    <3>1. x = d /\ d # Idle
      BY <1>1, <1>2, <2>1, IdleIs
    <3> QED
      BY <3>1
  <2>2. CASE p # q
    <3>1. request[p] = x
      BY <1>1, <1>2, <2>2
    <3>2. Cancels(x) /\ ~StartedNow(x.call) => caller'[x.call] = caller[x.call]
      BY <2>2, <3>1
    <3> QED
      BY <3>1, <3>2, StillSound
  <2> QED
    BY <2>1, <2>2
<1>3. ASSUME NEW p \in Requests, NEW r \in Requests,
             Cancels(request'[p]), Cancels(request'[r])
      PROVE  p = r
  BY <1>1, <1>3 DEF RequestsOK
<1> QED
  BY <1>2, <1>3 DEF RequestsOK, Cancels

\* The callers, when no call goes in flight or returns.
LEMMA CallersStay ==
  ASSUME Types, CallersOK, LogGrows, StartsAreCarried, UNCHANGED caller,
         NEW q, NEW d, Becomes(q, d),
         \A c \in Calls : CarriesCall(d, c) <=> CarriesCall(request[q], c)
  PROVE  CallersOK'
<1>1. /\ request'[q] = d /\ q \in Requests
      /\ \A p \in Requests : p # q => request'[p] = request[p]
  BY Others DEF Becomes
<1>2. \A c \in Calls, p \in Requests : CarriesCall(request'[p], c) <=> CarriesCall(request[p], c)
  BY <1>1
<1>3. \A c \in Calls : InFlight(c)' <=> InFlight(c)
  BY <1>2 DEF InFlight
<1>4. \A c \in Calls : EndedNow(c) => EndedNow(c)'
  BY PastLasts
<1>5. \A c \in Calls : StartedNow(c)' => StartedNow(c) \/ InFlight(c)
  BY DEF StartsAreCarried
<1> QED
  BY <1>2, <1>3, <1>4, <1>5 DEF CallersOK

\* The callers, when the request of a call that has started returns.
LEMMA CallerReturns ==
  ASSUME Types, CallersOK, UNCHANGED log, NEW q, Becomes(q, Idle), NEW c \in Calls, CarriesCall(request[q], c), Returns(c, "parked")
  PROVE  CallersOK'
<1>1. /\ request'[q] = Idle /\ q \in Requests
      /\ \A p \in Requests : p # q => request'[p] = request[p]
  BY Others DEF Becomes
<1>2. \A x \in Calls : ~CarriesCall(Idle, x)
  BY DEF CarriesCall
<1>3. /\ caller'[c] = "parked"
      /\ \A x \in Calls : x # c => caller'[x] = caller[x]
  BY DEF Returns, Types
<1>4. ~InFlight(c)'
  BY <1>1, <1>2 DEF InFlight, CallersOK
<1>5. \A x \in Calls, p \in Requests :
        x # c => (CarriesCall(request'[p], x) <=> CarriesCall(request[p], x))
  BY <1>1, <1>2 DEF CarriesCall
<1>6. \A x \in Calls : x # c => (InFlight(x)' <=> InFlight(x))
  BY <1>5 DEF InFlight
<1>7. \A x \in Calls : (StartedNow(x)' <=> StartedNow(x)) /\ (EndedNow(x)' <=> EndedNow(x))
  BY SameLog
<1>8. ASSUME NEW x \in Calls, x # c
      PROVE  /\ caller'[x] = "calling" => InFlight(x)'
             /\ InFlight(x)' => caller'[x] \in {"calling", "cancelled"}
             /\ \A p, r \in Requests : CarriesCall(request'[p], x) /\ CarriesCall(request'[r], x) => p = r
             /\ caller'[x] = "new" => ~StartedNow(x)'
             /\ caller'[x] = "cancelled" => EndedNow(x)' \/ (~StartedNow(x)' /\ ~InFlight(x)')
  BY <1>3, <1>5, <1>6, <1>7, <1>8 DEF CallersOK
<1>9. \A p, r \in Requests : CarriesCall(request'[p], c) /\ CarriesCall(request'[r], c) => p = r
  BY <1>4 DEF InFlight
<1> QED
  BY <1>3, <1>4, <1>8, <1>9 DEF CallersOK

\* The tables, when they stay and the log grows by no end of a call not started.
LEMMA TablesStay ==
  ASSUME TablesOK, LogGrows, UNCHANGED claim, rows' = rows,
         running' \subseteq running, working' \subseteq working,
         \A c \in Calls : EndedNow(c)' => EndedNow(c) \/ StartedNow(c)
  PROVE  TablesOK'
<1>1. \A c : StartedNow(c) => StartedNow(c)'
  BY PastLasts
<1> QED
  BY <1>1 DEF TablesOK

LEMMA SoundSame ==
  ASSUME UNCHANGED <<log, caller>>, NEW d \in Request
  PROVE  Sound(d)' <=> Sound(d)
<1>1. \A c, n : (Started(c, n)' <=> Started(c, n)) /\ (Ended(c, n)' <=> Ended(c, n))
  BY DEF Started, Ended
<1>2. \A c : (StartedNow(c)' <=> StartedNow(c)) /\ (EndedNow(c)' <=> EndedNow(c))
  BY SameLog
<1>3. PlainlySound(d)' <=> PlainlySound(d)
  BY <1>2 DEF PlainlySound
<1>4. SoundCancel(d)' <=> SoundCancel(d)
  BY <1>2 DEF SoundCancel
<1>5. SoundPage(d)' <=> SoundPage(d)
  BY <1>1, <1>2 DEF SoundPage
<1> QED
  BY <1>3, <1>4, <1>5 DEF Sound

\* A step that leaves the callers alone.
LEMMA PlainStep ==
  ASSUME CallsInv, Types', TablesOK', LogGrows, StartsAreCarried, UNCHANGED caller,
         NEW q, NEW d, Becomes(q, d),
         \A c \in Calls : CarriesCall(d, c) <=> CarriesCall(request[q], c),
         Cancels(d) => Cancels(request[q]),
         d # Idle => Sound(d)'
  PROVE  CallsInv'
<1>1. \A p \in Requests : p # q /\ Cancels(request[p]) => ~Cancels(d)
  BY DEF CallsInv, RequestsOK, Becomes
<1>2. \A c \in Calls : caller'[c] = caller[c]
  OBVIOUS
<1>3. \A p \in Requests : p # q /\ Cancels(request[p]) =>
        caller'[request[p].call] = caller[request[p].call]
  OBVIOUS
<1>4. RequestsOK'
  BY <1>1, <1>3, RequestsStep DEF CallsInv
<1>5. CallersOK'
  BY CallersStay DEF CallsInv
<1> QED
  BY <1>4, <1>5 DEF CallsInv

\* A step of one request that leaves log and callers alone.
LEMMA QuietStep ==
  ASSUME CallsInv, Types', TablesOK', UNCHANGED <<log, caller>>,
         NEW q, NEW d, Becomes(q, d),
         \A c \in Calls : CarriesCall(d, c) <=> CarriesCall(request[q], c),
         Cancels(d) => Cancels(request[q]),
         d # Idle => Sound(d)
  PROVE  CallsInv'
<1>1. LogGrows
  BY LogStays DEF CallsInv, Types
<1>2. StartsAreCarried
  BY SameLog DEF StartsAreCarried
<1>3. d # Idle => d \in Request
  BY DEF Becomes
<1>4. d # Idle => Sound(d)'
  BY <1>3, SoundSame
<1> QED
  BY <1>1, <1>2, <1>4, PlainStep

\* ... and the tables, too.
LEMMA StillStep ==
  ASSUME CallsInv, UNCHANGED <<log, caller, rows, claim>>,
         running' \subseteq running, working' \subseteq working,
         NEW q, NEW d, Becomes(q, d),
         \A c \in Calls : CarriesCall(d, c) <=> CarriesCall(request[q], c),
         Cancels(d) => Cancels(request[q]),
         d # Idle => Sound(d)
  PROVE  CallsInv'
<1>1. request' \in [Requests -> {Idle} \cup Request]
  BY Others DEF CallsInv
<1>2. Types'
  BY <1>1 DEF CallsInv, Types
<1>3. \A c \in Calls : EndedNow(c)' => EndedNow(c)
  BY SameLog
<1>4. TablesOK'
  <2>1. LogGrows /\ TablesOK
    BY LogStays DEF CallsInv, Types
  <2> QED
    BY <1>3, <2>1, TablesStay
<1> QED
  BY <1>2, <1>4, QuietStep

\* Nobody moves.
LEMMA NobodyMoves ==
  ASSUME CallsInv, UNCHANGED <<log, caller, rows, claim, request>>,
         running' \subseteq running, working' \subseteq working
  PROVE  CallsInv'
<1>1. Types'
  BY DEF CallsInv, Types
<1>2. \A c : (StartedNow(c)' <=> StartedNow(c)) /\ (EndedNow(c)' <=> EndedNow(c))
  BY SameLog
<1>3. TablesOK'
  BY <1>2, LogStays, TablesStay DEF CallsInv, Types
<1>4. RequestsOK'
  <2>1. \A d \in Request : Sound(d)' <=> Sound(d)
    BY SoundSame
  <2> QED
    BY <2>1 DEF CallsInv, RequestsOK, Cancels
<1>5. CallersOK'
  BY <1>2 DEF CallsInv, CallersOK, InFlight, CarriesCall
<1> QED
  BY <1>1, <1>3, <1>4, <1>5 DEF CallsInv

\* A request begins.
LEMMA BeginStep ==
  ASSUME CallsInv, UNCHANGED <<log, caller, rows, claim>>,
         running' \subseteq running, working' \subseteq working,
         NEW q \in Requests, NEW d \in Request, Serve(q, d), Sound(d),
         d.op \notin {"call", "undeliverable", "cancel"}
  PROVE  CallsInv'
<1>1. Becomes(q, d) /\ request[q] = Idle
  BY DEF Serve, Becomes, Goto
<1>2. \A c \in Calls : ~CarriesCall(d, c) /\ ~CarriesCall(Idle, c)
  BY DEF CarriesCall
<1>3. ~Cancels(d)
  BY DEF Cancels
<1> QED
  BY <1>1, <1>2, <1>3, StillStep

\* A settlement of a call that has started begins.
LEMMA SettleBegins ==
  ASSUME CallsInv, NEW q \in Requests, NEW c \in Calls, StartedNow(c),
         NEW op \in {"result", "submit", "timeout"}, Settle(q, op, c), UNCHANGED caller,
         running' \subseteq running, working' \subseteq working
  PROVE  CallsInv'
<1>1. PICK d : d = New(op, c, "barrier")
  OBVIOUS
<1>2. /\ d \in Request
      /\ d.op = op /\ d.call = c /\ d.step = "barrier" /\ d.since = 0 /\ d.todo = {}
  BY <1>1, NewIs DEF Ops, Settlements, Steps, SettleSteps
<1>3. 0 <= Len(log)
  BY DEF CallsInv, Types
<1>4. Sound(d)
  BY <1>2, <1>3 DEF Sound, PlainlySound, SoundCancel, SoundPage, Settlements, SettleSteps
<1>5. Serve(q, d) /\ UNCHANGED <<log, rows, claim>>
  BY <1>1 DEF Settle, tables
<1> QED
  BY <1>2, <1>4, <1>5, BeginStep

LEMMA DirectResultKeeps ==
  ASSUME CallsInv, NEW q \in Requests, NEW r \in running, DirectResult(q, r)
  PROVE  CallsInv'
<1>1. running' = running \ {r} /\ UNCHANGED <<working, caller>>
  BY DEF DirectResult
<1>2. r.call \in Calls /\ StartedNow(r.call)
  BY DEF CallsInv, Types, TablesOK
<1>3. CASE Settle(q, "result", r.call)
  BY <1>1, <1>2, <1>3, SettleBegins
<1>4. CASE UNCHANGED <<log, tables, request>>
  BY <1>1, <1>4, NobodyMoves DEF tables
<1> QED
  BY <1>3, <1>4 DEF DirectResult

LEMMA SubmitMethodResultKeeps ==
  ASSUME CallsInv, NEW q \in Requests, NEW w \in working, SubmitMethodResult(q, w)
  PROVE  CallsInv'
<1>1. working' = working \ {w} /\ UNCHANGED <<running, caller>>
  BY DEF SubmitMethodResult
<1>2. w.call \in Calls /\ StartedNow(w.call)
  BY DEF CallsInv, Types, TablesOK
<1>3. CASE Settle(q, "submit", w.call)
  BY <1>1, <1>2, <1>3, SettleBegins
<1>4. CASE UNCHANGED <<log, tables, request>>
  BY <1>1, <1>4, NobodyMoves DEF tables
<1> QED
  BY <1>3, <1>4 DEF SubmitMethodResult

LEMMA TimeoutMethodCallKeeps ==
  ASSUME CallsInv, NEW q \in Requests, NEW c \in Calls, TimeoutMethodCall(q, c)
  PROVE  CallsInv'
<1>1. StartedNow(c)
  BY DEF TimeoutMethodCall, CallsInv, TablesOK
<1>2. Settle(q, "timeout", c) /\ UNCHANGED <<running, working, caller>>
  BY DEF TimeoutMethodCall
<1> QED
  BY <1>1, <1>2, SettleBegins

-----------------------------------------------------------------------------
(* What the handlers do to the tables.                                     *)

TablesTyped == rows \subseteq Calls /\ claim \in [Calls -> Claim]

LEMMA NoClaimIs == NoClaim \in Claim /\ NoClaim.generation = 0
BY DEF NoClaim, Claim

LEMMA DeleteKeeps ==
  ASSUME Types, TablesOK, UNCHANGED <<log, running, working>>, NEW S, Delete(S)
  PROVE  TablesOK' /\ TablesTyped'
<1>1. \A c : (StartedNow(c)' <=> StartedNow(c)) /\ (EndedNow(c)' <=> EndedNow(c))
  BY SameLog
<1>2. rows' = rows \ S
  BY DEF Delete
<1>3. \A c \in Calls : claim'[c] = IF c \in S THEN NoClaim ELSE claim[c]
  BY DEF Delete
<1>4. claim' \in [Calls -> Claim]
  BY NoClaimIs DEF Delete, Types
<1>5. \A c \in Calls : claim'[c].generation > 0 => c \in rows'
  BY <1>2, <1>3, NoClaimIs DEF TablesOK
<1> QED
  BY <1>1, <1>2, <1>4, <1>5 DEF TablesOK, TablesTyped, Types

\* A reconciliation: the rows are the calls that the page shows pending.
Reconciles(n) ==
  /\ rows' = Pending(n)
  /\ claim' = [c \in Calls |-> IF c \in Pending(n) THEN claim[c] ELSE NoClaim]

LEMMA ReconcileKeeps ==
  ASSUME Types, TablesOK, UNCHANGED <<log, running, working>>,
         NEW n \in Nat, n <= Len(log), Reconciles(n)
  PROVE  TablesOK' /\ TablesTyped'
<1>1. \A c : (StartedNow(c)' <=> StartedNow(c)) /\ (EndedNow(c)' <=> EndedNow(c))
  BY SameLog
<1>2. PICK S \in SUBSET Calls : S = Pending(n)
  BY DEF Pending
<1>3. rows' = S /\ claim' = [c \in Calls |-> IF c \in S THEN claim[c] ELSE NoClaim]
  BY <1>2 DEF Reconciles
<1>4. \A c \in S : StartedNow(c)
  BY <1>2, LogStays, ReadsLast DEF Pending, Types
<1>5. \A c \in Calls : claim'[c] = IF c \in S THEN claim[c] ELSE NoClaim
  BY <1>3
<1>6. claim' \in [Calls -> Claim]
  BY <1>3, NoClaimIs DEF Types
<1>7. \A c \in Calls : claim'[c].generation > 0 => c \in rows'
  BY <1>3, <1>5, NoClaimIs
<1> QED
  BY <1>1, <1>3, <1>4, <1>6, <1>7 DEF TablesOK, TablesTyped, Types

LEMMA ClaimedIs ==
  ASSUME Types, NEW c \in Calls, NEW holder \in Providers \cup {0}, NEW x, x = Claimed(c, holder)
  PROVE  /\ x \in Claim /\ x.holder = holder
         /\ \/ x = claim[c] /\ holder # 0
            \/ x.generation = claim[c].generation + 1
<1>1. claim[c] \in Claim
  BY DEF Types
<1> QED
  BY <1>1 DEF Claimed, Claim

-----------------------------------------------------------------------------
(* A request is done with its call.                                        *)

LEMMA NextIsSound ==
  ASSUME CallsInv, NEW q \in Requests, NEW d \in Request, request[q] = d, d.op # "join",
         NEW x \in Request, NextOf(d, x)
  PROVE  /\ Sound(x) /\ ~Cancels(x)
         /\ \A c \in Calls : ~CarriesCall(x, c) /\ ~CarriesCall(d, c)
<1>1. Sound(d)
  BY DEF CallsInv, RequestsOK
<1>2. d.todo # {} /\ d.op = "abandon" /\ x.op = "abandon"
  BY <1>1 DEF NextOf, Sound, PlainlySound
<1>3. \A c \in d.todo : StartedNow(c)
  BY <1>1 DEF Sound, PlainlySound
<1>4. 0 <= Len(log)
  BY DEF CallsInv, Types
<1>5. x.op \in Settlements /\ x.step \in SettleSteps /\ x.step = "barrier" /\ x.since = 0
      /\ x.todo \subseteq d.todo /\ x.call \in d.todo
  BY <1>2 DEF NextOf, Settlements, SettleSteps
<1>6. PlainlySound(x)
  BY <1>2, <1>3, <1>4, <1>5 DEF PlainlySound
<1>7. SoundCancel(x) /\ SoundPage(x)
  BY <1>2, <1>5 DEF SoundCancel, SoundPage
<1> QED
  BY <1>2, <1>6, <1>7 DEF Sound, Cancels, CarriesCall

RunningTyped ==
  /\ running \subseteq [call : Calls, generation : Nat]
  /\ working \subseteq [call : Calls, generation : Nat, holder : Providers]

\* The request of a call that has started returns to its caller.
LEMMA CallReturns ==
  ASSUME CallsInv, TablesOK', TablesTyped', RunningTyped', UNCHANGED log,
         NEW q \in Requests, NEW d \in Request, request[q] = d,
         d.op \in {"call", "undeliverable"}, StartedNow(d.call), Goto(q, Idle),
         Returns(d.call, "parked")
  PROVE  CallsInv'
<1>1. PICK c \in Calls : c = d.call
  BY DEF Request
<1>2. Becomes(q, Idle)
  BY DEF Becomes
<1>3. LogGrows /\ StartsAreCarried
  BY LogStays, SameLog DEF CallsInv, Types, StartsAreCarried
<1>4. /\ caller' \in [Calls -> Callers]
      /\ \A y \in Calls : y # c => caller'[y] = caller[y]
  BY <1>1 DEF CallsInv, Types, Callers, Returns
<1>5. Types'
  <2>1. request' \in [Requests -> {Idle} \cup Request]
    BY <1>2, Others DEF CallsInv
  <2> QED
    BY <1>4, <2>1 DEF CallsInv, Types, TablesTyped, RunningTyped
<1>6. ~Cancels(Idle)
  BY DEF Cancels
<1>7. ASSUME NEW p \in Requests, p # q, Cancels(request[p])
      PROVE  ~StartedNow(request[p].call) => caller'[request[p].call] = caller[request[p].call]
  <2>1. request[p] \in Request
    BY <1>7 DEF CallsInv, Types, Cancels
  <2>2. PICK y \in Calls : y = request[p].call
    BY <2>1 DEF Request
  <2>3. ~StartedNow(y) => y # c
    BY <1>1
  <2> QED
    BY <1>4, <2>2, <2>3
<1>8. RequestsOK'
  BY <1>2, <1>3, <1>6, <1>7, RequestsStep DEF CallsInv
<1>9. CarriesCall(d, c)
  BY <1>1, IdleIs DEF CarriesCall
<1>10. CallersOK'
  BY <1>1, <1>2, <1>9, CallerReturns DEF CallsInv
<1> QED
  BY <1>5, <1>8, <1>10 DEF CallsInv

LEMMA FinishKeeps ==
  ASSUME CallsInv, TablesOK', TablesTyped', UNCHANGED <<log, running, working>>,
         NEW q \in Requests, NEW d \in Request, request[q] = d, d.op \in Settlements,
         d.step # "barrier", EndedNow(d.call) \/ ~StartedNow(d.call),
         NEW settled, Finish(q, settled)
  PROVE  CallsInv'
<1>1. Sound(d) /\ d.call \in Calls /\ d # Idle
  BY IdleIs DEF CallsInv, RequestsOK, Request
<1>2. End(q)
  BY DEF Finish
<1>3. PICK x \in {Idle} \cup Request :
        /\ Goto(q, x)
        /\ d.todo = {} => x = Idle
        /\ d.todo # {} => NextOf(d, x)
  BY <1>1, <1>2, EndIs DEF CallsInv
<1>4. Becomes(q, x)
  BY <1>3 DEF Becomes
<1>5. LogGrows /\ StartsAreCarried
  BY LogStays, SameLog DEF CallsInv, Types, StartsAreCarried
<1>6. request' \in [Requests -> {Idle} \cup Request]
  BY <1>4, Others DEF CallsInv
<1>7. \A c \in Calls : ~CarriesCall(Idle, c) /\ ~Cancels(Idle)
  BY DEF CarriesCall, Cancels
<1>8. CASE d.op \notin {"cancel", "undeliverable"}
  <2>1. UNCHANGED caller
    BY <1>8 DEF Finish
  <2>2. Types'
    BY <1>6, <2>1 DEF CallsInv, Types, TablesTyped
  <2>3. x # Idle => x \in Request /\ NextOf(d, x) /\ d.op # "join"
    BY <1>3 DEF Settlements
  <2>4. x # Idle => Sound(x) /\ ~Cancels(x) /\ \A c \in Calls : ~CarriesCall(x, c)
    BY <2>3, NextIsSound
  <2>5. \A c \in Calls : ~CarriesCall(x, c) /\ ~CarriesCall(d, c)
    BY <1>7, <1>8, <2>4 DEF CarriesCall, Settlements
  <2>6. ~Cancels(x)
    BY <1>7, <2>4 DEF Cancels
  <2> QED
    BY <1>4, <2>1, <2>2, <2>4, <2>5, <2>6, QuietStep
<1>9. CASE d.op = "cancel"
  <2>1. x = Idle
    BY <1>1, <1>3, <1>9 DEF Sound, PlainlySound
  <2>2. PICK c \in Calls : c = d.call
    BY <1>1
  <2>3. caller' = [caller EXCEPT ![c] = "cancelled"]
    BY <1>9, <2>2 DEF Finish
  <2>4. /\ caller' \in [Calls -> Callers] /\ caller'[c] = "cancelled"
        /\ \A y \in Calls : y # c => caller'[y] = caller[y]
    BY <2>3 DEF CallsInv, Types, Callers
  <2>5. Types'
    BY <1>6, <2>4 DEF CallsInv, Types, TablesTyped
  <2>6. Cancels(d)
    BY <1>1, <1>9 DEF Cancels
  <2>7. \A p \in Requests : p # q => ~Cancels(request[p])
    BY <2>6 DEF CallsInv, RequestsOK
  <2>8. RequestsOK'
    BY <1>4, <1>5, <2>1, <2>7, RequestsStep DEF CallsInv
  <2>9. \A y \in Calls, p \in Requests :
          CarriesCall(request'[p], y) <=> CarriesCall(request[p], y)
    <3>1. \A y \in Calls : ~CarriesCall(d, y)
      BY <1>9 DEF CarriesCall
    <3> QED
      BY <1>4, <1>7, <2>1, <3>1, Others DEF CallsInv
  <2>10. \A y \in Calls : InFlight(y)' <=> InFlight(y)
    BY <2>9 DEF InFlight
  <2>11. \A y \in Calls : (StartedNow(y)' <=> StartedNow(y)) /\ (EndedNow(y)' <=> EndedNow(y))
    BY SameLog
  <2>12. EndedNow(c) \/ (~StartedNow(c) /\ ~InFlight(c))
    <3>1. ASSUME ~StartedNow(c)
          PROVE  caller[c] = "cancelling"
      BY <1>1, <1>9, <2>2, <3>1 DEF Sound, SoundCancel
    <3> QED
      BY <2>2, <3>1 DEF CallsInv, CallersOK
  <2>13. InFlight(c) => caller'[c] \in {"calling", "cancelled"}
    BY <2>4
  <2>14. CallersOK'
    BY <2>4, <2>9, <2>10, <2>11, <2>12, <2>13 DEF CallsInv, CallersOK
  <2> QED
    BY <2>5, <2>8, <2>14 DEF CallsInv
<1>10. CASE d.op = "undeliverable"
  <2>1. x = Idle
    BY <1>1, <1>3, <1>10 DEF Sound, PlainlySound
  <2>2. StartedNow(d.call)
    BY <1>1, <1>10 DEF Sound, PlainlySound, Settlements
  <2>3. Returns(d.call, "parked")
    BY <1>10 DEF Finish, Returns
  <2> QED
    BY <1>1, <1>3, <1>10, <2>1, <2>2, <2>3, CallReturns DEF CallsInv, Types, RunningTyped
<1> QED
  BY <1>8, <1>9, <1>10

-----------------------------------------------------------------------------
(* The steps of a settlement.                                              *)

\* What is known of the request that goes on at a step.
Serves(q, d) == q \in Requests /\ d \in Request /\ request[q] = d /\ Sound(d) /\ d # Idle

LEMMA ServesAt ==
  ASSUME CallsInv, NEW q \in Requests, NEW step, At(q, step)
  PROVE  \E d \in Request : Serves(q, d) /\ d.step = step /\ d.call \in Calls
<1>1. PICK d \in Request : d = request[q]
  BY DEF At, CallsInv, Types
<1> QED
  BY <1>1, IdleIs DEF At, Serves, CallsInv, RequestsOK, Request

\* The read that a request awaits is answered by a prefix of the log.
LEMMA AnswerIs ==
  ASSUME CallsInv, NEW q, NEW d, Serves(q, d), NEW n \in d.since..Len(log)
  PROVE  n \in Nat /\ n <= Len(log) /\ d.since <= n /\ d.since \in Nat
BY DEF Serves, CallsInv, Types, Request

LEMMA AnswersAreSo ==
  ASSUME CallsInv, NEW n \in Nat, n <= Len(log), NEW c
  PROVE  (Ended(c, n) => EndedNow(c)) /\ (Started(c, n) => StartedNow(c))
<1>1. Len(log) \in Nat
  BY DEF CallsInv, Types
<1>2. \A i \in 1..n : i \in 1..Len(log)
  BY <1>1
<1> QED
  BY <1>2 DEF Ended, EndedNow, Started, StartedNow

\* A settlement goes on to another step.
LEMMA GoOn ==
  ASSUME CallsInv, NEW q, NEW d, Serves(q, d), UNCHANGED <<log, caller, rows, claim, running, working>>,
         NEW x \in Request, Goto(q, x), x.op = d.op, x.call = d.call, Sound(x)
  PROVE  CallsInv'
<1>1. Becomes(q, x) /\ x # Idle
  BY IdleIs DEF Becomes, Serves
<1>2. \A c \in Calls : CarriesCall(x, c) <=> CarriesCall(d, c)
  BY <1>1 DEF CarriesCall, Serves
<1>3. Cancels(x) => Cancels(d)
  BY DEF Cancels, Serves
<1> QED
  BY <1>1, <1>2, <1>3, StillStep DEF Serves

LEMMA PassBarrierKeeps ==
  ASSUME CallsInv, NEW q \in Requests, PassBarrier(q)
  PROVE  CallsInv'
<1>1. PICK d \in Request : Serves(q, d) /\ d.step = "barrier" /\ d.call \in Calls
  BY ServesAt DEF PassBarrier
<1>2. PICK step \in {"check", "ended"} :
        /\ step = "check" => d.call \in rows
        /\ Goto(q, Read(d, step))
  BY <1>1 DEF PassBarrier, Serves
<1>3. PICK x : x = Read(d, step)
  OBVIOUS
<1>4. /\ x \in Request /\ x.op = d.op /\ x.call = d.call /\ x.todo = d.todo
      /\ x.step = step /\ x.since = Len(log)
  <2>1. step \in Steps /\ log \in Seq(Event)
    BY DEF Steps, SettleSteps, CallsInv, Types
  <2> QED
    BY <1>3, <2>1, ReadIs
<1>5. PlainlySound(d) /\ SoundCancel(d)
  BY <1>1 DEF Serves, Sound
<1>6. d.op \in Settlements
  BY <1>1, <1>5 DEF PlainlySound, CallSteps
<1>7. PlainlySound(x)
  <2>1. Len(log) \in Nat
    BY DEF CallsInv, Types
  <2>2. step = "check" => StartedNow(d.call)
    BY <1>2 DEF CallsInv, TablesOK
  <2> QED
    BY <1>4, <1>5, <1>6, <2>1, <2>2 DEF PlainlySound, SettleSteps
<1>8. SoundCancel(x)
  <2>1. ASSUME d.op = "cancel", ~StartedNow(d.call), caller[d.call] = "calling"
        PROVE  FALSE
    <3>1. PICK p \in Requests : CarriesCall(request[p], d.call)
      BY <1>1, <2>1 DEF CallsInv, CallersOK, InFlight
    <3>2. PICK y \in Request : y = request[p]
      BY <3>1 DEF CarriesCall, CallsInv, Types
    <3>3. y.op = "undeliverable" /\ y.call = d.call
      BY <1>1, <3>1, <3>2 DEF PassBarrier, Journalling, CarriesCall, Serves
    <3>4. Sound(y)
      BY <3>2 DEF CallsInv, RequestsOK
    <3> QED
      BY <2>1, <3>3, <3>4 DEF Sound, PlainlySound, Settlements
  <2> QED
    BY <1>4, <1>5, <2>1 DEF SoundCancel
<1>9. SoundPage(x)
  BY <1>4 DEF SoundPage
<1> QED
  BY <1>1, <1>2, <1>3, <1>4, <1>7, <1>8, <1>9, GoOn DEF PassBarrier, tables, Sound

LEMMA EndedReplyKeeps ==
  ASSUME CallsInv, NEW q \in Requests, EndedReply(q)
  PROVE  CallsInv'
<1>1. PICK d \in Request : Serves(q, d) /\ d.step = "ended" /\ d.call \in Calls
  BY ServesAt DEF EndedReply
<1>2. UNCHANGED <<log, rows, claim, running, working>>
  BY DEF EndedReply, tables
<1>3. PICK n \in d.since..Len(log) :
        \/ Ended(d.call, n) /\ Finish(q, FALSE)
        \/ Goto(q, Read(d, "page")) /\ UNCHANGED caller
  BY <1>1 DEF EndedReply, Serves
<1>4. d.op \in Settlements
  BY <1>1 DEF Serves, Sound, PlainlySound, CallSteps
<1>5. CASE Ended(d.call, n) /\ Finish(q, FALSE)
  <2>1. EndedNow(d.call)
    BY <1>1, <1>5, AnswerIs, AnswersAreSo
  <2>2. TablesOK' /\ TablesTyped'
    <3>1. \A c \in Calls : EndedNow(c)' => EndedNow(c)
      BY <1>2, SameLog
    <3>2. TablesOK'
      BY <1>2, <3>1, LogStays, TablesStay DEF CallsInv, Types
    <3> QED
      BY <1>2, <3>2 DEF CallsInv, Types, TablesTyped
  <2> QED
    BY <1>1, <1>2, <1>4, <1>5, <2>1, <2>2, FinishKeeps DEF Serves
<1>6. CASE Goto(q, Read(d, "page")) /\ UNCHANGED caller
  <2>1. PICK x : x = Read(d, "page")
    OBVIOUS
  <2>2. /\ x \in Request /\ x.op = d.op /\ x.call = d.call /\ x.todo = d.todo
        /\ x.step = "page" /\ x.since = Len(log)
    <3>1. "page" \in Steps /\ log \in Seq(Event)
      BY DEF Steps, SettleSteps, CallsInv, Types
    <3> QED
      BY <2>1, <3>1, ReadIs
  <2>3. Len(log) \in Nat
    BY DEF CallsInv, Types
  <2>4. PlainlySound(x) /\ SoundCancel(x)
    BY <1>1, <1>4, <2>2, <2>3 DEF Serves, Sound, PlainlySound, SoundCancel, SettleSteps
  <2>5. SoundPage(x)
    BY <2>2 DEF SoundPage, StartedNow
  <2> QED
    BY <1>1, <1>2, <1>6, <2>1, <2>2, <2>4, <2>5, GoOn DEF Sound
<1> QED
  BY <1>3, <1>5, <1>6

\* A call that the page does not show pending has ended, or never started.
LEMMA PageDecides ==
  ASSUME CallsInv, NEW q, NEW d, Serves(q, d), d.step = "page", d.call \in Calls,
         NEW n \in d.since..Len(log), d.call \notin Pending(n)
  PROVE  EndedNow(d.call) \/ ~StartedNow(d.call)
<1>1. n \in Nat /\ n <= Len(log) /\ d.since <= n /\ d.since \in Nat
  BY AnswerIs
<1>2. ASSUME StartedNow(d.call)
      PROVE  Started(d.call, n)
  <2>1. Started(d.call, d.since)
    BY <1>2 DEF Serves, Sound, SoundPage
  <2> QED
    BY <1>1, <2>1 DEF Started
<1> QED
  BY <1>1, <1>2, AnswersAreSo DEF Pending

LEMMA PageReplyKeeps ==
  ASSUME CallsInv, NEW q \in Requests, PageReply(q)
  PROVE  CallsInv'
<1>1. PICK d \in Request : Serves(q, d) /\ d.step = "page" /\ d.call \in Calls
  BY ServesAt DEF PageReply
<1>2. UNCHANGED <<log, running, working>>
  BY DEF PageReply
<1>3. PICK n \in d.since..Len(log) :
        /\ Reconciles(n)
        /\ \/ d.call \in Pending(n) /\ UNCHANGED caller
              /\ (Goto(q, [d EXCEPT !.step = "barrier"]) \/ Goto(q, Read(d, "check")))
           \/ d.call \notin Pending(n) /\ Finish(q, FALSE)
  BY <1>1 DEF PageReply, Serves, Reconciles
<1>4. d.op \in Settlements
  BY <1>1 DEF Serves, Sound, PlainlySound, CallSteps
<1>5. n \in Nat /\ n <= Len(log) /\ d.since <= n /\ d.since \in Nat
  BY <1>1, AnswerIs
<1>6. TablesOK' /\ TablesTyped'
  BY <1>2, <1>3, <1>5, ReconcileKeeps DEF CallsInv
<1>7. CASE d.call \in Pending(n) /\ UNCHANGED caller
  <2>1. StartedNow(d.call)
    BY <1>5, <1>7, AnswersAreSo DEF Pending
  <2>2. Len(log) \in Nat
    BY DEF CallsInv, Types
  <2>3. PICK x \in Request :
          /\ Goto(q, x) /\ x.op = d.op /\ x.call = d.call /\ x.todo = d.todo
          /\ x.step \in {"barrier", "check"} /\ x.since <= Len(log)
    <3>1. CASE Goto(q, [d EXCEPT !.step = "barrier"])
      <4>1. PICK x : x = [d EXCEPT !.step = "barrier"]
        OBVIOUS
      <4>2. /\ x \in Request /\ x.op = d.op /\ x.call = d.call /\ x.todo = d.todo
            /\ x.step = "barrier" /\ x.since = d.since
        <5>1. "barrier" \in Steps
          BY DEF Steps, SettleSteps
        <5> QED
          BY <4>1, <5>1, StepIs
      <4> QED
        BY <1>1, <3>1, <4>1, <4>2 DEF Serves, Sound, PlainlySound
    <3>2. CASE Goto(q, Read(d, "check"))
      <4>1. PICK x : x = Read(d, "check")
        OBVIOUS
      <4>2. /\ x \in Request /\ x.op = d.op /\ x.call = d.call /\ x.todo = d.todo
            /\ x.step = "check" /\ x.since = Len(log)
        <5>1. "check" \in Steps /\ log \in Seq(Event)
          BY DEF Steps, SettleSteps, CallsInv, Types
        <5> QED
          BY <4>1, <5>1, ReadIs
      <4> QED
        BY <2>2, <3>2, <4>1, <4>2
    <3> QED
      BY <1>3, <1>7, <3>1, <3>2
  <2>4. PlainlySound(x) /\ SoundCancel(x) /\ SoundPage(x)
    BY <1>1, <1>4, <2>1, <2>3 DEF Serves, Sound, PlainlySound, SoundCancel, SoundPage, SettleSteps
  <2>5. Becomes(q, x) /\ x # Idle
    BY <2>3, IdleIs DEF Becomes
  <2>6. Types'
    <3>1. request' \in [Requests -> {Idle} \cup Request]
      BY <2>5, Others DEF CallsInv
    <3> QED
      BY <1>2, <1>6, <1>7, <3>1 DEF CallsInv, Types, TablesTyped
  <2>7. \A c \in Calls : CarriesCall(x, c) <=> CarriesCall(d, c)
    BY <1>1, <2>3, <2>5 DEF CarriesCall, Serves
  <2>8. Cancels(x) => Cancels(d)
    BY <1>1, <2>3 DEF Cancels, Serves
  <2> QED
    BY <1>1, <1>2, <1>6, <1>7, <2>4, <2>5, <2>6, <2>7, <2>8, QuietStep DEF Serves, Sound
<1>8. CASE d.call \notin Pending(n) /\ Finish(q, FALSE)
  <2>1. EndedNow(d.call) \/ ~StartedNow(d.call)
    BY <1>1, <1>8, PageDecides
  <2> QED
    BY <1>1, <1>2, <1>4, <1>6, <1>8, <2>1, FinishKeeps DEF Serves
<1> QED
  BY <1>3, <1>7, <1>8

LEMMA CheckReplyKeeps ==
  ASSUME CallsInv, NEW q \in Requests, CheckReply(q)
  PROVE  CallsInv'
<1>1. PICK d \in Request : Serves(q, d) /\ d.step = "check" /\ d.call \in Calls
  BY ServesAt DEF CheckReply
<1>2. PICK n \in d.since..Len(log), step \in {"consume", "append"} :
        /\ step = "consume" => Ended(d.call, n)
        /\ Goto(q, [d EXCEPT !.step = step])
  BY <1>1 DEF CheckReply, Serves
<1>3. PICK x : x = [d EXCEPT !.step = step]
  OBVIOUS
<1>4. /\ x \in Request /\ x.op = d.op /\ x.call = d.call /\ x.todo = d.todo
      /\ x.step = step /\ x.since = d.since
  <2>1. step \in Steps
    BY DEF Steps, SettleSteps
  <2> QED
    BY <1>3, <2>1, StepIs
<1>5. step = "consume" => EndedNow(d.call)
  BY <1>1, <1>2, AnswerIs, AnswersAreSo
<1>6. Sound(x)
  BY <1>1, <1>4, <1>5
  DEF Serves, Sound, PlainlySound, SoundCancel, SoundPage, CallSteps, SettleSteps
<1> QED
  BY <1>1, <1>2, <1>3, <1>4, <1>6, GoOn DEF CheckReply, tables

LEMMA AppendTerminalKeeps ==
  ASSUME CallsInv, NEW q \in Requests, AppendTerminal(q)
  PROVE  CallsInv'
<1>1. PICK d \in Request : Serves(q, d) /\ d.step = "append" /\ d.call \in Calls
  BY ServesAt DEF AppendTerminal
<1>2. UNCHANGED <<rows, claim, running, working, caller>>
  BY DEF AppendTerminal, tables
<1>3. PICK x : x = [d EXCEPT !.step = "consume"]
  OBVIOUS
<1>4. /\ x \in Request /\ x.op = d.op /\ x.call = d.call /\ x.todo = d.todo
      /\ x.step = "consume" /\ x.since = d.since
  BY <1>3, StepIs DEF Steps, SettleSteps
<1>5. Goto(q, x)
  BY <1>1, <1>3 DEF AppendTerminal, Serves
<1>6. PlainlySound(d) /\ StartedNow(d.call) /\ d.op \in Settlements
  BY <1>1 DEF Serves, Sound, PlainlySound, CallSteps
<1>7. CASE EndedNow(d.call)
  <2>1. UNCHANGED log
    BY <1>1, <1>7 DEF AppendTerminal, Serves
  <2>2. Sound(x)
    BY <1>4, <1>6, <1>7 DEF Sound, PlainlySound, SoundCancel, SoundPage, SettleSteps
  <2> QED
    BY <1>1, <1>2, <1>4, <1>5, <2>1, <2>2, GoOn
<1>8. CASE ~EndedNow(d.call)
  <2>1. PICK e : e = Terminal(d.call, d.op)
    OBVIOUS
  <2>2. e \in Event /\ e.type = "terminal" /\ e.call = d.call
    BY <1>1, <1>6, <2>1 DEF Terminal, Event, Ops
  <2>3. log' = Append(log, e) /\ log \in Seq(Event)
    BY <1>1, <1>8, <2>1 DEF AppendTerminal, Serves, CallsInv, Types
  <2>4. LogGrows /\ log' \in Seq(Event)
    BY <2>2, <2>3, LogAppends
  <2>5. \A c : /\ StartedNow(c)' <=> StartedNow(c)
               /\ EndedNow(c)' <=> EndedNow(c) \/ c = d.call
    BY <2>2, <2>3, AppendSays
  <2>6. StartsAreCarried
    BY <2>5 DEF StartsAreCarried
  <2>7. Becomes(q, x) /\ x # Idle
    BY <1>4, <1>5, IdleIs DEF Becomes
  <2>8. Types'
    <3>1. request' \in [Requests -> {Idle} \cup Request]
      BY <2>7, Others DEF CallsInv
    <3> QED
      BY <1>2, <2>4, <3>1 DEF CallsInv, Types
  <2>9. TablesOK'
    BY <1>2, <1>6, <2>4, <2>5, TablesStay DEF CallsInv
  <2>10. Sound(x)'
    <3>1. x.since <= Len(log')
      BY <1>4, <1>6, <2>4 DEF PlainlySound, LogGrows, Request
    <3>2. PICK c \in Calls : c = d.call
      BY <1>1
    <3>3. StartedNow(c)' /\ EndedNow(c)'
      BY <1>6, <2>5, <3>2
    <3>4. \A y \in d.todo : StartedNow(y)'
      BY <1>6, <2>5 DEF PlainlySound
    <3>5. PlainlySound(x)'
      BY <1>4, <1>6, <3>1, <3>2, <3>3, <3>4 DEF PlainlySound, SettleSteps
    <3>6. SoundCancel(x)' /\ SoundPage(x)'
      BY <1>4, <3>2, <3>3 DEF SoundCancel, SoundPage
    <3> QED
      BY <3>5, <3>6 DEF Sound
  <2>11. \A c \in Calls : CarriesCall(x, c) <=> CarriesCall(d, c)
    BY <1>1, <1>4, <2>7 DEF CarriesCall, Serves
  <2>12. Cancels(x) => Cancels(d)
    BY <1>1, <1>4 DEF Cancels, Serves
  <2> QED
    BY <1>1, <1>2, <2>4, <2>6, <2>7, <2>8, <2>9, <2>10, <2>11, <2>12, PlainStep DEF Serves
<1> QED
  BY <1>7, <1>8

LEMMA ConsumeKeeps ==
  ASSUME CallsInv, NEW q \in Requests, Consume(q)
  PROVE  CallsInv'
<1>1. PICK d \in Request : Serves(q, d) /\ d.step = "consume" /\ d.call \in Calls
  BY ServesAt DEF Consume
<1>2. EndedNow(d.call) /\ d.op \in Settlements
  BY <1>1 DEF Serves, Sound, PlainlySound, CallSteps
<1>3. TablesOK' /\ TablesTyped'
  BY DeleteKeeps DEF Consume, CallsInv
<1>4. Finish(q, TRUE) /\ UNCHANGED <<log, running, working>>
  BY DEF Consume
<1> QED
  BY <1>1, <1>2, <1>3, <1>4, FinishKeeps DEF Serves

-----------------------------------------------------------------------------
(* The steps of a call.                                                    *)

LEMMA CallMethodKeeps ==
  ASSUME CallsInv, NEW q \in Requests, NEW c \in Calls, CallMethod(q, c)
  PROVE  CallsInv'
<1>1. PICK d : d = New("call", c, "lookup")
  OBVIOUS
<1>2. d \in Request /\ d.op = "call" /\ d.call = c /\ d.step = "lookup" /\ d.todo = {}
  BY <1>1, NewIs DEF Ops, Steps, CallSteps
<1>3. PICK x : x = Read(d, "lookup")
  OBVIOUS
<1>4. /\ x \in Request /\ x.op = "call" /\ x.call = c /\ x.todo = {}
      /\ x.step = "lookup" /\ x.since = Len(log)
  <2>1. "lookup" \in Steps /\ log \in Seq(Event)
    BY DEF Steps, CallSteps, CallsInv, Types
  <2> QED
    BY <1>2, <1>3, <2>1, ReadIs
<1>5. /\ Serve(q, x) /\ Returns(c, "calling")
      /\ caller[c] \in {"new", "failed", "parked"}
      /\ UNCHANGED <<log, rows, claim, running, working>>
  BY <1>1, <1>3 DEF CallMethod, tables
<1>6. Becomes(q, x) /\ request[q] = Idle /\ x # Idle
  BY <1>4, <1>5, IdleIs DEF Serve, Becomes, Goto
<1>7. LogGrows /\ StartsAreCarried
  BY <1>5, LogStays, SameLog DEF CallsInv, Types, StartsAreCarried
<1>8. /\ caller' \in [Calls -> Callers] /\ caller'[c] = "calling"
      /\ \A y \in Calls : y # c => caller'[y] = caller[y]
  BY <1>5 DEF CallsInv, Types, Callers, Returns
<1>9. Types'
  <2>1. request' \in [Requests -> {Idle} \cup Request]
    BY <1>6, Others DEF CallsInv
  <2> QED
    BY <1>5, <1>8, <2>1 DEF CallsInv, Types
<1>10. TablesOK'
  <2>1. \A y \in Calls : EndedNow(y)' => EndedNow(y)
    BY <1>5, SameLog
  <2> QED
    BY <1>5, <1>7, <2>1, TablesStay DEF CallsInv
<1>11. ~Cancels(x)
  BY <1>4 DEF Cancels
<1>12. ASSUME NEW p \in Requests, Cancels(request[p]), ~StartedNow(request[p].call)
       PROVE  caller'[request[p].call] = caller[request[p].call]
  <2>1. PICK y \in Request : y = request[p]
    BY <1>12 DEF CallsInv, Types, Cancels
  <2>2. y.call \in Calls /\ caller[y.call] \in {"cancelling", "calling"}
    BY <1>12, <2>1 DEF CallsInv, RequestsOK, Sound, SoundCancel, Cancels, Request
  <2>3. y.call # c
    BY <1>5, <2>2
  <2> QED
    BY <1>8, <2>1, <2>2, <2>3
<1>13. RequestsOK'
  <2>1. Len(log) \in Nat /\ Len(log') = Len(log)
    BY <1>5 DEF CallsInv, Types
  <2>2. Sound(x)'
    BY <1>4, <2>1 DEF Sound, PlainlySound, SoundCancel, SoundPage, Settlements, CallSteps
  <2> QED
    BY <1>6, <1>7, <1>11, <1>12, <2>2, RequestsStep DEF CallsInv
<1>14. CallersOK'
  <2>1. \A y \in Calls : CarriesCall(x, y) <=> y = c
    BY <1>4, <1>6 DEF CarriesCall
  <2>2. \A y \in Calls : ~CarriesCall(Idle, y)
    BY DEF CarriesCall
  <2>3. request'[q] = x /\ \A p \in Requests : p # q => request'[p] = request[p]
    BY <1>6, Others DEF CallsInv
  <2>4. \A y \in Calls, p \in Requests :
          y # c => (CarriesCall(request'[p], y) <=> CarriesCall(request[p], y))
    BY <1>6, <2>1, <2>2, <2>3
  <2>5. \A y \in Calls : y # c => (InFlight(y)' <=> InFlight(y))
    BY <2>4 DEF InFlight
  <2>6. InFlight(c)'
    BY <2>1, <2>3 DEF InFlight
  <2>7. \A p \in Requests : CarriesCall(request'[p], c) => p = q
    <3>1. ~InFlight(c)
      BY <1>5 DEF CallsInv, CallersOK
    <3> QED
      BY <2>3, <3>1 DEF InFlight
  <2>8. \A y \in Calls : (StartedNow(y)' <=> StartedNow(y)) /\ (EndedNow(y)' <=> EndedNow(y))
    BY <1>5, SameLog
  <2>9. ASSUME NEW y \in Calls, y # c
        PROVE  /\ caller'[y] = "calling" => InFlight(y)'
               /\ InFlight(y)' => caller'[y] \in {"calling", "cancelled"}
               /\ \A p, r \in Requests : CarriesCall(request'[p], y) /\ CarriesCall(request'[r], y) => p = r
               /\ caller'[y] = "new" => ~StartedNow(y)'
               /\ caller'[y] = "cancelled" => EndedNow(y)' \/ (~StartedNow(y)' /\ ~InFlight(y)')
    BY <1>8, <2>4, <2>5, <2>8, <2>9 DEF CallsInv, CallersOK
  <2> QED
    BY <1>8, <2>6, <2>7, <2>9 DEF CallersOK
<1> QED
  BY <1>9, <1>10, <1>13, <1>14 DEF CallsInv

\* A call that turns out to have ended returns.
LEMMA FoundKeeps ==
  ASSUME CallsInv, NEW q, NEW d, Serves(q, d), d.op = "call", EndedNow(d.call),
         Found(q, d.call), UNCHANGED <<log, working>>
  PROVE  CallsInv'
<1>1. d.call \in Calls /\ d.todo = {} /\ q \in Requests
  BY DEF Serves, Sound, PlainlySound, Request
<1>2. Goto(q, Idle)
  BY <1>1 DEF Found, End, Serves
<1>3. StartedNow(d.call)
  BY <1>1 DEF CallsInv, TablesOK
<1>4. TablesOK' /\ TablesTyped'
  BY DeleteKeeps DEF Found, CallsInv
<1>5. RunningTyped'
  BY DEF Found, CallsInv, Types, RunningTyped
<1> QED
  BY <1>2, <1>3, <1>4, <1>5, CallReturns DEF Found, Serves

LEMMA LookupReplyKeeps ==
  ASSUME CallsInv, NEW q \in Requests, LookupReply(q)
  PROVE  CallsInv'
<1>1. PICK d \in Request : Serves(q, d) /\ d.step = "lookup" /\ d.call \in Calls
  BY ServesAt DEF LookupReply
<1>2. d.op = "call"
  BY <1>1 DEF Serves, Sound, PlainlySound, SettleSteps
<1>3. PICK n \in d.since..Len(log) :
        \/ Ended(d.call, n) /\ Found(q, d.call)
        \/ Goto(q, [d EXCEPT !.step = "start"]) /\ UNCHANGED <<rows, claim, caller, running>>
  BY <1>1 DEF LookupReply, Serves, tables
<1>4. UNCHANGED <<log, working>>
  BY DEF LookupReply
<1>5. CASE Ended(d.call, n) /\ Found(q, d.call)
  BY <1>1, <1>2, <1>4, <1>5, AnswerIs, AnswersAreSo, FoundKeeps
<1>6. CASE Goto(q, [d EXCEPT !.step = "start"]) /\ UNCHANGED <<rows, claim, caller, running>>
  <2>1. PICK x : x = [d EXCEPT !.step = "start"]
    OBVIOUS
  <2>2. /\ x \in Request /\ x.op = d.op /\ x.call = d.call /\ x.todo = d.todo
        /\ x.step = "start" /\ x.since = d.since
    BY <2>1, StepIs DEF Steps, CallSteps
  <2>3. Sound(x)
    BY <1>1, <1>2, <2>2
    DEF Serves, Sound, PlainlySound, SoundCancel, SoundPage, CallSteps, Settlements
  <2> QED
    BY <1>1, <1>4, <1>6, <2>1, <2>2, <2>3, GoOn
<1> QED
  BY <1>3, <1>5, <1>6

LEMMA StartReplyKeeps ==
  ASSUME CallsInv, NEW q \in Requests, StartReply(q)
  PROVE  CallsInv'
<1>1. PICK d \in Request : Serves(q, d) /\ d.step = "started" /\ d.call \in Calls
  BY ServesAt DEF StartReply
<1>2. PICK x : x = Read(d, "lookupAgain")
  OBVIOUS
<1>3. /\ x \in Request /\ x.op = d.op /\ x.call = d.call /\ x.todo = d.todo
      /\ x.step = "lookupAgain" /\ x.since = Len(log)
  <2>1. "lookupAgain" \in Steps /\ log \in Seq(Event)
    BY DEF Steps, CallSteps, CallsInv, Types
  <2> QED
    BY <1>2, <2>1, ReadIs
<1>4. Len(log) \in Nat
  BY DEF CallsInv, Types
<1>5. Sound(x)
  BY <1>1, <1>3, <1>4
  DEF Serves, Sound, PlainlySound, SoundCancel, SoundPage, CallSteps, SettleSteps, Settlements
<1> QED
  BY <1>1, <1>2, <1>3, <1>5, GoOn DEF StartReply, tables, Serves

LEMMA AppendStartKeeps ==
  ASSUME CallsInv, NEW q \in Requests, AppendStart(q)
  PROVE  CallsInv'
<1>1. PICK d \in Request : Serves(q, d) /\ d.step = "start" /\ d.call \in Calls
  BY ServesAt DEF AppendStart
<1>2. UNCHANGED <<rows, claim, running, working, caller>>
  BY DEF AppendStart, tables
<1>3. PICK x : x = [d EXCEPT !.step = "started"]
  OBVIOUS
<1>4. /\ x \in Request /\ x.op = d.op /\ x.call = d.call /\ x.todo = d.todo
      /\ x.step = "started" /\ x.since = d.since
  BY <1>3, StepIs DEF Steps, CallSteps
<1>5. Goto(q, x)
  BY <1>1, <1>3 DEF AppendStart, Serves
<1>6. PlainlySound(d) /\ d.op = "call"
  BY <1>1 DEF Serves, Sound, PlainlySound, SettleSteps
<1>7. CASE StartedNow(d.call)
  <2>1. UNCHANGED log
    BY <1>1, <1>7 DEF AppendStart, Serves
  <2>2. Sound(x)
    BY <1>4, <1>6, <1>7 DEF Sound, PlainlySound, SoundCancel, SoundPage, CallSteps, Settlements
  <2> QED
    BY <1>1, <1>2, <1>4, <1>5, <2>1, <2>2, GoOn
<1>8. CASE ~StartedNow(d.call)
  <2>1. PICK e : e = Start(d.call)
    OBVIOUS
  <2>2. e \in Event /\ e.type = "started" /\ e.call = d.call
    BY <1>1, <2>1 DEF Start, Event, Ops
  <2>3. log' = Append(log, e) /\ log \in Seq(Event)
    BY <1>1, <1>8, <2>1 DEF AppendStart, Serves, CallsInv, Types
  <2>4. LogGrows /\ log' \in Seq(Event)
    BY <2>2, <2>3, LogAppends
  <2>5. \A c : /\ StartedNow(c)' <=> StartedNow(c) \/ c = d.call
               /\ EndedNow(c)' <=> EndedNow(c)
    BY <2>2, <2>3, AppendSays
  <2>6. StartsAreCarried
    <3>1. InFlight(d.call)
      BY <1>1, <1>6 DEF Serves, InFlight, CarriesCall
    <3> QED
      BY <2>5, <3>1 DEF StartsAreCarried
  <2>7. Becomes(q, x) /\ x # Idle
    BY <1>4, <1>5, IdleIs DEF Becomes
  <2>8. Types'
    <3>1. request' \in [Requests -> {Idle} \cup Request]
      BY <2>7, Others DEF CallsInv
    <3> QED
      BY <1>2, <2>4, <3>1 DEF CallsInv, Types
  <2>9. TablesOK'
    BY <1>2, <2>4, <2>5, TablesStay DEF CallsInv
  <2>10. Sound(x)'
    <3>1. x.since <= Len(log')
      BY <1>4, <1>6, <2>4 DEF PlainlySound, LogGrows, Request
    <3>2. PICK c \in Calls : c = d.call
      BY <1>1
    <3>3. StartedNow(c)'
      BY <2>5, <3>2
    <3>4. \A y \in d.todo : StartedNow(y)'
      BY <1>6, <2>5 DEF PlainlySound
    <3>5. PlainlySound(x)'
      BY <1>4, <1>6, <3>1, <3>2, <3>3, <3>4 DEF PlainlySound, CallSteps, Settlements
    <3>6. SoundCancel(x)' /\ SoundPage(x)'
      BY <1>4, <3>2, <3>3 DEF SoundCancel, SoundPage
    <3> QED
      BY <3>5, <3>6 DEF Sound
  <2>11. \A c \in Calls : CarriesCall(x, c) <=> CarriesCall(d, c)
    BY <1>1, <1>4, <2>7 DEF CarriesCall, Serves
  <2>12. Cancels(x) => Cancels(d)
    BY <1>1, <1>4 DEF Cancels, Serves
  <2> QED
    BY <1>1, <1>2, <2>4, <2>6, <2>7, <2>8, <2>9, <2>10, <2>11, <2>12, PlainStep DEF Serves
<1> QED
  BY <1>7, <1>8

\* Dispatches of rows, each under a claim of its own.
LEMMA DispatchKeeps ==
  ASSUME Types, TablesOK, UNCHANGED <<log, working>>,
         rows' \subseteq Calls, \A c \in rows' : StartedNow(c),
         NEW S \in SUBSET rows', claim' \in [Calls -> Claim],
         \A c \in Calls : claim'[c].generation > 0 => c \in rows',
         running' = running \cup {[call |-> c, generation |-> claim'[c].generation] : c \in S}
  PROVE  TablesOK' /\ TablesTyped' /\ RunningTyped'
<1>1. \A c : (StartedNow(c)' <=> StartedNow(c)) /\ (EndedNow(c)' <=> EndedNow(c))
  BY SameLog
<1>2. ASSUME NEW r \in running'
      PROVE  r \in [call : Calls, generation : Nat] /\ StartedNow(r.call)
  <2>1. CASE r \in running
    BY <2>1 DEF Types, TablesOK
  <2>2. CASE r \notin running
    <3>1. PICK c \in S : r = [call |-> c, generation |-> claim'[c].generation]
      BY <1>2, <2>2
    <3>2. PICK g \in Nat : g = claim'[c].generation
      BY DEF Claim
    <3>3. r = [call |-> c, generation |-> g]
      BY <3>1, <3>2
    <3> QED
      BY <3>3
  <2> QED
    BY <2>1, <2>2
<1>3. \A w \in working' : StartedNow(w.call)
  BY DEF TablesOK
<1> QED
  BY <1>1, <1>2, <1>3 DEF TablesOK, TablesTyped, RunningTyped, Types

LEMMA LookupAgainReplyKeeps ==
  ASSUME CallsInv, NEW q \in Requests, LookupAgainReply(q)
  PROVE  CallsInv'
<1>1. PICK d \in Request : Serves(q, d) /\ d.step = "lookupAgain" /\ d.call \in Calls
  BY ServesAt DEF LookupAgainReply
<1>2. d.op = "call" /\ StartedNow(d.call) /\ d.todo = {} /\ PlainlySound(d)
  BY <1>1 DEF Serves, Sound, PlainlySound, SettleSteps
<1>3. PICK c \in Calls : c = d.call
  BY <1>1
<1>4. PICK n \in d.since..Len(log) :
        \/ Ended(c, n) /\ Found(q, c)
        \/ /\ rows' = rows \cup {c}
           /\ Goto(q, New("undeliverable", c, "barrier"))
           /\ UNCHANGED <<claim, running, caller>>
        \/ /\ rows' = rows \cup {c}
           /\ Deliver(IF route = "direct" THEN {c} ELSE {})
           /\ End(q) /\ Returns(c, "parked")
  BY <1>1, <1>3 DEF LookupAgainReply, Serves
<1>5. UNCHANGED <<log, working>>
  BY DEF LookupAgainReply
<1>6. CASE Ended(c, n) /\ Found(q, c)
  BY <1>1, <1>2, <1>3, <1>5, <1>6, AnswerIs, AnswersAreSo, FoundKeeps
<1>7. CASE /\ rows' = rows \cup {c}
           /\ Goto(q, New("undeliverable", c, "barrier"))
           /\ UNCHANGED <<claim, running, caller>>
  <2>1. PICK x : x = New("undeliverable", c, "barrier")
    OBVIOUS
  <2>2. /\ x \in Request /\ x.op = "undeliverable" /\ x.call = c /\ x.todo = {}
        /\ x.step = "barrier" /\ x.since = 0
    BY <2>1, NewIs DEF Ops, Settlements, Steps, SettleSteps
  <2>3. 0 <= Len(log)
    BY DEF CallsInv, Types
  <2>4. Sound(x)
    BY <1>2, <1>3, <2>2, <2>3
    DEF Sound, PlainlySound, SoundCancel, SoundPage, Settlements, SettleSteps
  <2>5. Becomes(q, x) /\ x # Idle
    BY <1>7, <2>1, <2>2, IdleIs DEF Becomes
  <2>6. Types'
    <3>1. request' \in [Requests -> {Idle} \cup Request]
      BY <2>5, Others DEF CallsInv
    <3> QED
      BY <1>5, <1>7, <3>1 DEF CallsInv, Types
  <2>7. TablesOK'
    <3>1. \A y : (StartedNow(y)' <=> StartedNow(y)) /\ (EndedNow(y)' <=> EndedNow(y))
      BY <1>5, SameLog
    <3> QED
      BY <1>2, <1>3, <1>5, <1>7, <3>1 DEF CallsInv, TablesOK
  <2>8. \A y \in Calls : CarriesCall(x, y) <=> CarriesCall(d, y)
    BY <1>1, <1>2, <1>3, <2>2, <2>5 DEF CarriesCall, Serves
  <2>9. ~Cancels(x)
    BY <2>2 DEF Cancels
  <2> QED
    BY <1>1, <1>5, <1>7, <2>4, <2>5, <2>6, <2>7, <2>8, <2>9, QuietStep DEF Serves
<1>8. CASE /\ rows' = rows \cup {c}
           /\ Deliver(IF route = "direct" THEN {c} ELSE {})
           /\ End(q) /\ Returns(c, "parked")
  <2>1. PICK S \in SUBSET {c} : S = IF route = "direct" THEN {c} ELSE {}
    OBVIOUS
  <2>2. /\ claim' = [y \in Calls |-> IF y \in S THEN Claimed(y, 0) ELSE claim[y]]
        /\ running' = running \cup {[call |-> y, generation |-> claim'[y].generation] : y \in S}
    BY <1>8, <2>1 DEF Deliver
  <2>3. \A y \in Calls : Claimed(y, 0) \in Claim
    BY ClaimedIs DEF CallsInv
  <2>4. claim' \in [Calls -> Claim]
    BY <2>2, <2>3 DEF CallsInv, Types
  <2>5. \A y \in Calls : claim'[y].generation > 0 => y \in rows'
    BY <1>8, <2>1, <2>2 DEF CallsInv, TablesOK
  <2>6. rows' \subseteq Calls /\ S \in SUBSET rows' /\ \A y \in rows' : StartedNow(y)
    BY <1>2, <1>3, <1>8 DEF CallsInv, Types, TablesOK
  <2>7. TablesOK' /\ TablesTyped' /\ RunningTyped'
    BY <1>5, <2>2, <2>4, <2>5, <2>6, DispatchKeeps DEF CallsInv
  <2>8. Goto(q, Idle)
    BY <1>1, <1>2, <1>8 DEF End, Serves
  <2> QED
    BY <1>1, <1>2, <1>3, <1>5, <1>8, <2>7, <2>8, CallReturns DEF Serves
<1> QED
  BY <1>4, <1>6, <1>7, <1>8

LEMMA RedeliverReplyKeeps ==
  ASSUME CallsInv, NEW q \in Requests, RedeliverReply(q)
  PROVE  CallsInv'
<1>1. PICK d \in Request : Serves(q, d) /\ d.step = "redeliver" /\ d.call \in Calls
  BY ServesAt DEF RedeliverReply
<1>2. d.op = "join"
  BY <1>1 DEF Serves, Sound, PlainlySound, CallSteps, SettleSteps
<1>3. UNCHANGED <<log, working, caller>> /\ Goto(q, Idle)
  BY DEF RedeliverReply
<1>4. PICK over \in SUBSET Calls, sent \in SUBSET Calls :
        /\ sent \subseteq rows \ over
        /\ rows' = rows \ over
        /\ claim' = [c \in Calls |-> CASE c \in over -> NoClaim
                                       [] c \in sent -> Claimed(c, 0)
                                       [] OTHER -> claim[c]]
        /\ running' = running \cup {[call |-> c, generation |-> claim'[c].generation] : c \in sent}
  <2> DEFINE Over(n) == {c \in d.todo : Ended(c, n)}
             Sent(n) == IF route = "direct" THEN (d.todo \ Over(n)) \cap rows ELSE {}
  <2>1. PICK n \in d.since..Len(log) :
          /\ rows' = rows \ Over(n)
          /\ claim' = [c \in Calls |-> CASE c \in Over(n) -> NoClaim
                                         [] c \in Sent(n) -> Claimed(c, 0)
                                         [] OTHER -> claim[c]]
          /\ running' = running \cup {[call |-> c, generation |-> claim'[c].generation] : c \in Sent(n)}
    BY <1>1 DEF RedeliverReply, Serves
  <2>2. d.todo \in SUBSET Calls
    BY DEF Request
  <2>3. Over(n) \in SUBSET Calls /\ Sent(n) \in SUBSET Calls /\ Sent(n) \subseteq rows \ Over(n)
    BY <2>2
  <2> HIDE DEF Over, Sent
  <2> QED
    BY <2>1, <2>3
<1>5. sent \in SUBSET rows' /\ sent \cap over = {}
  BY <1>4
<1>6. \A c \in Calls : Claimed(c, 0) \in Claim
  BY ClaimedIs DEF CallsInv
<1>7. claim' \in [Calls -> Claim]
  BY <1>4, <1>6, NoClaimIs DEF CallsInv, Types
<1>8. \A c \in Calls : claim'[c].generation > 0 => c \in rows'
  <2>1. ASSUME NEW c \in Calls, claim'[c].generation > 0
        PROVE  c \in rows'
    <3>1. c \notin over
      BY <1>4, <2>1, NoClaimIs
    <3>2. CASE c \in sent
      BY <1>5, <3>2
    <3>3. CASE c \notin sent
      <4>1. claim'[c] = claim[c]
        BY <1>4, <3>1, <3>3
      <4> QED
        BY <1>4, <2>1, <3>1, <4>1 DEF CallsInv, TablesOK
    <3> QED
      BY <3>2, <3>3
  <2> QED
    BY <2>1
<1>9. rows' \subseteq Calls /\ \A c \in rows' : StartedNow(c)
  BY <1>4 DEF CallsInv, Types, TablesOK
<1>10. TablesOK' /\ TablesTyped' /\ RunningTyped'
  BY <1>3, <1>4, <1>5, <1>7, <1>8, <1>9, DispatchKeeps DEF CallsInv
<1>11. Becomes(q, Idle)
  BY <1>3 DEF Becomes
<1>12. Types'
  <2>1. request' \in [Requests -> {Idle} \cup Request]
    BY <1>11, Others DEF CallsInv
  <2> QED
    BY <1>3, <1>10, <2>1 DEF CallsInv, Types, TablesTyped, RunningTyped
<1>13. \A c \in Calls : ~CarriesCall(Idle, c) /\ ~CarriesCall(d, c)
  BY <1>2 DEF CarriesCall
<1>14. ~Cancels(Idle)
  BY DEF Cancels
<1> QED
  BY <1>1, <1>3, <1>10, <1>11, <1>12, <1>13, <1>14, QuietStep DEF Serves

-----------------------------------------------------------------------------
(* Claims, cancellations, moves of the target, and the crash.              *)

LEMMA ClaimMethodCallKeeps ==
  ASSUME CallsInv, NEW c \in Calls, NEW i \in Providers, ClaimMethodCall(c, i)
  PROVE  CallsInv'
<1>1. UNCHANGED <<log, rows, request, running, caller>>
  BY DEF ClaimMethodCall
<1>2. PICK x \in Claim : x = Claimed(c, i) /\ x.holder = i
  BY ClaimedIs DEF CallsInv
<1>3. /\ c \in rows /\ claim' = [claim EXCEPT ![c] = x]
      /\ working' = working \cup {[call |-> c, generation |-> claim'[c].generation, holder |-> i]}
  BY <1>2 DEF ClaimMethodCall
<1>4. claim' \in [Calls -> Claim] /\ claim'[c] = x
  BY <1>3 DEF CallsInv, Types
<1>5. PICK g \in Nat : g = x.generation
  BY DEF Claim
<1>6. working' = working \cup {[call |-> c, generation |-> g, holder |-> i]}
  BY <1>3, <1>4, <1>5
<1>7. Types'
  BY <1>1, <1>4, <1>6 DEF CallsInv, Types
<1>8. \A y : (StartedNow(y)' <=> StartedNow(y)) /\ (EndedNow(y)' <=> EndedNow(y))
  BY <1>1, SameLog
<1>9. TablesOK'
  <2>1. \A y \in Calls : claim'[y].generation > 0 => y \in rows'
    BY <1>1, <1>3 DEF CallsInv, Types, TablesOK
  <2>2. \A w \in working' : StartedNow(w.call)
    BY <1>3, <1>6 DEF CallsInv, TablesOK
  <2> QED
    BY <1>1, <1>8, <2>1, <2>2 DEF CallsInv, TablesOK
<1>10. RequestsOK'
  <2>1. \A d \in Request : Sound(d)' <=> Sound(d)
    BY <1>1, SoundSame
  <2> QED
    BY <1>1, <2>1 DEF CallsInv, RequestsOK, Cancels
<1>11. CallersOK'
  BY <1>1, <1>8 DEF CallsInv, CallersOK, InFlight, CarriesCall
<1> QED
  BY <1>7, <1>9, <1>10, <1>11 DEF CallsInv

LEMMA CancelMethodCallKeeps ==
  ASSUME CallsInv, NEW q \in Requests, NEW c \in Calls, CancelMethodCall(q, c)
  PROVE  CallsInv'
<1>1. PICK d : d = New("cancel", c, "barrier")
  OBVIOUS
<1>2. /\ d \in Request
      /\ d.op = "cancel" /\ d.call = c /\ d.step = "barrier" /\ d.since = 0 /\ d.todo = {}
  BY <1>1, NewIs DEF Ops, Settlements, Steps, SettleSteps
<1>3. PICK new \in {"calling", "cancelling"} :
        /\ caller' = [caller EXCEPT ![c] = new]
        /\ new = "calling" => caller[c] = "calling"
        /\ new = "cancelling" => caller[c] \in {"parked", "failed"}
  BY DEF CancelMethodCall, Returns
<1>4. /\ Serve(q, d) /\ UNCHANGED <<log, rows, claim, running, working>>
      /\ \A p \in Requests : ~Cancels(request[p])
  BY <1>1 DEF CancelMethodCall, Settle, tables, Cancels
<1>5. Becomes(q, d) /\ request[q] = Idle
  BY <1>2, <1>4 DEF Serve, Becomes, Goto
<1>6. /\ caller' \in [Calls -> Callers] /\ caller'[c] = new
      /\ \A y \in Calls : y # c => caller'[y] = caller[y]
  BY <1>3 DEF CallsInv, Types, Callers
<1>7. Types'
  <2>1. request' \in [Requests -> {Idle} \cup Request]
    BY <1>5, Others DEF CallsInv
  <2> QED
    BY <1>4, <1>6, <2>1 DEF CallsInv, Types
<1>8. LogGrows /\ StartsAreCarried
  BY <1>4, LogStays, SameLog DEF CallsInv, Types, StartsAreCarried
<1>9. TablesOK'
  <2>1. \A y \in Calls : EndedNow(y)' => EndedNow(y)
    BY <1>4, SameLog
  <2> QED
    BY <1>4, <1>8, <2>1, TablesStay DEF CallsInv
<1>10. RequestsOK'
  <2>1. 0 <= Len(log')
    BY <1>4 DEF CallsInv, Types
  <2>2. PlainlySound(d)' /\ SoundPage(d)'
    BY <1>2, <2>1 DEF PlainlySound, SoundPage, Settlements, SettleSteps
  <2>3. SoundCancel(d)'
    BY <1>2, <1>6 DEF SoundCancel
  <2>4. Sound(d)'
    BY <2>2, <2>3 DEF Sound
  <2> QED
    BY <1>4, <1>5, <1>8, <2>4, RequestsStep DEF CallsInv
<1>11. CallersOK'
  <2>1. \A y \in Calls : ~CarriesCall(d, y) /\ ~CarriesCall(Idle, y)
    BY <1>2 DEF CarriesCall
  <2>2. \A y \in Calls, p \in Requests : CarriesCall(request'[p], y) <=> CarriesCall(request[p], y)
    BY <1>5, <2>1, Others DEF CallsInv
  <2>3. \A y \in Calls : InFlight(y)' <=> InFlight(y)
    BY <2>2 DEF InFlight
  <2>4. \A y \in Calls : (StartedNow(y)' <=> StartedNow(y)) /\ (EndedNow(y)' <=> EndedNow(y))
    BY <1>4, SameLog
  <2>5. InFlight(c) => new = "calling"
    BY <1>3 DEF CallsInv, CallersOK
  <2>6. new = "calling" => InFlight(c)
    BY <1>3 DEF CallsInv, CallersOK
  <2>7. \A y \in Calls, p, r \in Requests :
          CarriesCall(request'[p], y) /\ CarriesCall(request'[r], y) => p = r
    BY <2>2 DEF CallsInv, CallersOK
  <2>8. ASSUME NEW y \in Calls, y # c
        PROVE  /\ caller'[y] = "calling" => InFlight(y)'
               /\ InFlight(y)' => caller'[y] \in {"calling", "cancelled"}
               /\ caller'[y] = "new" => ~StartedNow(y)'
               /\ caller'[y] = "cancelled" => EndedNow(y)' \/ (~StartedNow(y)' /\ ~InFlight(y)')
    BY <1>6, <2>3, <2>4, <2>8 DEF CallsInv, CallersOK
  <2> QED
    BY <1>6, <2>3, <2>5, <2>6, <2>7, <2>8 DEF CallersOK
<1> QED
  BY <1>7, <1>9, <1>10, <1>11 DEF CallsInv

LEMMA LeaveKeeps ==
  ASSUME CallsInv, NEW q \in Requests, Leave(q)
  PROVE  CallsInv'
<1>1. UNCHANGED <<log, rows, claim, running, working, caller>>
  BY DEF Leave, tables
<1>2. CASE rows = {}
  <2>1. UNCHANGED request
    BY <1>2 DEF Leave
  <2> QED
    BY <1>1, <2>1, NobodyMoves
<1>3. CASE rows # {}
  <2>1. PICK c \in rows : c = CHOOSE x \in rows : TRUE
    BY <1>3
  <2>2. c \in Calls /\ rows \in SUBSET Calls /\ \A y \in rows : StartedNow(y)
    BY DEF CallsInv, Types, TablesOK
  <2>3. PICK d : d = New("abandon", c, "barrier")
    OBVIOUS
  <2>4. /\ d \in Request
        /\ d.op = "abandon" /\ d.call = c /\ d.step = "barrier" /\ d.since = 0
    BY <2>2, <2>3, NewIs DEF Ops, Settlements, Steps, SettleSteps
  <2>5. PICK x : x = [d EXCEPT !.todo = rows \ {c}]
    OBVIOUS
  <2>6. /\ x \in Request /\ x.op = "abandon" /\ x.call = c /\ x.step = "barrier"
        /\ x.since = 0 /\ x.todo = rows \ {c}
    BY <2>2, <2>4, <2>5, TodoIs
  <2>7. 0 <= Len(log)
    BY DEF CallsInv, Types
  <2>8. Sound(x)
    BY <2>2, <2>6, <2>7
    DEF Sound, PlainlySound, SoundCancel, SoundPage, Settlements, SettleSteps
  <2>9. Serve(q, x)
    BY <1>3, <2>1, <2>3, <2>5 DEF Leave
  <2> QED
    BY <1>1, <2>6, <2>8, <2>9, BeginStep
<1> QED
  BY <1>2, <1>3

LEMMA JoinKeeps ==
  ASSUME CallsInv, NEW q \in Requests, Join(q)
  PROVE  CallsInv'
<1>1. UNCHANGED <<log, rows, claim, running, working, caller>>
  BY DEF Join, tables
<1>2. CASE rows = {}
  <2>1. UNCHANGED request
    BY <1>2 DEF Join
  <2> QED
    BY <1>1, <2>1, NobodyMoves
<1>3. CASE rows # {}
  <2>1. PICK c \in rows : c = CHOOSE x \in rows : TRUE
    BY <1>3
  <2>2. c \in Calls /\ rows \in SUBSET Calls /\ \A y \in rows : StartedNow(y)
    BY DEF CallsInv, Types, TablesOK
  <2>3. PICK d : d = New("join", c, "redeliver")
    OBVIOUS
  <2>4. d \in Request /\ d.op = "join" /\ d.call = c /\ d.step = "redeliver"
    BY <2>2, <2>3, NewIs DEF Ops, Steps
  <2>5. PICK y : y = [d EXCEPT !.todo = rows]
    OBVIOUS
  <2>6. y \in Request /\ y.op = "join" /\ y.call = c /\ y.todo = rows
    BY <2>2, <2>4, <2>5, TodoIs
  <2>7. PICK x : x = Read(y, "redeliver")
    OBVIOUS
  <2>8. /\ x \in Request /\ x.op = "join" /\ x.call = c /\ x.step = "redeliver"
        /\ x.since = Len(log) /\ x.todo = rows
    <3>1. "redeliver" \in Steps /\ log \in Seq(Event)
      BY DEF Steps, CallsInv, Types
    <3> QED
      BY <2>6, <2>7, <3>1, ReadIs
  <2>9. Len(log) \in Nat
    BY DEF CallsInv, Types
  <2>10. Sound(x)
    BY <2>2, <2>8, <2>9 DEF Sound, PlainlySound, SoundCancel, SoundPage, Settlements
  <2>11. Serve(q, x)
    BY <1>3, <2>1, <2>3, <2>5, <2>7 DEF Join
  <2> QED
    BY <1>1, <2>8, <2>10, <2>11, BeginStep
<1> QED
  BY <1>2, <1>3

LEMMA CrashKeeps ==
  ASSUME CallsInv, Crash
  PROVE  CallsInv'
<1>1. /\ request' = [q \in Requests |-> Idle] /\ running' = {}
      /\ UNCHANGED <<log, rows, claim, working>>
  BY DEF Crash, tables
<1>2. ASSUME NEW c \in Calls
      PROVE  /\ caller'[c] \in {caller[c], "failed"}
             /\ InFlight(c) => caller'[c] = "failed"
  BY DEF Crash, InFlight, CarriesCall
<1>3. caller' \in [Calls -> Callers]
  <2>1. caller' = [c \in Calls |-> caller'[c]]
    BY DEF Crash
  <2>2. \A c \in Calls : caller'[c] \in Callers
    BY <1>2 DEF CallsInv, Types, Callers
  <2> QED
    BY <2>1, <2>2
<1>4. Types'
  BY <1>1, <1>3 DEF CallsInv, Types
<1>5. \A c : (StartedNow(c)' <=> StartedNow(c)) /\ (EndedNow(c)' <=> EndedNow(c))
  BY <1>1, SameLog
<1>6. TablesOK'
  BY <1>1, <1>5, LogStays, TablesStay DEF CallsInv, Types
<1>7. RequestsOK'
  BY <1>1, IdleIs DEF RequestsOK, Cancels
<1>8. \A c \in Calls : ~InFlight(c)'
  BY <1>1 DEF InFlight, CarriesCall
<1>9. CallersOK'
  <2>1. \A c \in Calls, q \in Requests : ~CarriesCall(request'[q], c)
    BY <1>8 DEF InFlight
  <2> QED
    BY <1>2, <1>5, <1>8, <2>1 DEF CallsInv, CallersOK
<1> QED
  BY <1>4, <1>6, <1>7, <1>9 DEF CallsInv

-----------------------------------------------------------------------------
LEMMA InitSound == Init => CallsInv
<1> SUFFICES ASSUME Init
             PROVE  CallsInv
  OBVIOUS
<1>1. Types
  BY NoClaimIs DEF Init, Types, Callers
<1>2. \A c : ~StartedNow(c) /\ ~EndedNow(c)
  BY DEF Init, StartedNow, EndedNow, Started, Ended
<1>3. TablesOK
  BY <1>2, NoClaimIs DEF Init, TablesOK
<1>4. RequestsOK
  BY IdleIs DEF Init, RequestsOK, Cancels
<1>5. CallersOK
  BY <1>2 DEF Init, CallersOK, InFlight, CarriesCall
<1> QED
  BY <1>1, <1>3, <1>4, <1>5 DEF CallsInv

LEMMA StepSound == CallsInv /\ [Next]_vars => CallsInv'
<1> SUFFICES ASSUME CallsInv, [Next]_vars
             PROVE  CallsInv'
  OBVIOUS
<1>1. ASSUME NEW q \in Requests, Continue(q)
      PROVE  CallsInv'
  BY <1>1, LookupReplyKeeps, AppendStartKeeps, StartReplyKeeps, LookupAgainReplyKeeps,
     PassBarrierKeeps, EndedReplyKeeps, PageReplyKeeps, CheckReplyKeeps,
     AppendTerminalKeeps, ConsumeKeeps, RedeliverReplyKeeps DEF Continue
<1>2. ASSUME NEW q \in Requests, Leave(q) \/ Join(q)
      PROVE  CallsInv'
  BY <1>2, LeaveKeeps, JoinKeeps
<1>3. ASSUME NEW q \in Requests, NEW c \in Calls,
             CallMethod(q, c) \/ CancelMethodCall(q, c) \/ TimeoutMethodCall(q, c)
      PROVE  CallsInv'
  BY <1>3, CallMethodKeeps, CancelMethodCallKeeps, TimeoutMethodCallKeeps
<1>4. ASSUME NEW q \in Requests, NEW r \in running, DirectResult(q, r)
      PROVE  CallsInv'
  BY <1>4, DirectResultKeeps
<1>5. ASSUME NEW q \in Requests, NEW w \in working, SubmitMethodResult(q, w)
      PROVE  CallsInv'
  BY <1>5, SubmitMethodResultKeeps
<1>6. ASSUME NEW c \in Calls, NEW i \in Providers, ClaimMethodCall(c, i)
      PROVE  CallsInv'
  BY <1>6, ClaimMethodCallKeeps
<1>7. CASE Crash
  BY <1>7, CrashKeeps
<1>8. CASE UNCHANGED vars
  BY <1>8, NobodyMoves DEF vars, tables
<1> QED
  BY <1>1, <1>2, <1>3, <1>4, <1>5, <1>6, <1>7, <1>8 DEF Next

\* What settlements, callers and tables rely on, for any calls.
THEOREM CallsStaySound == Spec => []CallsInv
<1>1. Init => CallsInv
  BY InitSound
<1>2. CallsInv /\ [Next]_vars => CallsInv'
  BY StepSound
<1> QED
  BY <1>1, <1>2, PTL DEF Spec

\* Claims belong to rows, and no request reads beyond the log (deleteRow,
\* reconcilePendingCalls).
THEOREM CallTypes == Spec => []TypeOK
<1>1. CallsInv => TypeOK
  <2> SUFFICES ASSUME CallsInv
               PROVE  TypeOK
    OBVIOUS
  <2>1. ASSUME NEW q \in Requests, request[q] # Idle
        PROVE  request[q].since \in 0..Len(log)
    <3>1. PICK d \in Request : d = request[q] /\ Sound(d)
      BY <2>1 DEF CallsInv, Types, RequestsOK
    <3>2. Len(log) \in Nat /\ d.since \in Nat /\ d.since <= Len(log)
      BY <3>1 DEF CallsInv, Types, Request, Sound, PlainlySound
    <3> QED
      BY <3>1, <3>2
  <2> QED
    BY <2>1 DEF TypeOK, CallsInv, Types, TablesOK
<1> QED
  BY <1>1, CallsStaySound, PTL

-----------------------------------------------------------------------------
(* A settlement that is done leaves no call that is started and not ended.  *)

LEMMA OneMoves ==
  ASSUME Types, NEW p \in Requests, NEW q \in Requests, p # q, NEW x, Goto(p, x)
  PROVE  request'[q] = request[q]
BY DEF Types, Goto

LEMMA ContinueMoves ==
  ASSUME NEW q \in Requests, Continue(q)
  PROVE  \E x : Goto(q, x)
<1>1. ASSUME End(q)
      PROVE  \E x : Goto(q, x)
  BY <1>1 DEF End
<1>2. CASE LookupReply(q) \/ AppendStart(q) \/ StartReply(q) \/ LookupAgainReply(q)
  BY <1>1, <1>2 DEF LookupReply, AppendStart, StartReply, LookupAgainReply, Found
<1>3. CASE PassBarrier(q) \/ EndedReply(q) \/ CheckReply(q)
  BY <1>1, <1>3 DEF PassBarrier, EndedReply, CheckReply, Finish
<1>4. CASE PageReply(q)
  BY <1>1, <1>4 DEF PageReply, Finish
<1>5. CASE AppendTerminal(q) \/ Consume(q) \/ RedeliverReply(q)
  BY <1>1, <1>5 DEF AppendTerminal, Consume, RedeliverReply, Finish
<1> QED
  BY <1>2, <1>3, <1>4, <1>5 DEF Continue

\* A settlement lets go of its call: it is over, or turns to another.
LetsGo(q, d) == request'[q] = Idle \/ request'[q].call # d.call

LEMMA GoingOn ==
  ASSUME CallsInv, NEW q, NEW d, Serves(q, d), NEW x \in Request, Goto(q, x), x.call = d.call
  PROVE  ~LetsGo(q, d)
BY IdleIs DEF LetsGo, Goto, Serves, CallsInv, Types

LEMMA ContinueSettles ==
  ASSUME CallsInv, NEW q \in Requests, Continue(q),
         NEW d \in Request, Serves(q, d), d.op \in Settlements, LetsGo(q, d)
  PROVE  EndedNow(d.call) \/ ~StartedNow(d.call)
<1>1. d.step \in SettleSteps /\ d.call \in Calls
  BY DEF Serves, Sound, PlainlySound, Request, Settlements
<1>2. d.step \notin CallSteps \cup {"redeliver"}
  BY <1>1 DEF CallSteps, SettleSteps
<1>3. log \in Seq(Event)
  BY DEF CallsInv, Types
<1>4. ASSUME NEW step \in Steps, Goto(q, Read(d, step))
      PROVE  FALSE
  <2>1. PICK x : x = Read(d, step)
    OBVIOUS
  <2>2. x \in Request /\ x.call = d.call /\ Goto(q, x)
    BY <1>3, <1>4, <2>1, ReadIs
  <2> QED
    BY <2>2, GoingOn
<1>5. ASSUME NEW step \in Steps, Goto(q, [d EXCEPT !.step = step])
      PROVE  FALSE
  <2>1. PICK x : x = [d EXCEPT !.step = step]
    OBVIOUS
  <2>2. x \in Request /\ x.call = d.call /\ Goto(q, x)
    BY <1>5, <2>1, StepIs
  <2> QED
    BY <2>2, GoingOn
<1>6. {"check", "ended", "page", "barrier", "consume", "append"} \subseteq Steps
  BY DEF Steps, SettleSteps
<1>7. ~(LookupReply(q) \/ AppendStart(q) \/ StartReply(q) \/ LookupAgainReply(q) \/ RedeliverReply(q))
  BY <1>2 DEF Serves, CallSteps, At, LookupReply, AppendStart, StartReply, LookupAgainReply,
              RedeliverReply
<1>8. ~PassBarrier(q)
  BY <1>4, <1>6 DEF PassBarrier, Serves
<1>9. ~AppendTerminal(q)
  BY <1>5, <1>6 DEF AppendTerminal, Serves
<1>10. ~CheckReply(q)
  <2> SUFFICES ASSUME CheckReply(q)
               PROVE  FALSE
    OBVIOUS
  <2>1. PICK step \in {"consume", "append"} : Goto(q, [d EXCEPT !.step = step])
    BY DEF CheckReply, Serves
  <2> QED
    BY <1>5, <1>6, <2>1
<1>11. CASE EndedReply(q)
  <2>1. PICK n \in d.since..Len(log) : Ended(d.call, n)
    BY <1>4, <1>6, <1>11 DEF EndedReply, Serves
  <2> QED
    BY <2>1, AnswerIs, AnswersAreSo
<1>12. CASE PageReply(q)
  <2>1. d.step = "page"
    BY <1>12 DEF PageReply, At, Serves
  <2>2. PICK n \in d.since..Len(log) : d.call \notin Pending(n)
    BY <1>4, <1>5, <1>6, <1>12 DEF PageReply, Serves
  <2> QED
    BY <1>1, <2>1, <2>2, PageDecides
<1>13. CASE Consume(q)
  BY <1>13 DEF Consume, At, Serves, Sound, PlainlySound
<1> QED
  BY <1>7, <1>8, <1>9, <1>10, <1>11, <1>12, <1>13 DEF Continue

LEMMA StepSettles ==
  ASSUME CallsInv, disturbances \in Nat, Next, disturbances' = disturbances,
         NEW q \in Requests, NEW d \in Request, Serves(q, d), d.op \in Settlements,
         request'[q] # d, LetsGo(q, d)
  PROVE  EndedNow(d.call) \/ ~StartedNow(d.call)
<1>1. ASSUME NEW p \in Requests, Continue(p)
      PROVE  p = q
  <2>1. PICK x : Goto(p, x)
    BY <1>1, ContinueMoves
  <2> QED
    BY <2>1, OneMoves DEF CallsInv, Serves
<1>2. ASSUME NEW p \in Requests, NEW x, Serve(p, x)
      PROVE  FALSE
  <2>1. Goto(p, x) /\ request[p] = Idle
    BY <1>2 DEF Serve, Goto
  <2> QED
    BY <2>1, OneMoves DEF CallsInv, Serves
<1>3. ~UNCHANGED request
  BY DEF Serves
<1>4. ASSUME NEW p \in Requests, Leave(p) \/ Join(p)
      PROVE  FALSE
  BY <1>2, <1>3, <1>4 DEF Leave, Join
<1>5. ASSUME NEW p \in Requests, NEW c \in Calls,
             CallMethod(p, c) \/ CancelMethodCall(p, c) \/ TimeoutMethodCall(p, c)
      PROVE  FALSE
  BY <1>2, <1>5 DEF CallMethod, CancelMethodCall, TimeoutMethodCall, Settle
<1>6. ASSUME NEW p \in Requests, NEW r \in running, DirectResult(p, r)
      PROVE  FALSE
  BY <1>2, <1>3, <1>6 DEF DirectResult, Settle
<1>7. ASSUME NEW p \in Requests, NEW w \in working, SubmitMethodResult(p, w)
      PROVE  FALSE
  BY <1>2, <1>3, <1>7 DEF SubmitMethodResult, Settle
<1>8. ASSUME NEW c \in Calls, NEW i \in Providers, ClaimMethodCall(c, i)
      PROVE  FALSE
  BY <1>3, <1>8 DEF ClaimMethodCall
<1>9. ~Crash
  BY DEF Crash, Disturb
<1> QED
  BY <1>1, <1>4, <1>5, <1>6, <1>7, <1>8, <1>9, ContinueSettles DEF Next

LEMMA CounterCounts ==
  disturbances \in Nat /\ [Next]_vars => disturbances' \in Nat
<1> SUFFICES ASSUME disturbances \in Nat, [Next]_vars
             PROVE  disturbances' \in Nat
  OBVIOUS
<1>1. ASSUME NEW q \in Requests, Continue(q)
      PROVE  UNCHANGED disturbances
  BY <1>1 DEF Continue, LookupReply, AppendStart, StartReply, LookupAgainReply, PassBarrier,
     EndedReply, PageReply, CheckReply, AppendTerminal, Consume, RedeliverReply
<1>2. ASSUME NEW q \in Requests, Leave(q) \/ Join(q)
      PROVE  disturbances' \in Nat
  BY <1>2 DEF Leave, Join, Disturb
<1>3. Crash => disturbances' \in Nat
  BY DEF Crash, Disturb
<1>4. ASSUME NEW q \in Requests, NEW c \in Calls,
             CallMethod(q, c) \/ CancelMethodCall(q, c) \/ TimeoutMethodCall(q, c)
      PROVE  disturbances' \in Nat
  BY <1>4 DEF CallMethod, CancelMethodCall, TimeoutMethodCall, Settle, Disturb
<1>5. ASSUME NEW q \in Requests, NEW r, DirectResult(q, r) \/ SubmitMethodResult(q, r)
      PROVE  UNCHANGED disturbances
  BY <1>5 DEF DirectResult, SubmitMethodResult, Settle
<1>6. ASSUME NEW c \in Calls, NEW i \in Providers, ClaimMethodCall(c, i)
      PROVE  UNCHANGED disturbances
  BY <1>6 DEF ClaimMethodCall
<1>7. UNCHANGED vars => UNCHANGED disturbances
  BY DEF vars
<1> QED
  BY <1>1, <1>2, <1>3, <1>4, <1>5, <1>6, <1>7 DEF Next

\* A settlement that is done leaves no call that has started and not ended, for any
\* calls, requests and providers: settleCall reads the log again before it gives up
\* on a call that has no row, and waits for a start that is being journalled.
THEOREM SettlementsEnd == Spec => SettlementsEndCalls
<1> DEFINE Both == CallsInv /\ disturbances \in Nat
           Settled == \A q \in Requests :
                        LET d == request[q] IN
                        /\ d # Idle /\ d.op \in Settlements
                        /\ request'[q] # d
                        /\ (request'[q] = Idle \/ request'[q].call # d.call)
                        /\ disturbances' = disturbances
                        => EndedNow(d.call) \/ ~StartedNow(d.call)
<1>1. Init => Both
  BY InitSound DEF Init
<1>2. Both /\ [Next]_vars => Both'
  BY StepSound, CounterCounts
<1>3. Both /\ [Next]_vars => [Settled]_vars
  <2> SUFFICES ASSUME Both, Next, NEW q \in Requests,
                      request[q] # Idle, request[q].op \in Settlements,
                      request'[q] # request[q],
                      request'[q] = Idle \/ request'[q].call # request[q].call,
                      disturbances' = disturbances
               PROVE  EndedNow(request[q].call) \/ ~StartedNow(request[q].call)
    OBVIOUS
  <2>1. PICK d \in Request : d = request[q]
    BY DEF CallsInv, Types
  <2>2. Serves(q, d) /\ LetsGo(q, d)
    BY <2>1 DEF Serves, LetsGo, CallsInv, RequestsOK
  <2> QED
    BY <2>1, <2>2, StepSettles
<1> QED
  BY <1>1, <1>2, <1>3, PTL DEF Spec, SettlementsEndCalls

-----------------------------------------------------------------------------
(* A call that is alone: no reconciliation for another touches its row.    *)

Alone == \A c, d \in Calls : c = d

\* A call whose caller has been answered has its row, until it ends.
Kept ==
  \A c \in Calls : StartedNow(c) /\ ~EndedNow(c) /\ caller[c] = "parked" => c \in rows

\* Until a call ends, nobody holds a claim beyond its present one, and only the
\* present holder holds that.
Present ==
  \A w \in working :
    ~EndedNow(w.call) =>
      \/ w.generation < claim[w.call].generation
      \/ w.generation = claim[w.call].generation /\ w.holder = claim[w.call].holder

AloneInv == Kept /\ Present /\ FenceHolds

\* The steps by which no provider claims.  Rows go and claims are lost only of calls
\* that have ended, and a caller is told no sooner than its call has a row or an end.
LEMMA AloneStep ==
  ASSUME CallsInv, AloneInv, LogGrows, StartsAreCarried, working' \subseteq working,
         \A c \in rows : c \in rows' \/ EndedNow(c),
         \A c \in Calls : caller'[c] = "parked" =>
           caller[c] = "parked" \/ EndedNow(c) \/ c \in rows',
         \A c \in Calls :
           \/ EndedNow(c) \/ ~StartedNow(c) \/ claim'[c] = claim[c]
           \/ claim'[c].generation = claim[c].generation + 1
  PROVE  AloneInv'
<1>1. \A c : (StartedNow(c) => StartedNow(c)') /\ (EndedNow(c) => EndedNow(c)')
  BY PastLasts
<1>2. Kept'
  <2>1. ASSUME NEW c \in Calls, StartedNow(c)', ~EndedNow(c)', caller'[c] = "parked"
        PROVE  c \in rows'
    <3>1. ~EndedNow(c)
      BY <1>1, <2>1
    <3>2. CASE caller[c] # "parked"
      BY <2>1, <3>1, <3>2
    <3>3. CASE caller[c] = "parked"
      <4>1. ~InFlight(c)
        BY <3>3 DEF CallsInv, CallersOK
      <4>2. StartedNow(c)
        BY <2>1, <4>1 DEF StartsAreCarried
      <4> QED
        BY <3>1, <3>3, <4>2 DEF AloneInv, Kept
    <3> QED
      BY <3>2, <3>3
  <2> QED
    BY <2>1 DEF Kept
<1>3. Present'
  <2>1. ASSUME NEW w \in working', ~EndedNow(w.call)'
        PROVE  \/ w.generation < claim'[w.call].generation
               \/ w.generation = claim'[w.call].generation /\ w.holder = claim'[w.call].holder
    <3>1. w \in working /\ w.call \in Calls /\ w.generation \in Nat
      BY <2>1 DEF CallsInv, Types
    <3>2. PICK c \in Calls : c = w.call
      BY <3>1
    <3>3. ~EndedNow(c) /\ StartedNow(c)
      BY <1>1, <2>1, <3>1, <3>2 DEF CallsInv, TablesOK
    <3>4. claim[c].generation \in Nat
      BY DEF CallsInv, Types, Claim
    <3>5. \/ w.generation < claim[c].generation
          \/ w.generation = claim[c].generation /\ w.holder = claim[c].holder
      BY <3>1, <3>2, <3>3 DEF AloneInv, Present
    <3>6. claim'[c] = claim[c] \/ claim'[c].generation = claim[c].generation + 1
      BY <3>3
    <3> QED
      BY <3>1, <3>2, <3>4, <3>5, <3>6
  <2> QED
    BY <2>1 DEF Present
<1>4. FenceHolds'
  BY <1>1 DEF AloneInv, FenceHolds
<1> QED
  BY <1>2, <1>3, <1>4 DEF AloneInv

\* The log stays.
LEMMA LogRests ==
  ASSUME CallsInv, UNCHANGED log
  PROVE  LogGrows /\ StartsAreCarried
BY LogStays, SameLog DEF CallsInv, Types, StartsAreCarried

\* Tables and callers are left alone.
LEMMA AloneRests ==
  ASSUME CallsInv, AloneInv, LogGrows, StartsAreCarried, working' \subseteq working,
         UNCHANGED <<rows, claim>>,
         \A c \in Calls : caller'[c] = "parked" => caller[c] = "parked"
  PROVE  AloneInv'
BY AloneStep

\* A deletion of the row of a call that has ended.
LEMMA AloneDeletes ==
  ASSUME CallsInv, AloneInv, UNCHANGED <<log, working>>, NEW c \in Calls, EndedNow(c),
         Delete({c}), \A y \in Calls : y # c => caller'[y] = caller[y]
  PROVE  AloneInv'
<1>1. rows' = rows \ {c} /\ \A y \in Calls : y # c => claim'[y] = claim[y]
  BY DEF Delete
<1> QED
  BY <1>1, LogRests, AloneStep

\* A request that finishes tells at most the caller of its call.
LEMMA FinishTells ==
  ASSUME CallsInv, NEW q, NEW d, Serves(q, d), NEW settled, Finish(q, settled)
  PROVE  /\ \A c \in Calls : c # d.call => caller'[c] = caller[c]
         /\ d.op # "undeliverable" /\ d.call \in Calls /\ caller'[d.call] = "parked"
              => caller[d.call] = "parked"
<1>1. CASE d.op = "cancel"
  BY <1>1 DEF Finish, Serves, CallsInv, Types
<1>2. CASE d.op = "undeliverable"
  BY <1>2 DEF Finish, Serves, CallsInv, Types
<1>3. CASE d.op \notin {"cancel", "undeliverable"}
  BY <1>3 DEF Finish, Serves
<1> QED
  BY <1>1, <1>2, <1>3

LEMMA LookupReplyKeepsAlone ==
  ASSUME CallsInv, AloneInv, NEW q \in Requests, LookupReply(q)
  PROVE  AloneInv'
<1>1. PICK d \in Request : Serves(q, d) /\ d.call \in Calls
  BY ServesAt DEF LookupReply
<1>2. UNCHANGED <<log, working>>
  BY DEF LookupReply
<1>3. CASE UNCHANGED <<rows, claim, caller>>
  BY <1>2, <1>3, LogRests, AloneRests
<1>4. CASE EndedNow(d.call) /\ Found(q, d.call)
  <2>1. Delete({d.call}) /\ \A y \in Calls : y # d.call => caller'[y] = caller[y]
    BY <1>4 DEF Found, Returns, CallsInv, Types
  <2> QED
    BY <1>1, <1>2, <1>4, <2>1, AloneDeletes
<1>5. PICK n \in d.since..Len(log) :
        (Ended(d.call, n) /\ Found(q, d.call)) \/ UNCHANGED <<rows, claim, caller>>
  BY <1>1 DEF LookupReply, Serves, tables
<1> QED
  BY <1>1, <1>3, <1>4, <1>5, AnswerIs, AnswersAreSo

LEMMA LookupAgainReplyKeepsAlone ==
  ASSUME CallsInv, AloneInv, NEW q \in Requests, LookupAgainReply(q)
  PROVE  AloneInv'
<1>1. PICK d \in Request : Serves(q, d) /\ d.call \in Calls
  BY ServesAt DEF LookupAgainReply
<1>2. UNCHANGED <<log, working>>
  BY DEF LookupAgainReply
<1>3. PICK c \in Calls : c = d.call
  BY <1>1
<1>4. PICK n \in d.since..Len(log) :
        \/ Ended(c, n) /\ Found(q, c)
        \/ rows' = rows \cup {c} /\ UNCHANGED <<claim, caller>>
        \/ /\ rows' = rows \cup {c}
           /\ Deliver(IF route = "direct" THEN {c} ELSE {})
           /\ Returns(c, "parked")
  BY <1>1, <1>3 DEF LookupAgainReply, Serves
<1>5. CASE Ended(c, n) /\ Found(q, c)
  <2>1. EndedNow(c)
    BY <1>1, <1>5, AnswerIs, AnswersAreSo
  <2>2. Delete({c}) /\ \A y \in Calls : y # c => caller'[y] = caller[y]
    BY <1>5 DEF Found, Returns, CallsInv, Types
  <2> QED
    BY <1>2, <2>1, <2>2, AloneDeletes
<1>6. CASE rows' = rows \cup {c} /\ UNCHANGED <<claim, caller>>
  BY <1>2, <1>6, LogRests, AloneStep
<1>7. CASE /\ rows' = rows \cup {c}
           /\ Deliver(IF route = "direct" THEN {c} ELSE {})
           /\ Returns(c, "parked")
  <2>1. \A y \in Calls : claim'[y] = claim[y] \/ claim'[y] = Claimed(y, 0)
    BY <1>7 DEF Deliver
  <2>2. \A y \in Calls : Claimed(y, 0).generation = claim[y].generation + 1
    BY ClaimedIs DEF CallsInv
  <2>3. \A y \in Calls : claim'[y] = claim[y] \/ claim'[y].generation = claim[y].generation + 1
    BY <2>1, <2>2
  <2>4. \A y \in Calls : caller'[y] = "parked" => caller[y] = "parked" \/ y \in rows'
    BY <1>7 DEF Returns, CallsInv, Types
  <2> QED
    BY <1>2, <1>7, <2>3, <2>4, LogRests, AloneStep
<1> QED
  BY <1>4, <1>5, <1>6, <1>7

LEMMA EndedReplyKeepsAlone ==
  ASSUME CallsInv, AloneInv, NEW q \in Requests, EndedReply(q)
  PROVE  AloneInv'
<1>1. PICK d \in Request : Serves(q, d) /\ d.call \in Calls
  BY ServesAt DEF EndedReply
<1>2. UNCHANGED <<log, rows, claim, working>>
  BY DEF EndedReply, tables
<1>3. PICK n \in d.since..Len(log) : (Ended(d.call, n) /\ Finish(q, FALSE)) \/ UNCHANGED caller
  BY <1>1 DEF EndedReply, Serves
<1>4. CASE UNCHANGED caller
  BY <1>2, <1>4, LogRests, AloneRests
<1>5. CASE Ended(d.call, n) /\ Finish(q, FALSE)
  <2>1. EndedNow(d.call)
    BY <1>1, <1>5, AnswerIs, AnswersAreSo
  <2>2. \A c \in Calls : c # d.call => caller'[c] = caller[c]
    BY <1>1, <1>5, FinishTells
  <2>3. \A c \in Calls : caller'[c] = "parked" => caller[c] = "parked" \/ EndedNow(c)
    BY <2>1, <2>2
  <2> QED
    BY <1>2, <2>3, LogRests, AloneStep
<1> QED
  BY <1>3, <1>4, <1>5

LEMMA PageReplyKeepsAlone ==
  ASSUME Alone, CallsInv, AloneInv, NEW q \in Requests, PageReply(q)
  PROVE  AloneInv'
<1>1. PICK d \in Request : Serves(q, d) /\ d.step = "page" /\ d.call \in Calls
  BY ServesAt DEF PageReply
<1>2. UNCHANGED <<log, working>>
  BY DEF PageReply
<1>3. PICK n \in d.since..Len(log) :
        /\ Reconciles(n)
        /\ \/ d.call \in Pending(n) /\ UNCHANGED caller
           \/ d.call \notin Pending(n) /\ Finish(q, FALSE)
  BY <1>1 DEF PageReply, Serves, Reconciles
<1>4. \A c \in Calls : c = d.call
  BY <1>1 DEF Alone
<1>5. CASE d.call \in Pending(n) /\ UNCHANGED caller
  <2>1. rows' = Pending(n) /\ \A c \in Calls : claim'[c] = claim[c]
    BY <1>3, <1>4, <1>5 DEF Reconciles
  <2>2. \A c \in Calls : c \in rows'
    BY <1>4, <1>5, <2>1
  <2> QED
    BY <1>2, <1>5, <2>1, <2>2, LogRests, AloneStep DEF CallsInv, Types
<1>6. CASE d.call \notin Pending(n) /\ Finish(q, FALSE)
  <2>1. EndedNow(d.call) \/ ~StartedNow(d.call)
    BY <1>1, <1>3, <1>6, PageDecides
  <2>2. \A c \in rows : EndedNow(c)
    BY <1>4, <2>1 DEF CallsInv, TablesOK, Types
  <2>3. d.op = "undeliverable" => StartedNow(d.call)
    BY <1>1 DEF Serves, Sound, PlainlySound, Settlements
  <2>4. \A c \in Calls : caller'[c] = "parked" => caller[c] = "parked" \/ EndedNow(c)
    BY <1>1, <1>4, <1>6, <2>1, <2>3, FinishTells
  <2> QED
    BY <1>2, <1>4, <2>1, <2>2, <2>4, LogRests, AloneStep
<1> QED
  BY <1>3, <1>5, <1>6

LEMMA ConsumeKeepsAlone ==
  ASSUME CallsInv, AloneInv, NEW q \in Requests, Consume(q)
  PROVE  AloneInv'
<1>1. PICK d \in Request : Serves(q, d) /\ d.step = "consume" /\ d.call \in Calls
  BY ServesAt DEF Consume
<1>2. EndedNow(d.call)
  BY <1>1 DEF Serves, Sound, PlainlySound
<1>3. Delete({d.call}) /\ Finish(q, TRUE) /\ UNCHANGED <<log, working>>
  BY <1>1 DEF Consume, Serves
<1>4. \A c \in Calls : c # d.call => caller'[c] = caller[c]
  BY <1>1, <1>3, FinishTells
<1> QED
  BY <1>1, <1>2, <1>3, <1>4, AloneDeletes

LEMMA RedeliverReplyKeepsAlone ==
  ASSUME CallsInv, AloneInv, NEW q \in Requests, RedeliverReply(q)
  PROVE  AloneInv'
<1>1. PICK d \in Request : Serves(q, d)
  BY ServesAt DEF RedeliverReply
<1>2. UNCHANGED <<log, working, caller>>
  BY DEF RedeliverReply
<1> DEFINE Over(n) == {c \in d.todo : Ended(c, n)}
           Sent(n) == IF route = "direct" THEN (d.todo \ Over(n)) \cap rows ELSE {}
<1>3. PICK n \in d.since..Len(log) :
        /\ rows' = rows \ Over(n)
        /\ claim' = [c \in Calls |-> CASE c \in Over(n) -> NoClaim
                                       [] c \in Sent(n) -> Claimed(c, 0)
                                       [] OTHER -> claim[c]]
  BY <1>1 DEF RedeliverReply, Serves
<1>4. \A c \in Over(n) : EndedNow(c)
  BY <1>1, AnswerIs, AnswersAreSo
<1> HIDE DEF Over, Sent
<1>5. \A c \in Calls : Claimed(c, 0).generation = claim[c].generation + 1
  BY ClaimedIs DEF CallsInv
<1>6. \A c \in Calls : c \in Over(n) \/ claim'[c] = claim[c] \/ claim'[c] = Claimed(c, 0)
  BY <1>3
<1> QED
  BY <1>2, <1>3, <1>4, <1>5, <1>6, LogRests, AloneStep

LEMMA AppendKeepsAlone ==
  ASSUME CallsInv, AloneInv, NEW q \in Requests, AppendStart(q) \/ AppendTerminal(q)
  PROVE  AloneInv'
<1>1. PICK d \in Request : Serves(q, d) /\ d.call \in Calls
  BY ServesAt DEF AppendStart, AppendTerminal
<1>2. UNCHANGED <<rows, claim, working, caller>>
  BY DEF AppendStart, AppendTerminal, tables
<1>3. d.op \in Ops /\ log \in Seq(Event)
  BY DEF Request, CallsInv, Types
<1>4. CASE UNCHANGED log
  BY <1>2, <1>4, LogRests, AloneRests
<1>5. CASE AppendStart(q) /\ log' = Append(log, Start(d.call))
  <2>1. PICK e : e = Start(d.call)
    OBVIOUS
  <2>2. e \in Event /\ e.type = "started" /\ e.call = d.call
    BY <1>1, <2>1 DEF Start, Event, Ops
  <2>3. LogGrows /\ \A c : StartedNow(c)' <=> StartedNow(c) \/ c = d.call
    BY <1>3, <1>5, <2>1, <2>2, LogAppends, AppendSays
  <2>4. d.op = "call"
    BY <1>1, <1>5 DEF Serves, Sound, PlainlySound, SettleSteps, AppendStart, At
  <2>5. StartsAreCarried
    BY <1>1, <2>3, <2>4 DEF StartsAreCarried, InFlight, CarriesCall, Serves
  <2> QED
    BY <1>2, <2>3, <2>5, AloneRests
<1>6. CASE log' = Append(log, Terminal(d.call, d.op))
  <2>1. PICK e : e = Terminal(d.call, d.op)
    OBVIOUS
  <2>2. e \in Event /\ e.type = "terminal"
    BY <1>1, <1>3, <2>1 DEF Terminal, Event
  <2>3. LogGrows /\ \A c : StartedNow(c)' <=> StartedNow(c)
    BY <1>3, <1>6, <2>1, <2>2, LogAppends, AppendSays
  <2>4. StartsAreCarried
    BY <2>3 DEF StartsAreCarried
  <2> QED
    BY <1>2, <2>3, <2>4, AloneRests
<1> QED
  BY <1>1, <1>4, <1>5, <1>6 DEF AppendStart, AppendTerminal, Serves

\* A provider that claims anew supersedes every holder; one that claims again gets
\* what it holds.
LEMMA ClaimMethodCallKeepsAlone ==
  ASSUME CallsInv, AloneInv, NEW c \in Calls, NEW i \in Providers, ClaimMethodCall(c, i)
  PROVE  AloneInv'
<1>1. UNCHANGED <<log, rows, caller>>
  BY DEF ClaimMethodCall
<1>2. PICK x \in Claim : /\ x = Claimed(c, i) /\ x.holder = i
                         /\ x = claim[c] \/ x.generation = claim[c].generation + 1
  BY ClaimedIs DEF CallsInv
<1>3. claim' = [claim EXCEPT ![c] = x]
  BY <1>2 DEF ClaimMethodCall
<1>4. claim'[c] = x /\ \A y \in Calls : y # c => claim'[y] = claim[y]
  BY <1>3 DEF CallsInv, Types
<1>5. PICK g \in Nat : g = x.generation
  BY DEF Claim
<1>6. PICK new : new = [call |-> c, generation |-> g, holder |-> i]
  OBVIOUS
<1>7. new.call = c /\ new.generation = g /\ new.holder = i
  BY <1>6
<1>8. working' = working \cup {new}
  BY <1>4, <1>5, <1>6 DEF ClaimMethodCall
<1>9. \A y : (StartedNow(y)' <=> StartedNow(y)) /\ (EndedNow(y)' <=> EndedNow(y))
  BY <1>1, SameLog
<1>10. PICK k \in Nat : k = claim[c].generation
  BY DEF CallsInv, Types, Claim
<1>11. (x = claim[c] /\ g = k) \/ g = k + 1
  BY <1>2, <1>5, <1>10
<1>12. Kept'
  BY <1>1, <1>9 DEF AloneInv, Kept
<1>13. ASSUME NEW w \in working, ~EndedNow(w.call), w.call = c
       PROVE  w.generation \in Nat /\ (w.generation < g \/ (w.generation = g /\ w.holder = i))
  <2>1. w.generation \in Nat
    BY DEF CallsInv, Types
  <2>2. w.generation < k \/ (w.generation = k /\ w.holder = claim[c].holder)
    BY <1>10, <1>13 DEF AloneInv, Present
  <2> QED
    BY <1>2, <1>11, <2>1, <2>2
<1>14. Present'
  <2>1. ASSUME NEW w \in working', ~EndedNow(w.call)'
        PROVE  \/ w.generation < claim'[w.call].generation
               \/ w.generation = claim'[w.call].generation /\ w.holder = claim'[w.call].holder
    <3>1. CASE w = new
      BY <1>2, <1>4, <1>5, <1>7, <3>1
    <3>2. CASE w \in working /\ w.call = c
      BY <1>2, <1>4, <1>5, <1>9, <1>13, <2>1, <3>2
    <3>3. CASE w \in working /\ w.call # c
      <4>1. w.call \in Calls
        BY <3>3 DEF CallsInv, Types
      <4> QED
        BY <1>4, <1>9, <2>1, <3>3, <4>1 DEF AloneInv, Present
    <3> QED
      BY <1>8, <3>1, <3>2, <3>3
  <2> QED
    BY <2>1 DEF Present
<1>15. FenceHolds'
  <2>1. ASSUME NEW v \in working', NEW w \in working',
               v.call = w.call, v.generation = w.generation, ~EndedNow(w.call)'
        PROVE  v = w
    <3>1. CASE v \in working /\ w \in working
      BY <1>9, <2>1, <3>1 DEF AloneInv, FenceHolds
    <3>2. ASSUME NEW u \in working, u.call = c, u.generation = g, ~EndedNow(u.call)
          PROVE  u = new
      <4>1. u.holder = i
        BY <1>13, <3>2
      <4>2. u \in [call : Calls, generation : Nat, holder : Providers]
        BY DEF CallsInv, Types
      <4> QED
        BY <1>6, <3>2, <4>1, <4>2
    <3> QED
      BY <1>7, <1>8, <1>9, <2>1, <3>1, <3>2
  <2> QED
    BY <2>1 DEF FenceHolds
<1> QED
  BY <1>12, <1>14, <1>15 DEF AloneInv

LEMMA ContinueKeepsAlone ==
  ASSUME Alone, CallsInv, AloneInv, NEW q \in Requests, Continue(q)
  PROVE  AloneInv'
<1>1. CASE StartReply(q) \/ PassBarrier(q) \/ CheckReply(q)
  <2>1. UNCHANGED <<log, rows, claim, working, caller>>
    BY <1>1 DEF StartReply, PassBarrier, CheckReply, tables
  <2> QED
    BY <2>1, LogRests, AloneRests
<1> QED
  BY <1>1, LookupReplyKeepsAlone, LookupAgainReplyKeepsAlone, EndedReplyKeepsAlone,
     PageReplyKeepsAlone, ConsumeKeepsAlone, RedeliverReplyKeepsAlone, AppendKeepsAlone
  DEF Continue

LEMMA StepKeepsAlone ==
  ASSUME Alone
  PROVE  CallsInv /\ AloneInv /\ [Next]_vars => AloneInv'
<1> SUFFICES ASSUME CallsInv, AloneInv, [Next]_vars
             PROVE  AloneInv'
  OBVIOUS
<1>1. ASSUME UNCHANGED <<log, rows, claim>>, working' \subseteq working,
             \A c \in Calls : caller'[c] = "parked" => caller[c] = "parked"
      PROVE  AloneInv'
  BY <1>1, LogRests, AloneRests
<1>2. ASSUME NEW q \in Requests, Continue(q)
      PROVE  AloneInv'
  BY <1>2, ContinueKeepsAlone
<1>3. ASSUME NEW q \in Requests, Leave(q) \/ Join(q)
      PROVE  AloneInv'
  BY <1>1, <1>3 DEF Leave, Join, tables
<1>4. ASSUME NEW q \in Requests, NEW c \in Calls, CallMethod(q, c) \/ CancelMethodCall(q, c)
      PROVE  AloneInv'
  <2>1. \A y \in Calls : caller'[y] = "parked" => caller[y] = "parked"
    BY <1>4 DEF CallMethod, CancelMethodCall, Returns, CallsInv, Types
  <2> QED
    BY <1>1, <1>4, <2>1 DEF CallMethod, CancelMethodCall, Settle, tables
<1>5. ASSUME NEW q \in Requests, NEW c \in Calls, TimeoutMethodCall(q, c)
      PROVE  AloneInv'
  BY <1>1, <1>5 DEF TimeoutMethodCall, Settle, tables
<1>6. ASSUME NEW q \in Requests, NEW r, DirectResult(q, r) \/ SubmitMethodResult(q, r)
      PROVE  AloneInv'
  BY <1>1, <1>6 DEF DirectResult, SubmitMethodResult, Settle, tables
<1>7. ASSUME NEW c \in Calls, NEW i \in Providers, ClaimMethodCall(c, i)
      PROVE  AloneInv'
  BY <1>7, ClaimMethodCallKeepsAlone
<1>8. CASE Crash
  <2>1. \A c \in Calls : caller'[c] = "parked" => caller[c] = "parked"
    BY <1>8 DEF Crash
  <2> QED
    BY <1>1, <1>8, <2>1 DEF Crash, tables
<1>9. CASE UNCHANGED vars
  BY <1>1, <1>9 DEF vars, tables
<1> QED
  BY <1>2, <1>3, <1>4, <1>5, <1>6, <1>7, <1>8, <1>9 DEF Next

THEOREM AloneStaysSound ==
  ASSUME Alone
  PROVE  Spec => [](CallsInv /\ AloneInv)
<1>1. Init => CallsInv /\ AloneInv
  <2> SUFFICES ASSUME Init
               PROVE  AloneInv
    BY InitSound
  <2> QED
    BY DEF Init, AloneInv, Kept, Present, FenceHolds
<1>2. (CallsInv /\ AloneInv) /\ [Next]_vars => (CallsInv /\ AloneInv)'
  BY StepSound, StepKeepsAlone
<1> QED
  BY <1>1, <1>2, PTL DEF Spec

\* A call that is alone in its channel is not forgotten, whatever requests serve it
\* at once, however stale their reads are, and wherever a crash falls.
THEOREM LoneCallIsNotForgotten ==
  ASSUME Alone
  PROVE  Spec => []NoCallIsForgotten
<1>1. CallsInv /\ AloneInv => NoCallIsForgotten
  <2> SUFFICES ASSUME CallsInv, AloneInv, NEW c \in Calls,
                      StartedNow(c), ~EndedNow(c), c \notin rows
               PROVE  caller[c] \in {"calling", "failed", "cancelling"}
    BY DEF NoCallIsForgotten
  <2>1. caller[c] \in Callers
    BY DEF CallsInv, Types
  <2>2. caller[c] \notin {"new", "cancelled"}
    BY DEF CallsInv, CallersOK
  <2>3. caller[c] # "parked"
    BY DEF AloneInv, Kept
  <2> QED
    BY <2>1, <2>2, <2>3 DEF Callers
<1> QED
  BY <1>1, AloneStaysSound, PTL

\* The claims of a call that is alone are a fence: of one generation there is one
\* holder until the call ends (claimProviderCall).
THEOREM LoneCallIsFenced ==
  ASSUME Alone
  PROVE  Spec => []FenceHolds
<1>1. CallsInv /\ AloneInv => FenceHolds
  BY DEF AloneInv
<1> QED
  BY <1>1, AloneStaysSound, PTL
=============================================================================
