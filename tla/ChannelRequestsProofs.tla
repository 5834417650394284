------------------------ MODULE ChannelRequestsProofs ------------------------
(***************************************************************************)
(* Whatever races the append of a relationship fact, the relationship      *)
(* table is what the log says, for any participants, requests, page sizes  *)
(* and bounds.                                                             *)
(***************************************************************************)
EXTENDS ChannelRequests, FiniteSetTheorems, SequenceTheorems, TLAPS

(***************************************************************************)
(* Least and greatest elements, and a set as a sequence.                   *)
(***************************************************************************)

LEMMA LeastNat ==
  ASSUME NEW S \in SUBSET Nat, S # {}
  PROVE  \E x \in S : \A y \in S : x <= y
<1> DEFINE R == {ss \in Nat \X Nat : ss[1] < ss[2]}
<1>1. IsWellFoundedOn(R, Nat)
  BY NatLessThanWellFounded DEF OpToRel
<1>2. PICK x \in S : \A y \in S : ~(<<y, x>> \in R)
  <2> HIDE DEF R
  <2> QED
    BY <1>1, WFMin
<1>3. ASSUME NEW y \in S
      PROVE  x <= y
  <2>1. x \in Nat /\ y \in Nat /\ <<y, x>> \in Nat \X Nat
    OBVIOUS
  <2>2. ~(y < x)
    BY <1>2, <2>1
  <2> QED
    BY <2>1, <2>2
<1> QED
  BY <1>3

LEMMA MinNat ==
  ASSUME NEW S \in SUBSET Nat, S # {}
  PROVE  Min(S) \in S /\ \A y \in S : Min(S) <= y
  BY LeastNat DEF Min

LEMMA MaxUpTo ==
  ASSUME NEW n \in Nat, NEW S \in SUBSET (1..n), S # {}
  PROVE  Max(S) \in S /\ \A y \in S : y <= Max(S)
<1> DEFINE T == {n - x : x \in S}
<1>1. \A x \in S : x \in Nat /\ n - x \in Nat
  OBVIOUS
<1>2. T \in SUBSET Nat /\ T # {}
  BY <1>1
<1>3. PICK t \in T : \A u \in T : t <= u
  BY <1>2, LeastNat
<1>4. PICK x \in S : t = n - x
  BY <1>3
<1>5. \A y \in S : n - y \in T
  OBVIOUS
<1>6. \A y \in S : y <= x
  BY <1>1, <1>3, <1>4, <1>5
<1> QED
  BY <1>4, <1>6 DEF Max

LEMMA MaxOfTwo ==
  ASSUME NEW a \in Nat, NEW b \in Nat
  PROVE  Max({a, b}) \in {a, b} /\ Max({a, b}) >= a /\ Max({a, b}) >= b
<1>1. \E x \in {a, b} : \A y \in {a, b} : x >= y
  OBVIOUS
<1>2. /\ Max({a, b}) \in {a, b} /\ \A y \in {a, b} : Max({a, b}) >= y
  BY <1>1 DEF Max
<1> QED
  BY <1>2

LEMMA MinOfTwo ==
  ASSUME NEW a \in Nat, NEW b \in Nat
  PROVE  Min({a, b}) \in {a, b} /\ Min({a, b}) <= a /\ Min({a, b}) <= b
<1> DEFINE S == {a, b}
<1>1. S \in SUBSET Nat /\ S # {} /\ a \in S /\ b \in S
  OBVIOUS
<1> HIDE DEF S
<1>2. Min(S) \in S /\ Min(S) <= a /\ Min(S) <= b
  BY <1>1, MinNat
<1> QED
  BY <1>2 DEF S

LEMMA SetAsSeq ==
  ASSUME NEW S, IsFiniteSet(S)
  PROVE  SetToSeq(S) \in Seq(S)
<1>1. PICK n \in Nat : n = Cardinality(S) /\ ExistsBijection(1..n, S)
  BY FS_CardinalityType
<1>2. \E f \in [1..n -> S] : IsInjective(f)
  BY <1>1 DEF ExistsBijection, Bijection, Injection
<1>3. SetToSeq(S) \in [1..n -> S]
  BY <1>1, <1>2 DEF SetToSeq
<1> QED
  BY <1>3

(***************************************************************************)
(* The inductive invariant.                                                *)
(***************************************************************************)

Fact ==
  [type : {"message"}, to : SUBSET Participants]
  \cup [type : {"joined"}, who : Participants, revision : Nat, route : Routes]
  \cup [type : {"detached"}, who : Participants, revision : Nat, after : Nat]
  \cup [type : {"ended"}, who : Participants, revision : Nat]

Relationship ==
  [revision : Nat, active : BOOLEAN, attached : BOOLEAN, route : Routes \cup {NoRoute},
   detachedAt : Nat, after : Nat, through : Nat]

Somebody == CHOOSE p \in Participants : TRUE

Recovery == [who : Participants, after : Nat, through : Nat]

Request ==
  [op : {"publish", "join", "leave", "detach", "alarm", "adopt"},
   who : Participants \cup {Somebody}, revision : Nat, route : Routes \cup {NoRoute},
   bound : Nat \cup {NoBound}, fact : Fact \cup {<<>>},
   step : {"read", "page", "derive", "fold", "decide", "append", "reply", "finish"},
   then : {"read", "derive", "fold", "decide", "finish"},
   todo : Seq(Recovery), since : Nat, from : Nat, upto : Nat, full : BOOLEAN,
   event : Nat, fresh : BOOLEAN]

Types ==
  /\ log \in Seq(Fact) /\ cursor \in 0..Len(log)
  /\ relationship \in [Participants -> Relationship]
  /\ \A k \in DOMAIN mailbox : k[1] \in 1..cursor /\ k[2] \in Participants

\* What the first n events of the log say of a participant.
RevisionAt(p, n) == IF LastFact(p, n) = 0 THEN 0 ELSE log[LastFact(p, n)].revision
ActiveAt(p, n) == LastFact(p, n) # 0 /\ log[LastFact(p, n)].type # "ended"
AttachedAt(p, n) == LastFact(p, n) # 0 /\ log[LastFact(p, n)].type = "joined"

\* A fact that the fold applies after the first n events.
Legal(f, n) ==
  /\ f.revision = RevisionAt(f.who, n) + 1
  /\ f.type \in {"detached", "ended"} => ActiveAt(f.who, n)
  /\ f.type = "detached" => AttachedAt(f.who, n) /\ f.after <= n

LogIsLegal ==
  \A i \in 1..Len(log) : log[i].type # "message" => Legal(log[i], i - 1)

\* Every revision up to the last one has its fact, and each fact a new one.
RevisionsAreDense ==
  \A p \in Participants :
    /\ \A v \in 1..RevisionAt(p, Len(log)) :
         \E i \in 1..Len(log) : IsFactOf(i, p) /\ log[i].revision = v
    /\ \A n \in 0..Len(log) :
         /\ RevisionAt(p, n) <= RevisionAt(p, Len(log))
         /\ RevisionAt(p, n) = RevisionAt(p, Len(log)) => LastFact(p, n) = LastFact(p, Len(log))

Follows(p) ==
  /\ relationship[p].revision = RevisionAt(p, cursor)
  /\ relationship[p].active = ActiveAt(p, cursor)
  /\ relationship[p].attached = AttachedAt(p, cursor)

RangeOK(p) ==
  LET r == relationship[p] IN
  /\ r.active /\ ~r.attached => r.detachedAt < cursor
  /\ r.through # 0 => r.active /\ r.attached /\ r.after < r.through /\ r.through < cursor

\* A fact on its way to the log: its revision is taken, or it may follow.
Due(f) ==
  f.type # "message" =>
    \/ f.revision \in 1..RevisionAt(f.who, Len(log))
    \/ Legal(f, Len(log))

\* What holds of a request at every step ...
Placed(d) ==
  /\ d.op \in {"join", "leave", "detach"} => d.who \in Participants
  /\ d.op = "join" => d.route \in Routes
  /\ d.event \in 0..Len(log)
  /\ d.op = "detach" => d.bound <= cursor

\* ... and at some.
InStep(d) ==
  /\ Placed(d)
  /\ d.from <= cursor
  /\ d.op = "publish" /\ d.step # "append" => d.event # 0
  /\ d.step = "read" => d.from <= d.since
  /\ "decide" \in {d.step, d.then} => d.op \in {"join", "leave", "detach"}
  /\ "fold" \in {d.step, d.then} => d.from < d.upto /\ d.upto <= Len(log)
  /\ d.step = "page" => d.todo # <<>>
  /\ d.step = "append" => d.fact \in Fact /\ Due(d.fact)

TablesInv ==
  /\ Types /\ LogIsLegal /\ RevisionsAreDense
  /\ \A p \in Participants : Follows(p) /\ RangeOK(p)

RequestsInv ==
  /\ TablesInv
  /\ DOMAIN request = Requests
  /\ \A q \in Requests :
       request[q] = Idle \/ (request[q] \in Request /\ InStep(request[q]))

(***************************************************************************)
(* The last fact of a participant, and what an append does to it.          *)
(***************************************************************************)

LEMMA FactColumns ==
  ASSUME NEW f \in Fact
  PROVE  /\ f.type \in {"message", "joined", "detached", "ended"}
         /\ f.type # "message" => f.who \in Participants /\ f.revision \in Nat
         /\ f.type = "joined" => f.route \in Routes
         /\ f.type = "detached" => f.after \in Nat
  BY DEF Fact

LEMMA LastFactIs ==
  ASSUME log \in Seq(Fact), NEW p \in Participants, NEW m \in 0..Len(log)
  PROVE  \/ LastFact(p, m) = 0 /\ \A i \in 1..m : ~IsFactOf(i, p)
         \/ /\ LastFact(p, m) \in 1..m /\ IsFactOf(LastFact(p, m), p)
            /\ \A i \in 1..m : IsFactOf(i, p) => i <= LastFact(p, m)
<1> DEFINE facts == {i \in 1..m : IsFactOf(i, p)}
<1>1. CASE facts = {}
  BY <1>1 DEF LastFact
<1>2. CASE facts # {}
  <2>1. m \in Nat /\ facts \in SUBSET (1..m)
    OBVIOUS
  <2>2. Max(facts) \in facts /\ \A i \in facts : i <= Max(facts)
    BY <1>2, <2>1, MaxUpTo
  <2>3. LastFact(p, m) = Max(facts)
    BY <1>2 DEF LastFact
  <2> QED
    BY <2>2, <2>3
<1> QED
  BY <1>1, <1>2

LEMMA RevisionType ==
  ASSUME log \in Seq(Fact), NEW p \in Participants, NEW m \in 0..Len(log)
  PROVE  RevisionAt(p, m) \in Nat
<1>1. LastFact(p, m) = 0 \/ (LastFact(p, m) \in 1..Len(log) /\ IsFactOf(LastFact(p, m), p))
  BY LastFactIs
<1>2. \A i \in 1..Len(log) : log[i] \in Fact
  OBVIOUS
<1> QED
  BY <1>1, <1>2, FactColumns DEF RevisionAt, IsFactOf

\* The event that follows the first n - 1 ones.
LEMMA NextLastFact ==
  ASSUME log \in Seq(Fact), NEW p \in Participants, NEW n \in 1..Len(log)
  PROVE  LastFact(p, n) = IF IsFactOf(n, p) THEN n ELSE LastFact(p, n - 1)
<1>1. n \in Nat /\ n - 1 \in Nat /\ n - 1 \in 0..Len(log) /\ n \in 0..Len(log)
  OBVIOUS
<1>2. CASE IsFactOf(n, p)
  <2>1. n \in 1..n /\ \A i \in 1..n : i <= n
    BY <1>1
  <2>2. LastFact(p, n) \in 1..n /\ n <= LastFact(p, n)
    BY <1>1, <1>2, <2>1, LastFactIs
  <2> QED
    BY <1>1, <1>2, <2>2
<1>3. CASE ~IsFactOf(n, p)
  <2>1. {i \in 1..n : IsFactOf(i, p)} = {i \in 1..(n - 1) : IsFactOf(i, p)}
    BY <1>1, <1>3
  <2> QED
    BY <1>3, <2>1 DEF LastFact
<1> QED
  BY <1>2, <1>3

LEMMA GrownLog ==
  ASSUME log \in Seq(Fact), NEW f \in Fact, log' = Append(log, f)
  PROVE  /\ log' \in Seq(Fact)
         /\ Len(log) \in Nat /\ Len(log') = Len(log) + 1
         /\ log'[Len(log) + 1] = f
         /\ \A i \in 1..Len(log) : log'[i] = log[i] /\ log[i] \in Fact
         /\ \A i \in 1..Len(log), p \in Participants : IsFactOf(i, p)' <=> IsFactOf(i, p)
  BY DEF IsFactOf

LEMMA GrownLastFact ==
  ASSUME log \in Seq(Fact), NEW f \in Fact, log' = Append(log, f),
         NEW p \in Participants, NEW n, n = Len(log)
  PROVE  /\ \A m \in 0..n : /\ LastFact(p, m)' = LastFact(p, m)
                            /\ RevisionAt(p, m)' = RevisionAt(p, m)
                            /\ ActiveAt(p, m)' = ActiveAt(p, m)
                            /\ AttachedAt(p, m)' = AttachedAt(p, m)
         /\ LastFact(p, n + 1)' =
              IF f.type # "message" /\ f.who = p THEN n + 1 ELSE LastFact(p, n)
         /\ RevisionAt(p, n + 1)' =
              IF f.type # "message" /\ f.who = p THEN f.revision ELSE RevisionAt(p, n)
<1>1. n \in Nat /\ log' \in Seq(Fact) /\ log'[n + 1] = f /\ Len(log') = n + 1
      /\ \A i \in 1..n : log'[i] = log[i]
  BY GrownLog
<1>2. \A i \in 1..n : IsFactOf(i, p)' <=> IsFactOf(i, p)
  BY GrownLog
<1>3. ASSUME NEW m \in 0..n
      PROVE  /\ LastFact(p, m)' = LastFact(p, m)
             /\ RevisionAt(p, m)' = RevisionAt(p, m)
             /\ ActiveAt(p, m)' = ActiveAt(p, m)
             /\ AttachedAt(p, m)' = AttachedAt(p, m)
  <2>1. \A i \in 1..m : i \in 1..n
    BY <1>1
  <2>2. {i \in 1..m : IsFactOf(i, p)}' = {i \in 1..m : IsFactOf(i, p)}
    BY <1>2, <2>1
  <2>3. LastFact(p, m)' = LastFact(p, m)
    BY <2>2 DEF LastFact
  <2>4. LastFact(p, m) = 0 \/ LastFact(p, m) \in 1..n
    BY <1>1, LastFactIs
  <2> QED
    BY <1>1, <2>3, <2>4 DEF RevisionAt, ActiveAt, AttachedAt
<1>4. IsFactOf(n + 1, p)' <=> (f.type # "message" /\ f.who = p)
  BY <1>1 DEF IsFactOf
<1>5. LastFact(p, n + 1)' = IF f.type # "message" /\ f.who = p THEN n + 1 ELSE LastFact(p, n)
  <2>1. CASE f.type # "message" /\ f.who = p
    <3> DEFINE facts == {i \in 1..(n + 1) : IsFactOf(i, p)}'
    <3>1. n + 1 \in facts /\ facts \in SUBSET (1..(n + 1)) /\ n + 1 \in Nat
      BY <1>1, <1>4, <2>1
    <3>2. Max(facts) \in facts /\ \A i \in facts : i <= Max(facts)
      BY <3>1, MaxUpTo
    <3>3. Max(facts) = n + 1
      BY <1>1, <3>1, <3>2
    <3>4. LastFact(p, n + 1)' = Max(facts)
      BY <3>1 DEF LastFact
    <3> QED
      BY <2>1, <3>3, <3>4
  <2>2. CASE ~(f.type # "message" /\ f.who = p)
    <3>1. {i \in 1..(n + 1) : IsFactOf(i, p)}' = {i \in 1..n : IsFactOf(i, p)}
      BY <1>1, <1>2, <1>4, <2>2
    <3> QED
      BY <2>2, <3>1 DEF LastFact
  <2> QED
    BY <2>1, <2>2
<1>6. RevisionAt(p, n + 1)' =
        IF f.type # "message" /\ f.who = p THEN f.revision ELSE RevisionAt(p, n)
  <2>1. LastFact(p, n) = 0 \/ LastFact(p, n) \in 1..n
    BY <1>1, LastFactIs
  <2> QED
    BY <1>1, <1>5, <2>1 DEF RevisionAt
<1> QED
  BY <1>3, <1>5, <1>6

(***************************************************************************)
(* An event that may follow keeps the log legal, and every fact that is on *)
(* its way due.                                                            *)
(***************************************************************************)

LEMMA AppendKeepsLog ==
  ASSUME Types, LogIsLegal, RevisionsAreDense, NEW f \in Fact, log' = Append(log, f),
         f.type # "message" => Legal(f, Len(log))
  PROVE  LogIsLegal' /\ RevisionsAreDense'
<1>1. PICK n : n = Len(log)
  OBVIOUS
<1>2. /\ n \in Nat /\ log \in Seq(Fact) /\ log' \in Seq(Fact) /\ Len(log') = n + 1
      /\ log'[n + 1] = f
      /\ \A i \in 1..n : log'[i] = log[i] /\ log[i] \in Fact
  BY <1>1, GrownLog DEF Types
<1>3. ASSUME NEW i \in 1..(n + 1), NEW g \in Fact, g = log'[i], g.type # "message",
             NEW m \in 0..n, m = i - 1
      PROVE  Legal(g, m)'
  <2>1. g.who \in Participants /\ Legal(g, m)
    <3>1. CASE i \in 1..n
      BY <1>1, <1>2, <1>3, <3>1, FactColumns DEF LogIsLegal
    <3>2. CASE i = n + 1
      <4>1. m = n
        BY <1>2, <1>3, <3>2
      <4> QED
        BY <1>1, <1>2, <1>3, <3>2, <4>1, FactColumns
    <3> QED
      BY <1>2, <3>1, <3>2
  <2>2. /\ RevisionAt(g.who, m)' = RevisionAt(g.who, m)
        /\ ActiveAt(g.who, m)' = ActiveAt(g.who, m)
        /\ AttachedAt(g.who, m)' = AttachedAt(g.who, m)
    BY <1>1, <1>2, <2>1, GrownLastFact
  <2> QED
    BY <2>1, <2>2 DEF Legal
<1>4. ASSUME NEW p \in Participants
      PROVE  /\ \A v \in 1..RevisionAt(p, n + 1)' :
                   \E i \in 1..(n + 1) : IsFactOf(i, p)' /\ log'[i].revision = v
             /\ \A m \in 0..(n + 1) :
                  /\ RevisionAt(p, m)' <= RevisionAt(p, n + 1)'
                  /\ RevisionAt(p, m)' = RevisionAt(p, n + 1)'
                       => LastFact(p, m)' = LastFact(p, n + 1)'
  <2>1. PICK r \in Nat : r = RevisionAt(p, n)
    BY <1>1, <1>2, RevisionType
  <2>2. /\ \A v \in 1..r : \E i \in 1..n : IsFactOf(i, p) /\ log[i].revision = v
        /\ \A m \in 0..n : /\ RevisionAt(p, m) <= r
                           /\ RevisionAt(p, m) = r => LastFact(p, m) = LastFact(p, n)
    BY <1>1, <2>1 DEF RevisionsAreDense
  <2>3. \A v \in 1..r : \E i \in 1..(n + 1) : IsFactOf(i, p)' /\ log'[i].revision = v
    <3> SUFFICES ASSUME NEW v \in 1..r
                 PROVE  \E i \in 1..(n + 1) : IsFactOf(i, p)' /\ log'[i].revision = v
      OBVIOUS
    <3>1. PICK i \in 1..n : IsFactOf(i, p) /\ log[i].revision = v
      BY <2>2
    <3>2. i \in 1..(n + 1) /\ IsFactOf(i, p)' /\ log'[i].revision = v
      BY <1>2, <3>1 DEF IsFactOf
    <3> QED
      BY <3>2
  <2>4. CASE f.type # "message" /\ f.who = p
    <3>1. f.revision = r + 1
      BY <1>1, <2>1, <2>4 DEF Legal
    <3>2. RevisionAt(p, n + 1)' = r + 1 /\ LastFact(p, n + 1)' = n + 1
      BY <1>1, <1>2, <2>4, <3>1, GrownLastFact DEF Types
    <3>3. n + 1 \in 1..(n + 1) /\ IsFactOf(n + 1, p)' /\ log'[n + 1].revision = r + 1
      BY <1>2, <2>4, <3>1 DEF IsFactOf
    <3>4. \A m \in 0..n : RevisionAt(p, m)' = RevisionAt(p, m) /\ RevisionAt(p, m) \in Nat
      BY <1>1, <1>2, GrownLastFact, RevisionType
    <3>5. \A m \in 0..(n + 1) : m \in 0..n \/ m = n + 1
      BY <1>2
    <3>6. \A v \in 1..(r + 1) : v \in 1..r \/ v = r + 1
      OBVIOUS
    <3>7. \A m \in 0..n : RevisionAt(p, m)' <= r + 1 /\ RevisionAt(p, m)' # r + 1
      BY <2>2, <3>4
    <3>8. \A v \in 1..RevisionAt(p, n + 1)' :
            \E i \in 1..(n + 1) : IsFactOf(i, p)' /\ log'[i].revision = v
      BY <2>3, <3>2, <3>3, <3>6
    <3>9. ASSUME NEW m \in 0..(n + 1)
          PROVE  /\ RevisionAt(p, m)' <= RevisionAt(p, n + 1)'
                 /\ RevisionAt(p, m)' = RevisionAt(p, n + 1)'
                      => LastFact(p, m)' = LastFact(p, n + 1)'
      <4>1. CASE m \in 0..n
        BY <3>2, <3>7, <4>1
      <4>2. CASE m = n + 1
        BY <3>2, <4>2
      <4> QED
        BY <3>5, <4>1, <4>2
    <3> QED
      BY <3>8, <3>9
  <2>5. CASE ~(f.type # "message" /\ f.who = p)
    <3>1. RevisionAt(p, n + 1)' = r /\ LastFact(p, n + 1)' = LastFact(p, n)
      BY <1>1, <1>2, <2>1, <2>5, GrownLastFact
    <3>2. \A m \in 0..n : /\ RevisionAt(p, m)' = RevisionAt(p, m)
                          /\ LastFact(p, m)' = LastFact(p, m)
      BY <1>1, <1>2, GrownLastFact
    <3>3. \A m \in 0..(n + 1) : m \in 0..n \/ m = n + 1
      BY <1>2
    <3>4. \A v \in 1..RevisionAt(p, n + 1)' :
            \E i \in 1..(n + 1) : IsFactOf(i, p)' /\ log'[i].revision = v
      BY <2>3, <3>1
    <3>5. ASSUME NEW m \in 0..(n + 1)
          PROVE  /\ RevisionAt(p, m)' <= RevisionAt(p, n + 1)'
                 /\ RevisionAt(p, m)' = RevisionAt(p, n + 1)'
                      => LastFact(p, m)' = LastFact(p, n + 1)'
      <4>1. CASE m \in 0..n
        BY <2>1, <2>2, <3>1, <3>2, <4>1
      <4>2. CASE m = n + 1
        BY <2>1, <3>1, <4>2
      <4> QED
        BY <3>3, <4>1, <4>2
    <3> QED
      BY <3>4, <3>5
  <2> QED
    BY <2>4, <2>5
<1>5. LogIsLegal'
  <2> SUFFICES ASSUME NEW i \in 1..(n + 1), log'[i].type # "message"
               PROVE  Legal(log[i], i - 1)'
    BY <1>2 DEF LogIsLegal
  <2>1. PICK g \in Fact : g = log'[i]
    BY <1>2
  <2>2. PICK m \in 0..n : m = i - 1
    BY <1>2
  <2>3. Legal(g, m)'
    BY <1>3, <2>1, <2>2
  <2> QED
    BY <2>1, <2>2, <2>3 DEF Legal
<1>6. RevisionsAreDense'
  <2>1. \A p \in Participants : RevisionAt(p, Len(log))' = RevisionAt(p, n + 1)'
                               /\ LastFact(p, Len(log))' = LastFact(p, n + 1)'
    BY <1>2 DEF RevisionAt, LastFact
  <2> QED
    BY <1>2, <1>4, <2>1 DEF RevisionsAreDense
<1> QED
  BY <1>5, <1>6

LEMMA AppendKeepsDue ==
  ASSUME Types, NEW f \in Fact, log' = Append(log, f),
         f.type # "message" => Legal(f, Len(log)),
         NEW g \in Fact, Due(g)
  PROVE  Due(g)'
<1> SUFFICES ASSUME g.type # "message"
             PROVE  Due(g)'
  BY DEF Due
<1>1. PICK n : n = Len(log)
  OBVIOUS
<1>2. /\ n \in Nat /\ log \in Seq(Fact) /\ Len(log') = n + 1 /\ g.who \in Participants
      /\ g.revision \in Nat
  BY <1>1, GrownLog, FactColumns DEF Types
<1>3. PICK r \in Nat : r = RevisionAt(g.who, n)
  BY <1>1, <1>2, RevisionType
<1>4. RevisionAt(g.who, Len(log))' = RevisionAt(g.who, n + 1)'
  BY <1>2 DEF RevisionAt, LastFact
<1>5. CASE f.type # "message" /\ f.who = g.who
  <2>1. f.revision = r + 1 /\ RevisionAt(g.who, n + 1)' = r + 1
    BY <1>1, <1>2, <1>3, <1>5, GrownLastFact DEF Legal
  <2>2. g.revision \in 1..r \/ g.revision = r + 1
    BY <1>1, <1>3 DEF Due, Legal
  <2>3. g.revision \in 1..(r + 1)
    BY <2>2, <1>3
  <2> QED
    BY <1>4, <2>1, <2>3 DEF Due
<1>6. CASE ~(f.type # "message" /\ f.who = g.who)
  <2>1. RevisionAt(g.who, n + 1)' = r /\ LastFact(g.who, n + 1)' = LastFact(g.who, n)
    BY <1>1, <1>2, <1>3, <1>6, GrownLastFact
  <2>2. LastFact(g.who, n) = 0 \/ (LastFact(g.who, n) \in 1..n)
    BY <1>1, <1>2, LastFactIs
  <2>3. LastFact(g.who, n) # 0 => log'[LastFact(g.who, n)] = log[LastFact(g.who, n)]
    BY <1>1, <1>2, <2>2, GrownLog
  <2>4. LastFact(g.who, Len(log))' = LastFact(g.who, n)
    BY <1>2, <2>1 DEF LastFact
  <2>5. CASE g.revision \in 1..r
    BY <1>4, <2>1, <2>5 DEF Due
  <2>6. CASE Legal(g, n)
    <3>1. /\ ActiveAt(g.who, Len(log))' = ActiveAt(g.who, n)
          /\ AttachedAt(g.who, Len(log))' = AttachedAt(g.who, n)
      BY <2>3, <2>4 DEF ActiveAt, AttachedAt
    <3>2. g.type = "detached" => g.after \in Nat /\ g.after <= n
      BY <2>6, FactColumns DEF Legal
    <3>3. g.type = "detached" => g.after <= n + 1
      BY <1>2, <3>2
    <3>4. Legal(g, Len(log))'
      BY <1>2, <1>3, <1>4, <2>1, <2>6, <3>1, <3>3 DEF Legal
    <3> QED
      BY <3>4 DEF Due
  <2> QED
    BY <1>1, <1>3, <2>5, <2>6 DEF Due
<1> QED
  BY <1>5, <1>6

(***************************************************************************)
(* The steps of the tables.                                                *)
(***************************************************************************)

\* What a step leaves every other request: its facts stay due, and what it has
\* read stays behind the cursor and inside the log.
OthersKept == \A d \in Request : InStep(d) => InStep(d)'

LEMMA LogStays ==
  ASSUME UNCHANGED log
  PROVE  /\ \A p, n : /\ RevisionAt(p, n)' = RevisionAt(p, n)
                      /\ ActiveAt(p, n)' = ActiveAt(p, n)
                      /\ AttachedAt(p, n)' = AttachedAt(p, n)
                      /\ LastFact(p, n)' = LastFact(p, n)
         /\ LogIsLegal => LogIsLegal'
         /\ RevisionsAreDense => RevisionsAreDense'
         /\ \A f : Due(f) => Due(f)'
<1>1. ASSUME NEW p, NEW n
      PROVE  LastFact(p, n)' = LastFact(p, n)
  BY DEF LastFact, IsFactOf
<1>2. ASSUME NEW p, NEW n
      PROVE  /\ RevisionAt(p, n)' = RevisionAt(p, n)
             /\ ActiveAt(p, n)' = ActiveAt(p, n)
             /\ AttachedAt(p, n)' = AttachedAt(p, n)
  BY <1>1 DEF RevisionAt, ActiveAt, AttachedAt
<1>3. \A f, n : Legal(f, n)' <=> Legal(f, n)
  BY <1>2 DEF Legal
<1>4. LogIsLegal => LogIsLegal'
  <2> SUFFICES ASSUME LogIsLegal, NEW i \in 1..Len(log), log[i].type # "message"
               PROVE  Legal(log[i], i - 1)'
    BY DEF LogIsLegal
  <2>1. Legal(log[i], i - 1)
    BY DEF LogIsLegal
  <2> QED
    BY <1>2, <2>1 DEF Legal
<1>5. RevisionsAreDense => RevisionsAreDense'
  BY <1>1, <1>2 DEF RevisionsAreDense, IsFactOf
<1>6. \A f : Due(f) => Due(f)'
  BY <1>2 DEF Due, Legal
<1> QED
  BY <1>1, <1>2, <1>4, <1>5, <1>6

LEMMA OthersAreKept ==
  ASSUME Types, UNCHANGED log, cursor' \in Nat, cursor <= cursor'
  PROVE  OthersKept
<1> SUFFICES ASSUME NEW d \in Request, InStep(d)
             PROVE  InStep(d)'
  BY DEF OthersKept
<1>1. d.fact \in Fact /\ Due(d.fact) => Due(d.fact)'
  BY LogStays
<1>2. d.from \in Nat /\ d.bound \in Int
  BY DEF Request, NoBound
<1>3. cursor \in Int /\ cursor' \in Int
  BY DEF Types
<1>4. Placed(d)'
  BY <1>2, <1>3 DEF InStep, Placed
<1>5. d.from <= cursor'
  BY <1>2, <1>3 DEF InStep
<1> QED
  BY <1>1, <1>4, <1>5 DEF InStep

\* The relationships stay, rows come and go.
LEMMA TablesStay ==
  ASSUME TablesInv, UNCHANGED <<log, cursor, relationship>>,
         \A k \in DOMAIN mailbox' : k[1] \in 1..cursor /\ k[2] \in Participants
  PROVE  TablesInv' /\ OthersKept
<1>1. cursor \in Nat
  BY DEF TablesInv, Types
<1>2. OthersKept
  BY <1>1, OthersAreKept DEF TablesInv
<1>3. Types'
  BY DEF TablesInv, Types
<1>4. \A p \in Participants : Follows(p)' /\ RangeOK(p)'
  BY LogStays DEF TablesInv, Follows, RangeOK
<1> QED
  BY <1>2, <1>3, <1>4, LogStays DEF TablesInv

LEMMA ClosedDomain ==
  ASSUME NEW S, NEW state
  PROVE  DOMAIN Close(S, state) = DOMAIN mailbox
  BY DEF Close

LEMMA TablesClose ==
  ASSUME TablesInv, NEW S, NEW state, mailbox' = Close(S, state),
         UNCHANGED <<log, cursor, relationship>>
  PROVE  TablesInv' /\ OthersKept
<1>1. \A k \in DOMAIN mailbox' : k[1] \in 1..cursor /\ k[2] \in Participants
  BY ClosedDomain DEF TablesInv, Types
<1> QED
  BY <1>1, TablesStay

LEMMA TablesAppend ==
  ASSUME TablesInv, NEW f \in Fact, log' = Append(log, f),
         f.type # "message" => Legal(f, Len(log)),
         UNCHANGED projection
  PROVE  TablesInv' /\ OthersKept
<1>1. PICK n \in Nat : n = Len(log)
  BY DEF TablesInv, Types
<1>2. Len(log') = n + 1 /\ log' \in Seq(Fact) /\ cursor' = cursor /\ cursor \in 0..n
      /\ relationship' = relationship /\ mailbox' = mailbox
  BY <1>1, GrownLog DEF TablesInv, Types, projection
<1>3. Types'
  BY <1>2 DEF TablesInv, Types
<1>4. ASSUME NEW p \in Participants
      PROVE  Follows(p)' /\ RangeOK(p)'
  <2>1. /\ RevisionAt(p, cursor)' = RevisionAt(p, cursor)
        /\ ActiveAt(p, cursor)' = ActiveAt(p, cursor)
        /\ AttachedAt(p, cursor)' = AttachedAt(p, cursor)
    <3>1. PICK m \in 0..n : m = cursor
      BY <1>2
    <3>2. /\ RevisionAt(p, m)' = RevisionAt(p, m)
          /\ ActiveAt(p, m)' = ActiveAt(p, m)
          /\ AttachedAt(p, m)' = AttachedAt(p, m)
      BY <1>1, GrownLastFact DEF TablesInv, Types
    <3> QED
      BY <1>2, <3>1, <3>2 DEF RevisionAt, ActiveAt, AttachedAt, LastFact
  <2> QED
    BY <1>2, <2>1 DEF TablesInv, Follows, RangeOK
<1>5. ASSUME NEW d \in Request, InStep(d)
      PROVE  InStep(d)'
  <2>1. d.step = "append" => d.fact \in Fact /\ Due(d.fact)'
    BY <1>5, AppendKeepsDue DEF InStep, TablesInv
  <2>2. d.event \in Nat /\ d.from \in Nat /\ d.upto \in Nat
    BY DEF Request
  <2>3. Placed(d)'
    BY <1>1, <1>2, <1>5, <2>2 DEF InStep, Placed
  <2>4. "fold" \in {d.step, d.then} => d.from < d.upto /\ d.upto <= Len(log')
    BY <1>1, <1>2, <1>5, <2>2 DEF InStep
  <2>5. d.from <= cursor'
    BY <1>2, <1>5 DEF InStep
  <2> QED
    BY <1>5, <2>1, <2>3, <2>4, <2>5 DEF InStep
<1> QED
  BY <1>3, <1>4, <1>5, AppendKeepsLog DEF TablesInv, OthersKept

\* The fold of the next event, while nothing is recovered.
LEMMA FoldedType ==
  ASSUME Types, NEW f \in Fact, f.type # "message", NEW e \in Nat \ {0},
         relationship[f.who].detachedAt \in Nat
  PROVE  FoldedRelationship(f, e) \in Relationship
<1>1. f.who \in Participants /\ f.revision \in Nat
      /\ f.type \in {"joined", "detached", "ended"}
      /\ (f.type = "joined" => f.route \in Routes)
      /\ (f.type = "detached" => f.after \in Nat)
  BY FactColumns
<1>2. PICK r \in Relationship : r = relationship[f.who]
  BY <1>1 DEF Types
<1>3. CASE f.type = "detached"
  <2>1. FoldedRelationship(f, e) =
          [r EXCEPT !.revision = f.revision, !.attached = FALSE,
                    !.detachedAt = f.after, !.after = 0, !.through = 0]
    BY <1>2, <1>3 DEF FoldedRelationship
  <2>2. f.revision \in Nat /\ f.after \in Nat /\ 0 \in Nat
    BY <1>1, <1>3
  <2>3. [r EXCEPT !.revision = f.revision] \in Relationship
    BY <2>2 DEF Relationship
  <2>4. PICK s \in Relationship : s = [r EXCEPT !.revision = f.revision]
    BY <2>3
  <2>5. [s EXCEPT !.attached = FALSE] \in Relationship
    BY DEF Relationship
  <2>6. PICK u \in Relationship : u = [s EXCEPT !.attached = FALSE]
    BY <2>5
  <2>7. [u EXCEPT !.detachedAt = f.after] \in Relationship
    BY <2>2 DEF Relationship
  <2>8. PICK v \in Relationship : v = [u EXCEPT !.detachedAt = f.after]
    BY <2>7
  <2>9. [v EXCEPT !.after = 0] \in Relationship
    BY <2>2 DEF Relationship
  <2>10. PICK w \in Relationship : w = [v EXCEPT !.after = 0]
    BY <2>9
  <2>11. [w EXCEPT !.through = 0] \in Relationship
    BY <2>2 DEF Relationship
  <2>12. FoldedRelationship(f, e) = [w EXCEPT !.through = 0]
    BY <2>1, <2>4, <2>6, <2>8, <2>10 DEF Relationship
  <2> QED
    BY <2>11, <2>12
<1>4. CASE f.type = "ended"
  <2>1. FoldedRelationship(f, e) =
          [r EXCEPT !.revision = f.revision, !.active = FALSE, !.attached = FALSE,
                    !.after = 0, !.through = 0]
    BY <1>2, <1>4 DEF FoldedRelationship
  <2>2. f.revision \in Nat /\ 0 \in Nat
    BY <1>1
  <2>3. [r EXCEPT !.revision = f.revision] \in Relationship
    BY <2>2 DEF Relationship
  <2>4. PICK s \in Relationship : s = [r EXCEPT !.revision = f.revision]
    BY <2>3
  <2>5. [s EXCEPT !.active = FALSE] \in Relationship
    BY DEF Relationship
  <2>6. PICK u \in Relationship : u = [s EXCEPT !.active = FALSE]
    BY <2>5
  <2>7. [u EXCEPT !.attached = FALSE] \in Relationship
    BY DEF Relationship
  <2>8. PICK v \in Relationship : v = [u EXCEPT !.attached = FALSE]
    BY <2>7
  <2>9. [v EXCEPT !.after = 0] \in Relationship
    BY <2>2 DEF Relationship
  <2>10. PICK w \in Relationship : w = [v EXCEPT !.after = 0]
    BY <2>9
  <2>11. [w EXCEPT !.through = 0] \in Relationship
    BY <2>2 DEF Relationship
  <2>12. FoldedRelationship(f, e) = [w EXCEPT !.through = 0]
    BY <2>1, <2>4, <2>6, <2>8, <2>10 DEF Relationship
  <2> QED
    BY <2>11, <2>12
<1>5. CASE f.type = "joined"
  <2>1. PICK a \in Nat, t \in Nat :
          FoldedRelationship(f, e) =
            [revision |-> f.revision, active |-> TRUE, attached |-> TRUE,
             route |-> f.route, detachedAt |-> 0, after |-> a, through |-> t]
    <3>1. e - 1 \in Nat /\ r.detachedAt \in Nat
      BY DEF Relationship
    <3>2. CASE r.active /\ ~r.attached
      BY <1>2, <1>5, <3>1, <3>2 DEF FoldedRelationship
    <3>3. CASE ~(r.active /\ ~r.attached)
      BY <1>2, <1>5, <3>1, <3>3 DEF FoldedRelationship
    <3> QED
      BY <3>2, <3>3
  <2> QED
    BY <1>1, <1>5, <2>1 DEF Relationship
<1> QED
  BY <1>1, <1>3, <1>4, <1>5

LEMMA FoldedColumns ==
  ASSUME Types, NEW f \in Fact, f.type # "message", NEW e \in Nat \ {0}, e = cursor + 1,
         RangeOK(f.who), f.type = "detached" => f.after < e
  PROVE  LET s == FoldedRelationship(f, e) IN
         /\ s.revision = f.revision
         /\ f.type = "joined" => s.active = TRUE /\ s.attached = TRUE
         /\ f.type = "detached" => s.active = relationship[f.who].active /\ s.attached = FALSE
         /\ f.type = "ended" => s.active = FALSE /\ s.attached = FALSE
         /\ s.active /\ ~s.attached => s.detachedAt < e
         /\ s.through # 0 => s.active /\ s.attached /\ s.after < s.through /\ s.through < e
<1>1. f.who \in Participants /\ f.type \in {"joined", "detached", "ended"}
  BY FactColumns
<1>2. PICK r \in Relationship : r = relationship[f.who]
  BY <1>1 DEF Types
<1>3. cursor \in Nat
  BY DEF Types
<1>4. CASE f.type = "detached"
  <2>1. PICK s : s =
          [r EXCEPT !.revision = f.revision, !.attached = FALSE,
                    !.detachedAt = f.after, !.after = 0, !.through = 0]
    OBVIOUS
  <2>2. s = FoldedRelationship(f, e)
    BY <1>2, <1>4, <2>1 DEF FoldedRelationship
  <2>3. s.revision = f.revision /\ s.attached = FALSE /\ s.detachedAt = f.after
        /\ s.through = 0 /\ s.active = r.active
    BY <2>1 DEF Relationship
  <2> QED
    BY <1>2, <1>4, <2>2, <2>3
<1>5. CASE f.type = "ended"
  <2>1. PICK s : s =
          [r EXCEPT !.revision = f.revision, !.active = FALSE, !.attached = FALSE,
                    !.after = 0, !.through = 0]
    OBVIOUS
  <2>2. s = FoldedRelationship(f, e)
    BY <1>2, <1>5, <2>1 DEF FoldedRelationship
  <2>3. s.revision = f.revision /\ s.attached = FALSE /\ s.through = 0 /\ s.active = FALSE
    BY <2>1 DEF Relationship
  <2> QED
    BY <1>5, <2>2, <2>3
<1>6. CASE f.type = "joined"
  <2>1. CASE r.active /\ ~r.attached
    <3>1. r.detachedAt \in Nat /\ r.detachedAt < cursor
      BY <1>2, <2>1 DEF RangeOK, Relationship
    <3>2. FoldedRelationship(f, e) =
            [revision |-> f.revision, active |-> TRUE, attached |-> TRUE,
             route |-> f.route, detachedAt |-> 0, after |-> r.detachedAt, through |-> cursor]
      <4>1. e - 1 = cursor
        BY <1>3
      <4> QED
        BY <1>2, <1>6, <2>1, <4>1 DEF FoldedRelationship
    <3> QED
      BY <1>3, <1>6, <3>1, <3>2
  <2>2. CASE ~(r.active /\ ~r.attached)
    <3>1. FoldedRelationship(f, e) =
            [revision |-> f.revision, active |-> TRUE, attached |-> TRUE,
             route |-> f.route, detachedAt |-> 0, after |-> 0, through |-> 0]
      BY <1>2, <1>6, <2>2 DEF FoldedRelationship
    <3> QED
      BY <1>6, <3>1
  <2> QED
    BY <2>1, <2>2
<1> QED
  BY <1>1, <1>4, <1>5, <1>6

LEMMA TablesFold ==
  ASSUME TablesInv, NEW e \in 1..Len(log), e = cursor + 1, Fold(log[e], e), UNCHANGED log
  PROVE  TablesInv' /\ OthersKept /\ cursor' = e
<1>1. PICK f \in Fact : f = log[e]
  BY DEF TablesInv, Types
<1>2. cursor \in Nat /\ e \in Nat \ {0} /\ cursor = e - 1 /\ cursor' = e /\ log \in Seq(Fact)
      /\ relationship \in [Participants -> Relationship]
  BY DEF TablesInv, Types, Fold
<1>3. OthersKept
  BY <1>2, OthersAreKept DEF TablesInv
<1>4. f.type # "message" =>
        /\ f.who \in Participants /\ f.type \in {"joined", "detached", "ended"}
        /\ Legal(f, cursor)
  BY <1>1, <1>2, FactColumns DEF TablesInv, LogIsLegal
<1>5. ASSUME NEW p \in Participants
      PROVE  LastFact(p, cursor)' =
               IF f.type # "message" /\ f.who = p THEN e ELSE LastFact(p, cursor)
  <2>1. LastFact(p, e) = IF IsFactOf(e, p) THEN e ELSE LastFact(p, e - 1)
    BY <1>2, NextLastFact
  <2>2. LastFact(p, cursor)' = LastFact(p, e)
    BY <1>2 DEF LastFact, IsFactOf
  <2> QED
    BY <1>1, <1>2, <2>1, <2>2 DEF IsFactOf
<1>6. CASE f.type = "message"
  <2>1. relationship' = relationship /\ mailbox' = Insert(Deliveries(f, e, Participants))
    BY <1>1, <1>6 DEF Fold
  <2>2. ASSUME NEW k \in DOMAIN mailbox'
        PROVE  k[1] \in 1..cursor' /\ k[2] \in Participants
    <3>1. k \in DOMAIN mailbox \/ k \in Deliveries(f, e, Participants)
      BY <2>1 DEF Insert
    <3>2. k \in Deliveries(f, e, Participants) => k[1] = e /\ k[2] \in Participants
      BY DEF Deliveries
    <3>3. k \in DOMAIN mailbox => k[1] \in 1..cursor /\ k[2] \in Participants
      BY DEF TablesInv, Types
    <3>4. k[1] = e => k[1] \in 1..cursor'
      <4>1. e \in 1..e
        OBVIOUS
      <4> QED
        BY <1>2, <4>1
    <3>5. k[1] \in 1..cursor => k[1] \in 1..cursor'
      <4>1. k[1] \in 1..cursor => k[1] \in Nat /\ 1 <= k[1] /\ k[1] <= e
        BY <1>2
      <4> QED
        BY <1>2, <4>1
    <3> QED
      BY <3>1, <3>2, <3>3, <3>4, <3>5
  <2>3. Types'
    BY <1>2, <2>1, <2>2 DEF TablesInv, Types
  <2>4. ASSUME NEW p \in Participants
        PROVE  Follows(p)' /\ RangeOK(p)'
    <3>1. LastFact(p, cursor)' = LastFact(p, cursor)
      BY <1>5, <1>6
    <3>2. Follows(p)'
      BY <2>1, <3>1 DEF TablesInv, Follows, RevisionAt, ActiveAt, AttachedAt
    <3>3. PICK r \in Relationship : r = relationship[p]
      BY <1>2
    <3>4. r.through \in Nat /\ r.detachedAt \in Nat /\ r = relationship'[p]
      BY <2>1, <3>3 DEF Relationship
    <3>5. /\ r.active /\ ~r.attached => r.detachedAt < cursor
          /\ r.through # 0 => r.active /\ r.attached /\ r.after < r.through
                              /\ r.through < cursor
      BY <3>3 DEF TablesInv, RangeOK
    <3>6. /\ r.active /\ ~r.attached => r.detachedAt < e
          /\ r.through # 0 => r.active /\ r.attached /\ r.after < r.through
                              /\ r.through < e
      BY <1>2, <3>4, <3>5
    <3>7. RangeOK(p)'
      BY <1>2, <3>4, <3>6 DEF RangeOK
    <3> QED
      BY <3>2, <3>7
  <2> QED
    BY <1>2, <1>3, <2>3, <2>4, LogStays DEF TablesInv
<1>7. CASE f.type # "message"
  <2>1. Follows(f.who) /\ RangeOK(f.who)
    BY <1>4, <1>7 DEF TablesInv
  <2>2. Applies(f)
    BY <1>4, <1>7, <2>1 DEF Applies, Legal, Follows
  <2>3. /\ relationship' = [relationship EXCEPT ![f.who] = FoldedRelationship(f, e)]
        /\ mailbox' = FoldedMailbox(f)
    BY <1>1, <1>7, <2>2 DEF Fold
  <2>4. PICK s : s = FoldedRelationship(f, e)
    OBVIOUS
  <2>5. s \in Relationship
    <3>1. relationship[f.who].detachedAt \in Nat
      BY <1>2, <1>4, <1>7 DEF Relationship
    <3> QED
      BY <1>2, <1>7, <2>4, <3>1, FoldedType DEF TablesInv
  <2>6. f.type = "detached" => f.after < e
    <3>1. f.type = "detached" => f.after \in Nat /\ f.after <= cursor
      BY <1>4, FactColumns DEF Legal
    <3> QED
      BY <1>2, <3>1
  <2>7. /\ s.revision = f.revision
        /\ f.type = "joined" => s.active = TRUE /\ s.attached = TRUE
        /\ f.type = "detached" => s.active = relationship[f.who].active /\ s.attached = FALSE
        /\ f.type = "ended" => s.active = FALSE /\ s.attached = FALSE
        /\ s.active /\ ~s.attached => s.detachedAt < e
        /\ s.through # 0 => s.active /\ s.attached /\ s.after < s.through /\ s.through < e
    BY <1>2, <1>7, <2>1, <2>4, <2>6, FoldedColumns DEF TablesInv
  <2>8. \A k \in DOMAIN mailbox' : k[1] \in 1..cursor' /\ k[2] \in Participants
    <3>1. DOMAIN mailbox' = DOMAIN mailbox
      BY <1>4, <1>7, <2>3, ClosedDomain DEF FoldedMailbox
    <3> QED
      BY <1>2, <3>1 DEF TablesInv, Types
  <2>9. Types'
    <3>1. relationship' \in [Participants -> Relationship]
      BY <1>2, <2>3, <2>4, <2>5
    <3>2. cursor' \in 0..Len(log')
      BY <1>2
    <3> QED
      BY <1>2, <2>8, <3>1, <3>2 DEF Types
  <2>10. ASSUME NEW p \in Participants, p # f.who
         PROVE  Follows(p)' /\ RangeOK(p)'
    <3>1. LastFact(p, cursor)' = LastFact(p, cursor) /\ relationship'[p] = relationship[p]
      BY <1>2, <1>5, <2>3, <2>10
    <3>2. Follows(p)'
      BY <3>1 DEF TablesInv, Follows, RevisionAt, ActiveAt, AttachedAt
    <3>3. PICK r \in Relationship : r = relationship[p]
      BY <1>2
    <3>4. r.through \in Nat /\ r.detachedAt \in Nat /\ r = relationship'[p]
      BY <3>1, <3>3 DEF Relationship
    <3>5. /\ r.active /\ ~r.attached => r.detachedAt < cursor
          /\ r.through # 0 => r.active /\ r.attached /\ r.after < r.through
                              /\ r.through < cursor
      BY <3>3 DEF TablesInv, RangeOK
    <3>6. /\ r.active /\ ~r.attached => r.detachedAt < e
          /\ r.through # 0 => r.active /\ r.attached /\ r.after < r.through
                              /\ r.through < e
      BY <1>2, <3>4, <3>5
    <3>7. RangeOK(p)'
      BY <1>2, <3>4, <3>6 DEF RangeOK
    <3> QED
      BY <3>2, <3>7
  <2>11. Follows(f.who)' /\ RangeOK(f.who)'
    <3>1. LastFact(f.who, cursor)' = e /\ e # 0 /\ log'[e] = f
      BY <1>1, <1>2, <1>4, <1>5, <1>7
    <3>2. relationship'[f.who] = s
      BY <1>2, <1>4, <1>7, <2>3, <2>4
    <3>3. relationship[f.who].active = TRUE \/ f.type # "detached"
      BY <2>1, <1>4, <1>7 DEF Follows, Legal
    <3>4. RevisionAt(f.who, cursor)' = f.revision
          /\ ActiveAt(f.who, cursor)' = (f.type # "ended")
          /\ AttachedAt(f.who, cursor)' = (f.type = "joined")
      BY <3>1 DEF RevisionAt, ActiveAt, AttachedAt
    <3>5. s.active = (f.type # "ended") /\ s.attached = (f.type = "joined")
      BY <1>4, <1>7, <2>7, <3>3
    <3>6. Follows(f.who)'
      BY <2>7, <3>2, <3>4, <3>5 DEF Follows
    <3>7. RangeOK(f.who)'
      BY <1>2, <2>7, <3>2 DEF RangeOK
    <3> QED
      BY <3>6, <3>7
  <2> QED
    BY <1>2, <1>3, <2>9, <2>10, <2>11, LogStays DEF TablesInv
<1> QED
  BY <1>6, <1>7

LEMMA TablesAdvance ==
  ASSUME TablesInv, NEW p \in Participants, NEW from \in Nat, NEW last \in Nat,
         Advance(p, from, last), UNCHANGED log
  PROVE  TablesInv' /\ OthersKept
<1>1. PICK r \in Relationship : r = relationship[p]
  BY DEF TablesInv, Types
<1>2. r.after \in Nat /\ r.through \in Nat /\ cursor \in Nat
      /\ relationship \in [Participants -> Relationship]
  BY DEF TablesInv, Types, Relationship
<1>3. PICK range : range = IF r.through = 0 THEN {}
               ELSE Max({from, r.after + 1}) .. Min({last, r.through})
  OBVIOUS
<1>4. /\ mailbox' = Insert(UNION {Deliveries(log[e], e, {p}) : e \in range})
      /\ relationship' =
           IF range = {} THEN relationship
           ELSE IF Max(range) = r.through
           THEN [relationship EXCEPT ![p].after = 0, ![p].through = 0]
           ELSE [relationship EXCEPT ![p].after = Max(range)]
      /\ cursor' = cursor
  BY <1>1, <1>3 DEF Advance
<1>5. /\ r.active /\ ~r.attached => r.detachedAt < cursor
      /\ r.through # 0 => r.active /\ r.attached /\ r.after < r.through /\ r.through < cursor
  BY <1>1 DEF TablesInv, RangeOK
<1>6. ASSUME NEW e \in range
      PROVE  e \in 1..cursor /\ e <= r.through /\ r.through # 0
  <2>1. r.through # 0 /\ e \in Max({from, r.after + 1}) .. Min({last, r.through})
    BY <1>3, <1>6
  <2>2. PICK a \in Nat : a = Max({from, r.after + 1}) /\ a >= r.after + 1
    BY <1>2, MaxOfTwo
  <2>3. PICK b \in Nat : b = Min({last, r.through}) /\ b <= r.through
    BY <1>2, MinOfTwo
  <2> QED
    BY <1>2, <1>5, <2>1, <2>2, <2>3
<1>7. OthersKept
  BY <1>2, <1>4, OthersAreKept DEF TablesInv
<1>8. ASSUME NEW k \in DOMAIN mailbox'
      PROVE  k[1] \in 1..cursor /\ k[2] \in Participants
  <2>1. k \in DOMAIN mailbox \/ \E e \in range : k \in Deliveries(log[e], e, {p})
    BY <1>4 DEF Insert
  <2>2. \A e \in range : k \in Deliveries(log[e], e, {p}) => k[1] = e /\ k[2] = p
    BY DEF Deliveries
  <2> QED
    BY <1>6, <2>1, <2>2 DEF TablesInv, Types
<1>9. CASE range = {}
  BY <1>4, <1>8, <1>9, TablesStay
<1>10. CASE range # {}
  <2>1. Max(range) \in range
    <3>1. range \in SUBSET (1..cursor)
      BY <1>6
    <3> QED
      BY <1>2, <1>10, <3>1, MaxUpTo
  <2>2. Max(range) \in Nat /\ Max(range) <= r.through /\ r.through # 0
    BY <1>2, <1>6, <2>1
  <2>3. PICK s : s = IF Max(range) = r.through
                     THEN [r EXCEPT !.after = 0, !.through = 0]
                     ELSE [r EXCEPT !.after = Max(range)]
    OBVIOUS
  <2>4. /\ s \in Relationship
        /\ s.revision = r.revision /\ s.active = r.active /\ s.attached = r.attached
        /\ s.detachedAt = r.detachedAt
        /\ s.through # 0 => s.after < s.through /\ s.through = r.through
    <3>1. CASE Max(range) = r.through
      <4>1. PICK u \in Relationship : u = [r EXCEPT !.after = 0]
        BY DEF Relationship
      <4>2. s = [u EXCEPT !.through = 0]
        BY <2>3, <3>1, <4>1 DEF Relationship
      <4> QED
        BY <4>1, <4>2 DEF Relationship
    <3>2. CASE Max(range) # r.through
      <4>1. s = [r EXCEPT !.after = Max(range)]
        BY <2>3, <3>2
      <4>2. s \in Relationship
        BY <2>2, <4>1 DEF Relationship
      <4>3. s.after = Max(range) /\ s.through = r.through
        BY <4>1 DEF Relationship
      <4>4. Max(range) < r.through
        BY <1>2, <2>2, <3>2
      <4> QED
        BY <4>1, <4>2, <4>3, <4>4 DEF Relationship
    <3> QED
      BY <3>1, <3>2
  <2>5. /\ relationship' \in [Participants -> Relationship]
        /\ relationship'[p] = s
        /\ \A o \in Participants \ {p} : relationship'[o] = relationship[o]
    <3>1. CASE Max(range) = r.through
      <4>1. relationship' = [relationship EXCEPT ![p].after = 0, ![p].through = 0]
        BY <1>4, <1>10, <3>1
      <4>2. relationship' = [relationship EXCEPT ![p] = s]
        BY <1>1, <1>2, <2>3, <3>1, <4>1
      <4> QED
        BY <1>2, <2>4, <4>2
    <3>2. CASE Max(range) # r.through
      <4>1. relationship' = [relationship EXCEPT ![p].after = Max(range)]
        BY <1>4, <1>10, <3>2
      <4>2. relationship' = [relationship EXCEPT ![p] = s]
        BY <1>1, <1>2, <2>3, <3>2, <4>1
      <4> QED
        BY <1>2, <2>4, <4>2
    <3> QED
      BY <3>1, <3>2
  <2>6. Types'
    BY <1>4, <1>8, <2>5 DEF TablesInv, Types
  <2>7. ASSUME NEW o \in Participants
        PROVE  Follows(o)' /\ RangeOK(o)'
    <3>1. /\ RevisionAt(o, cursor)' = RevisionAt(o, cursor)
          /\ ActiveAt(o, cursor)' = ActiveAt(o, cursor)
          /\ AttachedAt(o, cursor)' = AttachedAt(o, cursor)
      BY <1>4 DEF RevisionAt, ActiveAt, AttachedAt, LastFact, IsFactOf
    <3>2. Follows(o) /\ RangeOK(o)
      BY DEF TablesInv
    <3>3. CASE o = p
      <4>1. Follows(o)'
        BY <1>1, <2>4, <2>5, <3>1, <3>2, <3>3 DEF Follows
      <4>2. RangeOK(o)'
        BY <1>4, <1>5, <2>4, <2>5, <3>3 DEF RangeOK
      <4> QED
        BY <4>1, <4>2
    <3>4. CASE o # p
      <4>1. relationship'[o] = relationship[o]
        BY <2>5, <3>4
      <4> QED
        BY <1>4, <3>1, <3>2, <4>1 DEF Follows, RangeOK
    <3> QED
      BY <3>3, <3>4
  <2> QED
    BY <1>7, <2>6, <2>7, LogStays DEF TablesInv
<1> QED
  BY <1>9, <1>10

(***************************************************************************)
(* The steps of a request.                                                 *)
(***************************************************************************)

Steps == {"read", "derive", "fold", "decide", "finish"}

\* What Placed looks at.
Same(x, d) ==
  /\ x.op = d.op /\ x.who = d.who /\ x.route = d.route
  /\ x.bound = d.bound /\ x.event = d.event

LEMMA PlacedSame ==
  ASSUME NEW d, NEW x, Same(x, d), Placed(d)'
  PROVE  Placed(x)'
  BY DEF Same, Placed

LEMMA PlacedStays ==
  ASSUME Types, Types', NEW d \in Request, Placed(d), cursor <= cursor', UNCHANGED log
  PROVE  Placed(d)'
<1>1. cursor \in Int /\ cursor' \in Int /\ d.bound \in Int
  BY DEF Types, Request, NoBound
<1> QED
  BY <1>1 DEF Placed

\* One request moves on or ends, the others stay where they are.
LEMMA MoveOn ==
  ASSUME RequestsInv, TablesInv', OthersKept, NEW q \in Requests,
         NEW x, x = Idle \/ (x \in Request /\ InStep(x)'),
         request' = [request EXCEPT ![q] = x]
  PROVE  RequestsInv'
<1>1. DOMAIN request' = Requests
  BY DEF RequestsInv
<1>2. ASSUME NEW o \in Requests
      PROVE  request'[o] = Idle \/ (request'[o] \in Request /\ InStep(request[o])')
  <2>1. PICK d : d = request[o]
    OBVIOUS
  <2>2. CASE o = q
    <3>1. request'[o] = x
      BY <2>2 DEF RequestsInv
    <3> QED
      BY <3>1
  <2>3. CASE o # q
    <3>1. request'[o] = d
      BY <2>1, <2>3 DEF RequestsInv
    <3>2. d = Idle \/ (d \in Request /\ InStep(d))
      BY <2>1 DEF RequestsInv
    <3>3. d = Idle \/ (d \in Request /\ InStep(d)')
      BY <3>2 DEF OthersKept
    <3> QED
      BY <3>1, <3>3
  <2> QED
    BY <2>2, <2>3
<1> QED
  BY <1>1, <1>2 DEF RequestsInv

LEMMA StayPut ==
  ASSUME RequestsInv, TablesInv', OthersKept, UNCHANGED request
  PROVE  RequestsInv'
<1>1. ASSUME NEW o \in Requests
      PROVE  request'[o] = Idle \/ (request'[o] \in Request /\ InStep(request[o])')
  <2>1. PICK d : d = request[o]
    OBVIOUS
  <2>2. d = Idle \/ (d \in Request /\ InStep(d)')
    BY <2>1 DEF RequestsInv, OthersKept
  <2>3. request'[o] = d
    BY <2>1
  <2> QED
    BY <2>2, <2>3
<1> QED
  BY <1>1 DEF RequestsInv

LEMMA AllLost ==
  ASSUME TablesInv', request' = [q \in Requests |-> Idle]
  PROVE  RequestsInv'
  BY DEF RequestsInv

LEMMA TablesRest ==
  ASSUME TablesInv, UNCHANGED <<log, projection>>
  PROVE  TablesInv' /\ OthersKept
<1>1. \A k \in DOMAIN mailbox' : k[1] \in 1..cursor /\ k[2] \in Participants
  BY DEF TablesInv, Types, projection
<1> QED
  BY <1>1, TablesStay DEF projection

LEMMA NewIs ==
  ASSUME NEW op \in {"publish", "join", "leave", "detach", "alarm", "adopt"},
         NEW who \in Participants \cup {Somebody}, NEW revision \in Nat,
         NEW route \in Routes \cup {NoRoute}, NEW bound \in Nat \cup {NoBound},
         NEW x, x = New(op, who, revision, route, bound)
  PROVE  /\ x \in Request
         /\ x.op = op /\ x.who = who /\ x.route = route /\ x.bound = bound
         /\ x.event = 0 /\ x.from = 0 /\ x.upto = 0 /\ x.step = "read" /\ x.then = "read"
<1>1. <<>> \in Seq(Recovery)
  OBVIOUS
<1> QED
  BY <1>1 DEF New, Request

\* A request with one field set anew.
LEMMA SetStep ==
  ASSUME NEW d \in Request, NEW v \in Steps \cup {"page", "append", "reply"}
  PROVE  [d EXCEPT !.step = v] \in Request
  BY DEF Request, Steps

LEMMA SetThen ==
  ASSUME NEW d \in Request, NEW v \in Steps
  PROVE  [d EXCEPT !.then = v] \in Request
  BY DEF Request, Steps

LEMMA SetFact ==
  ASSUME NEW d \in Request, NEW v \in Fact \cup {<<>>}
  PROVE  [d EXCEPT !.fact = v] \in Request
  BY DEF Request

LEMMA SetTodo ==
  ASSUME NEW d \in Request, NEW v \in Seq(Recovery)
  PROVE  [d EXCEPT !.todo = v] \in Request
  BY DEF Request

LEMMA SetSince ==
  ASSUME NEW d \in Request, NEW v \in Nat
  PROVE  [d EXCEPT !.since = v] \in Request
  BY DEF Request

LEMMA SetFrom ==
  ASSUME NEW d \in Request, NEW v \in Nat
  PROVE  [d EXCEPT !.from = v] \in Request
  BY DEF Request

LEMMA SetUpto ==
  ASSUME NEW d \in Request, NEW v \in Nat
  PROVE  [d EXCEPT !.upto = v] \in Request
  BY DEF Request

LEMMA SetFull ==
  ASSUME NEW d \in Request, NEW v \in BOOLEAN
  PROVE  [d EXCEPT !.full = v] \in Request
  BY DEF Request

LEMMA SetEvent ==
  ASSUME NEW d \in Request, NEW v \in Nat
  PROVE  [d EXCEPT !.event = v] \in Request
  BY DEF Request

LEMMA SetFresh ==
  ASSUME NEW d \in Request, NEW v \in BOOLEAN
  PROVE  [d EXCEPT !.fresh = v] \in Request
  BY DEF Request

LEMMA Columns ==
  ASSUME NEW d \in Request
  PROVE  /\ d.who \in Participants \cup {Somebody} /\ d.revision \in Nat
         /\ d.route \in Routes \cup {NoRoute} /\ d.bound \in Nat \cup {NoBound}
         /\ d.step \in Steps \cup {"page", "append", "reply"} /\ d.then \in Steps
         /\ d.fact \in Fact \cup {<<>>} /\ d.todo \in Seq(Recovery)
         /\ {d.since, d.from, d.upto, d.event} \subseteq Nat
         /\ {d.full, d.fresh} \subseteq BOOLEAN
  BY DEF Request, Steps

LEMMA AtIs ==
  ASSUME Types, NEW d \in Request, NEW next \in Steps \cup {"append"}, NEW cur \in Nat,
         NEW x, x = At(d, next, cur)
  PROVE  /\ x \in Request /\ Same(x, d)
         /\ x.step = next /\ x.then = "read"
         /\ x.fact = d.fact /\ x.upto = d.upto
         /\ x.from = IF next = "read" THEN cur ELSE d.from
         /\ next = "read" => x.since = Len(log)
<1>1. PICK n \in Nat : n = Len(log)
  BY DEF Types
<1>2. CASE next = "read"
  <2>1. x = [d EXCEPT !.step = "read", !.then = "read", !.since = n, !.from = cur]
    BY <1>1, <1>2 DEF At
  <2>2. PICK u \in Request : u = [d EXCEPT !.step = "read"]
    BY SetStep DEF Steps
  <2>3. PICK v \in Request : v = [u EXCEPT !.then = "read"]
    BY SetThen DEF Steps
  <2>4. PICK w \in Request : w = [v EXCEPT !.since = n]
    BY SetSince
  <2>5. PICK y \in Request : y = [w EXCEPT !.from = cur]
    BY SetFrom
  <2>6. x = y
    BY <2>1, <2>2, <2>3, <2>4, <2>5 DEF Request
  <2>7. Same(x, d) /\ x.step = "read" /\ x.then = "read" /\ x.fact = d.fact
        /\ x.upto = d.upto /\ x.from = cur /\ x.since = n
    BY <2>1 DEF Request, Same
  <2> QED
    BY <1>1, <1>2, <2>6, <2>7
<1>3. CASE next # "read"
  <2>1. x = [d EXCEPT !.step = next, !.then = "read", !.since = 0]
    BY <1>3 DEF At
  <2>2. PICK u \in Request : u = [d EXCEPT !.step = next]
    BY SetStep DEF Steps
  <2>3. PICK v \in Request : v = [u EXCEPT !.then = "read"]
    BY SetThen DEF Steps
  <2>4. PICK w \in Request : w = [v EXCEPT !.since = 0]
    BY SetSince
  <2>5. x = w
    BY <2>1, <2>2, <2>3, <2>4 DEF Request
  <2>6. Same(x, d) /\ x.step = next /\ x.then = "read" /\ x.fact = d.fact
        /\ x.upto = d.upto /\ x.from = d.from
    BY <2>1 DEF Request, Same
  <2> QED
    BY <1>3, <2>5, <2>6
<1> QED
  BY <1>2, <1>3

\* What a request needs to go on with a step.
MayTake(d, next) ==
  /\ d.op = "publish" => d.event # 0
  /\ next = "decide" => d.op \in {"join", "leave", "detach"}
  /\ next = "fold" => d.from < d.upto /\ d.upto <= Len(log)

LEMMA AtInStep ==
  ASSUME Types, Types', UNCHANGED log, NEW d \in Request, Placed(d)', d.from <= cursor',
         NEW next \in Steps, MayTake(d, next), NEW cur \in Nat, cur <= cursor',
         NEW x, x = At(d, next, cur)
  PROVE  x \in Request /\ InStep(x)'
<1>1. /\ x \in Request /\ Same(x, d)
      /\ x.step = next /\ x.then = "read" /\ x.upto = d.upto
      /\ x.from = IF next = "read" THEN cur ELSE d.from
      /\ next = "read" => x.since = Len(log)
  BY AtIs
<1>2. Placed(x)'
  BY <1>1, PlacedSame
<1>3. x.from <= cursor'
  BY <1>1
<1>4. x.step = "read" => x.from <= x.since
  <2>1. PICK n \in Nat : n = Len(log)
    BY DEF Types
  <2>2. PICK c \in 0..n : c = cursor'
    BY <2>1 DEF Types
  <2> QED
    BY <1>1, <2>1, <2>2
<1>5. "fold" \in {x.step, x.then} => x.from < x.upto /\ x.upto <= Len(log')
  BY <1>1 DEF MayTake
<1>6. x.step # "page" /\ x.step # "append"
  BY <1>1 DEF Steps
<1>7. /\ x.op = "publish" => x.event # 0
      /\ "decide" \in {x.step, x.then} => x.op \in {"join", "leave", "detach"}
  BY <1>1 DEF MayTake, Same
<1> QED
  BY <1>1, <1>2, <1>3, <1>4, <1>5, <1>6, <1>7 DEF InStep

LEMMA RecoveriesAre ==
  ASSUME NEW rel \in [Participants -> Relationship]
  PROVE  Recoveries(rel) \in Seq(Recovery)
<1> DEFINE range(p) == [who |-> p, after |-> rel[p].after, through |-> rel[p].through]
<1> DEFINE S == {range(p) : p \in Recovering(rel)}
<1>1. IsFiniteSet(Recovering(rel))
  BY RequestsAssumption, FS_Subset DEF Recovering
<1>2. IsFiniteSet(S)
  <2> DEFINE f == [p \in Recovering(rel) |-> range(p)]
  <2>1. f \in Surjection(Recovering(rel), S)
    BY DEF Surjection
  <2>2. PICK g, T, U : g = f /\ T = Recovering(rel) /\ U = S
    OBVIOUS
  <2>3. g \in Surjection(T, U) /\ IsFiniteSet(T)
    BY <1>1, <2>1, <2>2
  <2>4. IsFiniteSet(U)
    BY <2>3, FS_Surjection
  <2> QED
    BY <2>2, <2>4
<1>3. SetToSeq(S) \in Seq(S)
  <2> HIDE DEF S
  <2> QED
    BY <1>2, SetAsSeq
<1>4. S \subseteq Recovery
  BY DEF Recovering, Recovery, Relationship
<1>5. SetToSeq(S) \in Seq(Recovery)
  <2> HIDE DEF S
  <2> QED
    BY <1>3, <1>4
<1> QED
  BY <1>5 DEF Recoveries

LEMMA ResumeInStep ==
  ASSUME Types, Types', UNCHANGED log, NEW d \in Request, Placed(d)', d.from <= cursor',
         NEW next \in Steps, MayTake(d, next), NEW cur \in Nat, cur <= cursor',
         NEW rel \in [Participants -> Relationship],
         NEW x, x = Resume(d, rel, cur, next)
  PROVE  x \in Request /\ InStep(x)'
<1>1. PICK todo : todo = Recoveries(rel)
  OBVIOUS
<1>2. PICK n \in Nat : n = Len(log)
  BY DEF Types
<1>3. CASE todo = <<>>
  <2>1. x = At(d, next, cur)
    BY <1>1, <1>3 DEF Resume
  <2> QED
    BY <2>1, AtInStep
<1>4. CASE todo # <<>>
  <2>1. todo \in Seq(Recovery)
    BY <1>1, RecoveriesAre
  <2>2. x = [d EXCEPT !.todo = todo, !.step = "page", !.since = n, !.then = next]
    BY <1>1, <1>2, <1>4 DEF Resume
  <2>3. PICK u \in Request : u = [d EXCEPT !.todo = todo]
    BY <2>1, SetTodo
  <2>4. PICK v \in Request : v = [u EXCEPT !.step = "page"]
    BY SetStep
  <2>5. PICK w \in Request : w = [v EXCEPT !.since = n]
    BY SetSince
  <2>6. PICK y \in Request : y = [w EXCEPT !.then = next]
    BY SetThen
  <2>7. x = y
    BY <2>2, <2>3, <2>4, <2>5, <2>6 DEF Request
  <2>8. Same(x, d) /\ x.step = "page" /\ x.then = next /\ x.todo = todo
        /\ x.upto = d.upto /\ x.from = d.from
    BY <2>2 DEF Request, Same
  <2>9. Placed(x)'
    BY <2>8, PlacedSame
  <2>10. "fold" \in {x.step, x.then} => x.from < x.upto /\ x.upto <= Len(log')
    BY <2>8 DEF MayTake
  <2>11. /\ x.op = "publish" => x.event # 0
         /\ "decide" \in {x.step, x.then} => x.op \in {"join", "leave", "detach"}
    BY <2>8 DEF MayTake, Same
  <2> QED
    BY <1>4, <2>6, <2>7, <2>8, <2>9, <2>10, <2>11 DEF InStep
<1> QED
  BY <1>3, <1>4

(***************************************************************************)
(* Arrivals.                                                               *)
(***************************************************************************)

\* A request that starts with the recoveries that are pending.
LEMMA ServeInStep ==
  ASSUME RequestsInv, TablesInv', OthersKept, UNCHANGED <<log, cursor, relationship>>,
         NEW q \in Requests, NEW d \in Request, Placed(d), d.op # "publish", d.from = 0,
         Serve(q, Resume(d, relationship, cursor, "read"))
  PROVE  RequestsInv'
<1>1. PICK x : x = Resume(d, relationship, cursor, "read")
  OBVIOUS
<1>2. PICK cur \in Nat : cur = cursor
  BY DEF RequestsInv, TablesInv, Types
<1>3. PICK rel \in [Participants -> Relationship] : rel = relationship
  BY DEF RequestsInv, TablesInv, Types
<1>4. Types /\ Types'
  BY DEF RequestsInv, TablesInv
<1>5. Placed(d)'
  BY <1>2, <1>4, PlacedStays
<1>6. MayTake(d, "read") /\ "read" \in Steps
  BY DEF MayTake, Steps
<1>7. d.from <= cursor' /\ cur <= cursor'
  BY <1>2
<1>8. x = Resume(d, rel, cur, "read")
  BY <1>1, <1>2, <1>3
<1>9. x \in Request /\ InStep(x)'
  BY <1>4, <1>5, <1>6, <1>7, <1>8, ResumeInStep
<1>10. request' = [request EXCEPT ![q] = x]
  BY <1>1 DEF Serve
<1> QED
  BY <1>9, <1>10, MoveOn

LEMMA PublishKeeps ==
  ASSUME RequestsInv, NEW q \in Requests, NEW S \in SUBSET Participants, S # {}, Publish(q, S)
  PROVE  RequestsInv'
<1>1. PICK p : p = CHOOSE o \in S : TRUE
  OBVIOUS
<1>2. p \in Participants
  <2>1. \E o \in S : TRUE
    OBVIOUS
  <2>2. (CHOOSE o \in S : TRUE) \in S
    BY <2>1
  <2> QED
    BY <1>1, <2>2
<1>0. PICK none \in Nat \cup {NoBound} : none = NoBound
  OBVIOUS
<1>3. PICK d : d = New("publish", p, 0, NoRoute, none)
  OBVIOUS
<1>4. d \in Request /\ d.op = "publish" /\ d.who = p /\ d.event = 0 /\ d.from = 0 /\ d.then = "read"
  BY <1>2, <1>3, NewIs
<1>5. PICK f : f = Message(S)
  OBVIOUS
<1>6. f \in Fact /\ f.type = "message"
  BY <1>5 DEF Message, Fact
<1>7. PICK x : x = [d EXCEPT !.fact = f, !.step = "append"]
  OBVIOUS
<1>8. request' = [request EXCEPT ![q] = x]
  BY <1>0, <1>1, <1>3, <1>5, <1>7 DEF Publish, Serve
<1>9. PICK u \in Request : u = [d EXCEPT !.fact = f]
  BY <1>4, <1>6, SetFact
<1>10. x = [u EXCEPT !.step = "append"]
  BY <1>4, <1>7, <1>9 DEF Request
<1>11. x \in Request
  BY <1>9, <1>10, SetStep
<1>12. /\ x.op = "publish" /\ x.event = 0 /\ x.from = 0 /\ x.then = "read"
       /\ x.step = "append" /\ x.fact = f
  BY <1>4, <1>7 DEF Request
<1>13. TablesInv /\ TablesInv' /\ OthersKept
  BY TablesRest DEF RequestsInv, Publish
<1>14. Placed(x)
  BY <1>12, <1>13 DEF Placed, TablesInv, Types
<1>15. InStep(x)
  BY <1>6, <1>12, <1>13, <1>14 DEF InStep, Due, TablesInv, Types
<1> QED
  BY <1>8, <1>11, <1>13, <1>15, MoveOn DEF OthersKept

LEMMA JoinKeeps ==
  ASSUME RequestsInv, NEW q \in Requests, NEW p \in Participants, NEW route \in Routes,
         Join(q, p, route)
  PROVE  RequestsInv'
<1>1. TablesInv /\ TablesInv' /\ OthersKept
  BY TablesRest DEF RequestsInv, Join
<1>2. relationship[p].revision \in Nat
  BY <1>1 DEF TablesInv, Types, Relationship
<1>3. PICK r \in Nat :
        Serve(q, Resume(New("join", p, r, route, NoBound), relationship, cursor, "read"))
  <2>1. PICK v \in Nat : v = relationship[p].revision
    BY <1>2
  <2>2. \E r \in {v, v + 1} \ {0} :
          Serve(q, Resume(New("join", p, r, route, NoBound), relationship, cursor, "read"))
    BY <2>1 DEF Join
  <2>3. \A r \in {v, v + 1} \ {0} : r \in Nat
    OBVIOUS
  <2> QED
    BY <2>2, <2>3
<1>4. route \in Routes \cup {NoRoute}
  OBVIOUS
<1>0. PICK none \in Nat \cup {NoBound} : none = NoBound
  OBVIOUS
<1>5. PICK d : d = New("join", p, r, route, none)
  OBVIOUS
<1>6. d \in Request /\ d.op = "join" /\ d.who = p /\ d.route = route /\ d.event = 0 /\ d.from = 0
  BY <1>4, <1>5, NewIs
<1>7. Placed(d)
  BY <1>1, <1>6 DEF Placed, TablesInv, Types
<1> QED
  BY <1>0, <1>1, <1>3, <1>5, <1>6, <1>7, ServeInStep DEF Join, projection

LEMMA LeaveKeeps ==
  ASSUME RequestsInv, NEW q \in Requests, NEW p \in Participants, Leave(q, p)
  PROVE  RequestsInv'
<1>1. TablesInv /\ TablesInv' /\ OthersKept
  BY TablesRest DEF RequestsInv, Leave
<1>2. PICK r \in Nat : r = relationship[p].revision + 1
  BY <1>1 DEF TablesInv, Types, Relationship
<1>0. PICK none \in Nat \cup {NoBound} : none = NoBound
  OBVIOUS
<1>3. PICK d : d = New("leave", p, r, NoRoute, none)
  OBVIOUS
<1>4. d \in Request /\ d.op = "leave" /\ d.who = p /\ d.event = 0 /\ d.from = 0
  BY SMTT(20), <1>2, <1>3, NewIs
<1>5. Placed(d)
  BY <1>1, <1>4 DEF Placed, TablesInv, Types
<1>6. Serve(q, Resume(d, relationship, cursor, "read"))
  BY <1>0, <1>2, <1>3 DEF Leave
<1> QED
  BY <1>1, <1>4, <1>5, <1>6, ServeInStep DEF Leave, projection

\* A detachment, whatever becomes of the rows meanwhile.
LEMMA DetachKeeps ==
  ASSUME RequestsInv, NEW q \in Requests, NEW p \in Participants,
         NEW bound \in Nat \cup {NoBound}, bound <= cursor, Detach(q, p, bound),
         TablesInv', OthersKept
  PROVE  RequestsInv'
<1>1. PICK d : d = New("detach", p, 0, NoRoute, bound)
  OBVIOUS
<1>2. d \in Request /\ d.op = "detach" /\ d.who = p /\ d.bound = bound /\ d.event = 0
      /\ d.from = 0
  BY <1>1, NewIs
<1>3. Placed(d)
  BY <1>2 DEF Placed, RequestsInv, TablesInv, Types
<1>4. Serve(q, Resume(d, relationship, cursor, "read"))
      /\ UNCHANGED <<log, cursor, relationship>>
  BY <1>1 DEF Detach
<1> QED
  BY <1>2, <1>3, <1>4, ServeInStep

LEMMA UnavailableKeeps ==
  ASSUME RequestsInv, NEW q \in Requests, NEW k \in DOMAIN mailbox, Unavailable(q, k)
  PROVE  RequestsInv'
<1>1. PICK c \in Nat : c = cursor
  BY DEF RequestsInv, TablesInv, Types
<1>2. k[1] \in 1..c /\ k[2] \in Participants
  BY <1>1 DEF RequestsInv, TablesInv, Types
<1>3. TablesInv' /\ OthersKept
  BY TablesClose DEF RequestsInv, Unavailable, Detach
<1>4. PICK b \in Nat : b = k[1] - 1 /\ b <= c
  BY <1>2
<1>5. Detach(q, k[2], b)
  BY <1>4 DEF Unavailable
<1> QED
  BY <1>1, <1>2, <1>3, <1>4, <1>5, DetachKeeps

LEMMA AlarmKeeps ==
  ASSUME RequestsInv, NEW q \in Requests, Alarm(q)
  PROVE  RequestsInv'
<1>1. TablesInv /\ TablesInv' /\ OthersKept
  BY TablesRest DEF RequestsInv, Alarm
<1>0. PICK none \in Nat \cup {NoBound} : none = NoBound
  OBVIOUS
<1>2. PICK u : u = New("alarm", Somebody, 0, NoRoute, none)
  OBVIOUS
<1>3. u \in Request /\ u.op = "alarm" /\ u.event = 0 /\ u.from = 0
  BY <1>2, NewIs
<1>4. PICK b \in BOOLEAN : b = (Claimable(mailbox) # {})
  OBVIOUS
<1>5. PICK d \in Request : d = [u EXCEPT !.fresh = b]
  BY <1>3, SetFresh
<1>6. d.op = "alarm" /\ d.event = 0 /\ d.from = 0
  BY <1>3, <1>5 DEF Request
<1>7. Placed(d)
  BY <1>1, <1>6 DEF Placed, TablesInv, Types
<1>8. Serve(q, Resume(d, relationship, cursor, "read"))
  BY <1>0, <1>2, <1>4, <1>5 DEF Alarm, Somebody
<1> QED
  BY <1>1, <1>6, <1>7, <1>8, ServeInStep DEF Alarm, projection

LEMMA AdoptKeeps ==
  ASSUME RequestsInv, NEW q \in Requests, Adopt(q)
  PROVE  RequestsInv'
<1>1. TablesInv /\ TablesInv' /\ OthersKept
  BY TablesClose DEF RequestsInv, Adopt
<1>0. PICK none \in Nat \cup {NoBound} : none = NoBound
  OBVIOUS
<1>2. PICK u : u = New("adopt", Somebody, 0, NoRoute, none)
  OBVIOUS
<1>3. u \in Request /\ u.op = "adopt" /\ u.event = 0 /\ u.from = 0
  BY <1>2, NewIs
<1>4. PICK d \in Request : d = [u EXCEPT !.fresh = TRUE]
  BY <1>3, SetFresh
<1>5. d.op = "adopt" /\ d.event = 0 /\ d.from = 0
  BY <1>3, <1>4 DEF Request
<1>6. Placed(d)
  BY <1>1, <1>5 DEF Placed, TablesInv, Types
<1>7. Serve(q, Resume(d, relationship, cursor, "read"))
  BY <1>0, <1>2, <1>4 DEF Adopt, Somebody
<1> QED
  BY <1>1, <1>5, <1>6, <1>7, ServeInStep DEF Adopt

(***************************************************************************)
(* Answers, and what a request does with them.                             *)
(***************************************************************************)

LEMMA Serving ==
  ASSUME RequestsInv, NEW q \in Requests, NEW d, d = request[q], d # Idle
  PROVE  d \in Request /\ InStep(d) /\ Placed(d) /\ d.from <= cursor
  BY DEF RequestsInv, InStep

LEMMA ThrowKeeps ==
  ASSUME RequestsInv, NEW q \in Requests, Throw(q), UNCHANGED log
  PROVE  RequestsInv'
<1>1. TablesInv' /\ OthersKept
  BY TablesRest DEF RequestsInv, Throw
<1> QED
  BY <1>1, MoveOn DEF Throw

\* A request ends, or goes on as d.
LEMMA ProceedKeeps ==
  ASSUME RequestsInv, TablesInv', OthersKept, NEW q \in Requests,
         NEW d \in Request, InStep(d)', NEW box, Proceed(q, d, box)
  PROVE  RequestsInv'
<1>1. \/ request' = [request EXCEPT ![q] = Idle]
      \/ request' = [request EXCEPT ![q] = d]
  BY DEF Proceed, End, Goto
<1>2. CASE request' = [request EXCEPT ![q] = Idle]
  BY <1>2, MoveOn
<1>3. CASE request' = [request EXCEPT ![q] = d]
  BY <1>3, MoveOn
<1> QED
  BY <1>1, <1>2, <1>3

LEMMA RecoveryPageKeeps ==
  ASSUME RequestsInv, NEW q \in Requests, RecoveryPage(q)
  PROVE  RequestsInv'
<1>1. PICK d : d = request[q]
  OBVIOUS
<1>2. d # Idle /\ d.step = "page" /\ UNCHANGED log
  BY <1>1 DEF RecoveryPage
<1>3. d \in Request /\ InStep(d) /\ Placed(d) /\ d.from <= cursor /\ d.todo # <<>>
  BY <1>1, <1>2, Serving DEF InStep
<1>4. d.todo \in Seq(Recovery) /\ d.then \in Steps /\ d.since \in Nat
  BY <1>3, Columns
<1>5. PICK h \in Recovery : h = Head(d.todo)
  BY <1>3, <1>4
<1>6. PICK rest \in Seq(Recovery) : rest = Tail(d.todo)
  BY <1>3, <1>4, HeadTailProperties
<1>7. h.who \in Participants /\ h.after \in Nat /\ h.through \in Nat
  BY DEF Recovery
<1>8. PICK r : r = relationship[h.who]
  OBVIOUS
<1>9. CASE Throw(q)
  BY <1>2, <1>9, ThrowKeeps
<1>10. CASE ~Throw(q)
  <2>1. PICK n \in d.since..Len(log) :
          LET last == Min({h.after + PageLimit, h.through, n})
              todo == IF last = h.through THEN rest ELSE <<[h EXCEPT !.after = last]>> \o rest
              further == [d EXCEPT !.todo = todo,
                                   !.fresh = @ \/ DOMAIN mailbox' # DOMAIN mailbox]
          IN
          /\ Advance(h.who, h.after + 1, last)
          /\ Proceed(q, IF todo = <<>> THEN At(further, d.then, cursor)
                        ELSE [further EXCEPT !.since = Len(log)], mailbox')
    BY <1>1, <1>5, <1>6, <1>10 DEF RecoveryPage
  <2>2. PICK last \in Nat : last = Min({h.after + PageLimit, h.through, n})
    <3>1. PageLimit \in Nat
      BY RequestsAssumption
    <3>2. n \in Nat
      BY <1>4, <2>1
    <3>3. {h.after + PageLimit, h.through, n} \in SUBSET Nat
      BY <1>7, <3>1, <3>2
    <3>4. {h.after + PageLimit, h.through, n} # {}
      OBVIOUS
    <3>5. Min({h.after + PageLimit, h.through, n}) \in {h.after + PageLimit, h.through, n}
      BY <3>3, <3>4, MinNat
    <3> QED
      BY <3>3, <3>5
  <2>3. PICK todo \in Seq(Recovery) :
          todo = IF last = h.through THEN rest ELSE <<[h EXCEPT !.after = last]>> \o rest
    <3>1. [h EXCEPT !.after = last] \in Recovery
      BY DEF Recovery
    <3>2. PICK g \in Recovery : g = [h EXCEPT !.after = last]
      BY <3>1
    <3>3. <<g>> \o rest \in Seq(Recovery)
      OBVIOUS
    <3> QED
      BY <3>2, <3>3
  <2>4. PICK b \in BOOLEAN : b = (d.fresh \/ DOMAIN mailbox' # DOMAIN mailbox)
    OBVIOUS
  <2>5. PICK u \in Request : u = [d EXCEPT !.todo = todo]
    BY <1>3, SetTodo
  <2>6. PICK further \in Request : further = [u EXCEPT !.fresh = b]
    BY SetFresh
  <2>7. further = [d EXCEPT !.todo = todo, !.fresh = @ \/ DOMAIN mailbox' # DOMAIN mailbox]
    BY <1>3, <2>4, <2>5, <2>6 DEF Request
  <2>8. /\ Same(further, d) /\ further.from = d.from /\ further.upto = d.upto
        /\ further.step = d.step /\ further.then = d.then /\ further.todo = todo
    BY <1>3, <2>5, <2>6 DEF Request, Same
  <2>9. /\ Advance(h.who, h.after + 1, last)
        /\ Proceed(q, IF todo = <<>> THEN At(further, d.then, cursor)
                      ELSE [further EXCEPT !.since = Len(log)], mailbox')
    BY <2>1, <2>2, <2>3, <2>7
  <2>10. TablesInv /\ TablesInv' /\ OthersKept
    <3>1. PICK from \in Nat : from = h.after + 1
      BY <1>7
    <3>2. Advance(h.who, from, last)
      BY <2>9, <3>1
    <3> QED
      BY <1>2, <1>7, <3>2, TablesAdvance DEF RequestsInv
  <2>11. PICK cur \in Nat : cur = cursor /\ cursor' = cur
    BY SMTT(20), <2>9, <2>10 DEF Advance, TablesInv, Types
  <2>12. InStep(d)'
    BY <1>3, <2>10 DEF OthersKept
  <2>13. Placed(further)'
    BY <2>8, <2>12, PlacedSame DEF InStep
  <2>14. PICK box : box = mailbox'
    OBVIOUS
  <2>15. CASE todo = <<>>
    <3>1. PICK x : x = At(further, d.then, cur)
      OBVIOUS
    <3>2. Proceed(q, x, box)
      BY <2>9, <2>11, <2>14, <2>15, <3>1
    <3>3. MayTake(further, d.then)
      BY <1>2, <1>3, <2>8 DEF MayTake, InStep, Same
    <3>4. further.from <= cursor' /\ cur <= cursor'
      BY <1>3, <2>8, <2>11
    <3>5. x \in Request /\ InStep(x)'
      BY <1>2, <1>4, <2>10, <2>13, <3>1, <3>3, <3>4, AtInStep DEF TablesInv
    <3> QED
      BY <2>10, <3>2, <3>5, ProceedKeeps
  <2>16. CASE todo # <<>>
    <3>1. PICK m \in Nat : m = Len(log)
      BY DEF RequestsInv, TablesInv, Types
    <3>2. PICK x \in Request : x = [further EXCEPT !.since = m]
      BY SetSince
    <3>3. Proceed(q, x, box)
      BY <2>9, <2>14, <2>16, <3>1, <3>2
    <3>4. Same(x, further) /\ x.from = d.from /\ x.upto = d.upto
          /\ x.step = "page" /\ x.then = d.then /\ x.todo = todo
      BY <1>2, <2>8, <3>2 DEF Request, Same
    <3>5. Placed(x)'
      BY <2>13, <3>4, PlacedSame
    <3>6. InStep(x)'
      BY <1>2, <2>8, <2>12, <2>16, <3>4, <3>5 DEF InStep, Same
    <3> QED
      BY <2>10, <3>3, <3>6, ProceedKeeps
  <2> QED
    BY <2>15, <2>16
<1> QED
  BY <1>9, <1>10

\* The fold of the next event, for a request that then goes on with next.
LEMMA FoldAndResumeKeeps ==
  ASSUME RequestsInv, NEW q \in Requests, NEW d \in Request, Placed(d),
         NEW e \in 1..Len(log), e = cursor + 1, d.from <= e,
         NEW next \in Steps, MayTake(d, next),
         FoldAndResume(q, d, e, next), UNCHANGED log
  PROVE  RequestsInv'
<1>1. CASE Recovering(relationship) # {}
  BY <1>1, ThrowKeeps DEF FoldAndResume
<1>2. CASE Recovering(relationship) = {}
  <2>1. /\ Fold(log[e], e)
        /\ Proceed(q, Resume([d EXCEPT !.fresh = @ \/ DOMAIN mailbox' # DOMAIN mailbox],
                             relationship', e, next), mailbox')
    BY <1>2 DEF FoldAndResume
  <2>2. TablesInv /\ TablesInv' /\ OthersKept /\ cursor' = e
    BY <2>1, TablesFold DEF RequestsInv
  <2>3. PICK b \in BOOLEAN : b = (d.fresh \/ DOMAIN mailbox' # DOMAIN mailbox)
    OBVIOUS
  <2>4. PICK u \in Request : u = [d EXCEPT !.fresh = b]
    BY SetFresh
  <2>5. Same(u, d) /\ u.from = d.from /\ u.upto = d.upto
    BY <2>4 DEF Request, Same
  <2>6. Placed(u)'
    <3>1. PICK c \in Nat : c = cursor
      BY <2>2 DEF TablesInv, Types
    <3>2. cursor <= cursor'
      BY <2>2, <3>1
    <3>3. Placed(d)'
      BY <2>2, <3>2, PlacedStays DEF TablesInv
    <3> QED
      BY <2>5, <3>3, PlacedSame
  <2>7. PICK rel \in [Participants -> Relationship] : rel = relationship'
    BY <2>2 DEF TablesInv, Types
  <2>8. PICK x : x = Resume(u, rel, e, next)
    OBVIOUS
  <2>9. PICK box : box = mailbox'
    OBVIOUS
  <2>10. Proceed(q, x, box)
    BY <2>1, <2>3, <2>4, <2>7, <2>8, <2>9
  <2>11. MayTake(u, next)
    BY <2>5 DEF MayTake, Same
  <2>12. e \in Nat /\ e <= cursor' /\ u.from <= cursor'
    BY <2>2, <2>5
  <2>13. x \in Request /\ InStep(x)'
    BY <2>2, <2>6, <2>8, <2>11, <2>12, ResumeInStep DEF TablesInv
  <2> QED
    BY <2>2, <2>10, <2>13, ProceedKeeps
<1> QED
  BY <1>1, <1>2

\* A request goes on without a step of the tables.
LEMMA AtKeeps ==
  ASSUME RequestsInv, NEW q \in Requests, NEW d \in Request, Placed(d), d.from <= cursor,
         NEW next \in Steps, MayTake(d, next), UNCHANGED <<log, projection>>,
         NEW box, Proceed(q, At(d, next, cursor), box)
  PROVE  RequestsInv'
<1>1. TablesInv /\ TablesInv' /\ OthersKept
  BY TablesRest DEF RequestsInv
<1>2. PICK cur \in Nat : cur = cursor /\ cursor' = cur
  BY <1>1 DEF TablesInv, Types, projection
<1>3. Placed(d)'
  BY <1>1, <1>2, PlacedStays DEF TablesInv
<1>4. PICK x : x = At(d, next, cur)
  OBVIOUS
<1>5. x \in Request /\ InStep(x)'
  BY <1>1, <1>2, <1>3, <1>4, AtInStep DEF TablesInv
<1>6. Proceed(q, x, box)
  BY <1>2, <1>4
<1> QED
  BY <1>1, <1>5, <1>6, ProceedKeeps

LEMMA ResumeKeeps ==
  ASSUME RequestsInv, NEW q \in Requests, NEW d \in Request, Placed(d), d.from <= cursor,
         NEW next \in Steps, MayTake(d, next), UNCHANGED <<log, projection>>,
         NEW box, \/ Proceed(q, Resume(d, relationship, cursor, next), box)
                  \/ Goto(q, Resume(d, relationship, cursor, next))
  PROVE  RequestsInv'
<1>1. TablesInv /\ TablesInv' /\ OthersKept
  BY TablesRest DEF RequestsInv
<1>2. PICK cur \in Nat : cur = cursor /\ cursor' = cur
  BY <1>1 DEF TablesInv, Types, projection
<1>3. Placed(d)'
  BY <1>1, <1>2, PlacedStays DEF TablesInv
<1>4. PICK rel \in [Participants -> Relationship] : rel = relationship
  BY <1>1 DEF TablesInv, Types
<1>5. PICK x : x = Resume(d, rel, cur, next)
  OBVIOUS
<1>6. x \in Request /\ InStep(x)'
  BY <1>1, <1>2, <1>3, <1>5, ResumeInStep DEF TablesInv
<1>7. Proceed(q, x, box) \/ Goto(q, x)
  BY <1>2, <1>4, <1>5
<1>8. CASE Goto(q, x)
  BY <1>1, <1>6, <1>8, MoveOn DEF Goto
<1> QED
  BY <1>1, <1>6, <1>7, <1>8, ProceedKeeps

LEMMA DeriveAppendedKeeps ==
  ASSUME RequestsInv, NEW q \in Requests, DeriveAppended(q)
  PROVE  RequestsInv'
<1>1. PICK d : d = request[q]
  OBVIOUS
<1>2. d # Idle /\ d.step = "derive" /\ UNCHANGED log
  BY <1>1 DEF DeriveAppended
<1>3. d \in Request /\ InStep(d) /\ Placed(d) /\ d.from <= cursor
  BY <1>1, <1>2, Serving
<1>4. cursor \in Nat /\ Len(log) \in Nat /\ d.from \in Nat /\ d.event \in 0..Len(log)
  BY <1>3, Columns DEF RequestsInv, TablesInv, Types, Placed
<1>5. \A next \in {"finish", "read"} : next \in Steps /\ MayTake(d, next)
  BY <1>2, <1>3 DEF Steps, MayTake, InStep
<1>6. CASE d.event = cursor + 1
  <2>1. PICK e \in 1..Len(log) : e = d.event
    BY <1>4, <1>6
  <2>2. d.from <= e /\ e = cursor + 1
    BY <1>3, <1>4, <1>6, <2>1
  <2>3. FoldAndResume(q, d, e, "finish")
    BY <1>1, <1>6, <2>1 DEF DeriveAppended
  <2> QED
    BY <1>2, <1>3, <1>5, <2>2, <2>3, FoldAndResumeKeeps
<1>7. CASE d.event # cursor + 1
  <2>1. PICK next \in {"finish", "read"} : next = IF d.event <= cursor THEN "finish" ELSE "read"
    OBVIOUS
  <2>2. Proceed(q, At(d, next, cursor), mailbox) /\ UNCHANGED projection
    BY <1>1, <1>7, <2>1 DEF DeriveAppended
  <2>3. PICK box : box = mailbox
    OBVIOUS
  <2>4. Proceed(q, At(d, next, cursor), box)
    BY <2>2, <2>3
  <2> QED
    BY <1>2, <1>3, <1>5, <2>2, <2>4, AtKeeps
<1> QED
  BY <1>6, <1>7

LEMMA ReadReplyKeeps ==
  ASSUME RequestsInv, NEW q \in Requests, ReadReply(q)
  PROVE  RequestsInv'
<1>1. PICK d : d = request[q]
  OBVIOUS
<1>2. d # Idle /\ d.step = "read" /\ UNCHANGED <<log, projection>>
  BY <1>1 DEF ReadReply
<1>3. d \in Request /\ InStep(d) /\ Placed(d) /\ d.from <= cursor
  BY <1>1, <1>2, Serving
<1>4. TablesInv /\ TablesInv' /\ OthersKept
  BY <1>2, TablesRest DEF RequestsInv
<1>5. PICK m \in Nat : m = Len(log)
  BY DEF RequestsInv, TablesInv, Types
<1>6. PICK cur \in Nat : cur = cursor /\ cursor' = cur
  BY <1>2 DEF RequestsInv, TablesInv, Types, projection
<1>7. d.from \in Nat /\ d.since \in Nat /\ d.from <= d.since
  BY <1>2, <1>3, Columns DEF InStep
<1>8. PICK n \in d.since..m :
        LET upto == Min({d.from + PageLimit, n}) IN
        Proceed(q, IF upto = d.from THEN [At(d, Done(d), cur) EXCEPT !.from = 0]
                   ELSE [At(d, "fold", cur) EXCEPT
                           !.upto = upto, !.full = (upto = d.from + PageLimit)], mailbox)
  BY <1>1, <1>5, <1>6 DEF ReadReply
<1>9. PICK upto \in Nat : /\ upto = Min({d.from + PageLimit, n})
                          /\ upto <= m /\ d.from <= upto
  <2>1. PICK limit \in Nat \ {0} : limit = PageLimit
    BY RequestsAssumption
  <2>2. n \in Nat /\ n <= m /\ d.from <= n /\ d.from + limit \in Nat
    BY <1>5, <1>7
  <2>3. PICK u : u = Min({d.from + limit, n})
    OBVIOUS
  <2>4. u \in {d.from + limit, n} /\ u <= n
    BY <2>2, <2>3, MinOfTwo
  <2>5. u \in Nat /\ u <= m /\ d.from <= u
    BY <1>5, <1>7, <2>2, <2>4
  <2> QED
    BY <2>1, <2>3, <2>5
<1>10. PICK box : box = mailbox
  OBVIOUS
<1>11. CASE upto = d.from
  <2>1. PICK next : next = Done(d)
    OBVIOUS
  <2>2. next \in Steps \cup {"append"} /\ next # "read" /\ next # "fold" /\ next # "append"
        /\ MayTake(d, next)
    BY <1>2, <1>3, <2>1 DEF Steps, MayTake, Done, InStep, Request
  <2>3. PICK y : y = At(d, next, cur)
    OBVIOUS
  <2>4. y \in Request /\ Same(y, d) /\ y.step = next /\ y.then = "read"
    BY <1>3, <1>4, <2>2, <2>3, AtIs DEF TablesInv
  <2>5. PICK x \in Request : x = [y EXCEPT !.from = 0]
    BY <2>4, SetFrom
  <2>6. Same(x, d) /\ x.step = next /\ x.then = "read" /\ x.from = 0
    BY <2>4, <2>5 DEF Request, Same
  <2>7. Proceed(q, x, box)
    BY <1>8, <1>9, <1>10, <1>11, <2>1, <2>3, <2>5
  <2>8. Placed(d)'
    BY <1>3, <1>4 DEF OthersKept, InStep
  <2>9. Placed(x)'
    BY <2>6, <2>8, PlacedSame
  <2>10. next \in Steps
    BY <2>2
  <2>11. InStep(x)'
    BY <1>6, <2>2, <2>6, <2>9, <2>10 DEF InStep, Same, MayTake, Steps
  <2> QED
    BY <1>4, <2>7, <2>11, ProceedKeeps
<1>12. CASE upto # d.from
  <2>1. PICK y : y = At(d, "fold", cur)
    OBVIOUS
  <2>2. y \in Request /\ Same(y, d) /\ y.step = "fold" /\ y.then = "read" /\ y.from = d.from
    <3>1. "fold" \in Steps \cup {"append"} /\ "fold" # "read"
      BY DEF Steps
    <3> QED
      BY <1>3, <1>4, <2>1, <3>1, AtIs DEF TablesInv
  <2>3. PICK b \in BOOLEAN : b = (upto = d.from + PageLimit)
    OBVIOUS
  <2>4. PICK u \in Request : u = [y EXCEPT !.upto = upto]
    BY <2>2, SetUpto
  <2>5. PICK x \in Request : x = [u EXCEPT !.full = b]
    BY SetFull
  <2>6. x = [y EXCEPT !.upto = upto, !.full = (upto = d.from + PageLimit)]
    BY <2>2, <2>3, <2>4, <2>5 DEF Request
  <2>7. /\ Same(x, d) /\ x.step = "fold" /\ x.then = "read" /\ x.from = d.from
        /\ x.upto = upto
    BY <2>2, <2>4, <2>5 DEF Request, Same
  <2>8. Proceed(q, x, box)
    BY <1>8, <1>9, <1>10, <1>12, <2>1, <2>6
  <2>9. InStep(d)' /\ Placed(d)'
    BY <1>3, <1>4 DEF OthersKept, InStep
  <2>10. Placed(x)'
    BY <2>7, <2>9, PlacedSame
  <2>11. x.from < x.upto /\ x.upto <= Len(log')
    BY <1>2, <1>5, <1>7, <1>9, <1>12, <2>7
  <2>12. x.op = "publish" => x.event # 0
    BY <1>2, <1>3, <2>7 DEF InStep, Same
  <2>13. x.from <= cursor'
    BY <1>3, <1>6, <2>7
  <2>14. InStep(x)'
    BY <2>7, <2>10, <2>11, <2>12, <2>13 DEF InStep
  <2> QED
    BY <1>4, <2>8, <2>14, ProceedKeeps
<1> QED
  BY <1>11, <1>12

LEMMA FoldNextKeeps ==
  ASSUME RequestsInv, NEW q \in Requests, FoldNext(q)
  PROVE  RequestsInv'
<1>1. PICK d : d = request[q]
  OBVIOUS
<1>2. d # Idle /\ d.step = "fold" /\ UNCHANGED log
  BY <1>1 DEF FoldNext
<1>3. d \in Request /\ InStep(d) /\ Placed(d) /\ d.from <= cursor
      /\ d.from < d.upto /\ d.upto <= Len(log)
  BY <1>1, <1>2, Serving DEF InStep
<1>4. cursor \in Nat /\ Len(log) \in Nat /\ {d.from, d.upto} \subseteq Nat
      /\ {d.full} \subseteq BOOLEAN
  BY <1>3, Columns DEF RequestsInv, TablesInv, Types
<1>5. PICK e \in 1..Len(log) : e = d.from + 1 /\ e <= d.upto
  <2>1. PICK from \in Nat : from = d.from
    BY <1>4
  <2>2. PICK upto \in Nat : upto = d.upto
    BY <1>4
  <2>3. PICK n \in Nat : n = Len(log)
    BY <1>4
  <2>4. from < upto /\ upto <= n
    BY <1>3, <2>1, <2>2, <2>3
  <2>5. PICK x \in 1..n : x = from + 1 /\ x <= upto
    BY <2>4
  <2>6. x = d.from + 1 /\ x <= d.upto /\ x \in 1..Len(log)
    BY <2>1, <2>2, <2>3, <2>5
  <2> QED
    BY <2>6
<1>6. PICK more \in BOOLEAN : more = (e < d.upto)
  <2>1. CASE e < d.upto
    <3>1. (e < d.upto) = TRUE
      BY <2>1
    <3> QED
      BY <3>1
  <2>2. CASE ~(e < d.upto)
    <3>1. (e < d.upto) = FALSE
      BY <2>2
    <3> QED
      BY <3>1
  <2> QED
    BY <2>1, <2>2
<1>7. PICK next : next = IF more THEN "fold" ELSE IF d.full THEN "read" ELSE Done(d)
  OBVIOUS
<1>8. PICK from \in Nat : from = IF more THEN e ELSE 0
  BY <1>5
<1>9. PICK upto \in Nat : upto = IF more THEN d.upto ELSE 0
  BY <1>4
<1>10. PICK full \in BOOLEAN : full = (more /\ d.full)
  OBVIOUS
<1>11. PICK u \in Request : u = [d EXCEPT !.from = from]
  BY <1>3, SetFrom
<1>12. PICK v \in Request : v = [u EXCEPT !.upto = upto]
  BY SetUpto
<1>13. PICK after \in Request : after = [v EXCEPT !.full = full]
  BY SetFull
<1>14. after = [d EXCEPT !.from = IF more THEN e ELSE 0, !.upto = IF more THEN @ ELSE 0,
                         !.full = more /\ @]
  BY <1>3, <1>8, <1>9, <1>10, <1>11, <1>12, <1>13 DEF Request
<1>15. Same(after, d) /\ after.from = from /\ after.upto = upto
  BY <1>3, <1>11, <1>12, <1>13 DEF Request, Same
<1>16. Placed(after)
  BY <1>3, <1>15 DEF Placed, Same
<1>17. next \in Steps
  BY <1>7 DEF Steps, Done
<1>18. MayTake(after, next)
  <2>1. after.op = "publish" => after.event # 0
    BY <1>2, <1>3, <1>15 DEF InStep, Same
  <2>2. next = "decide" => after.op \in {"join", "leave", "detach"}
    BY <1>2, <1>3, <1>7, <1>15 DEF InStep, Same, Done, Request
  <2>3. next = "fold" => more
    BY <1>7 DEF Done
  <2>4. more => after.from < after.upto /\ after.upto <= Len(log)
    BY <1>3, <1>6, <1>8, <1>9, <1>15
  <2> QED
    BY <2>1, <2>2, <2>3, <2>4 DEF MayTake
<1>19. IF e > cursor THEN FoldAndResume(q, after, e, next)
       ELSE Proceed(q, Resume(after, relationship, cursor, next), mailbox) /\ UNCHANGED projection
  BY <1>1, <1>5, <1>6, <1>7, <1>14 DEF FoldNext
<1>20. from <= e
  BY <1>5, <1>8
<1>21. CASE e > cursor
  <2>1. e = cursor + 1
    BY <1>3, <1>4, <1>5, <1>21
  <2> QED
    BY <1>2, <1>15, <1>16, <1>17, <1>18, <1>19, <1>20, <1>21, <2>1, FoldAndResumeKeeps
<1>22. CASE ~(e > cursor)
  <2>1. after.from <= cursor
    BY <1>4, <1>5, <1>15, <1>20, <1>22
  <2>2. PICK box : box = mailbox
    OBVIOUS
  <2>3. Proceed(q, Resume(after, relationship, cursor, next), box) /\ UNCHANGED projection
    BY <1>19, <1>22, <2>2
  <2> QED
    BY <1>2, <1>16, <1>17, <1>18, <2>1, <2>3, ResumeKeeps
<1> QED
  BY <1>21, <1>22

LEMMA AppendReplyKeeps ==
  ASSUME RequestsInv, NEW q \in Requests, AppendReply(q)
  PROVE  RequestsInv'
<1>1. PICK d : d = request[q]
  OBVIOUS
<1>2. /\ d # Idle /\ d.step = "reply" /\ UNCHANGED <<log, projection>>
      /\ Goto(q, Resume(d, relationship, cursor, "derive"))
  BY <1>1 DEF AppendReply
<1>3. d \in Request /\ InStep(d) /\ Placed(d) /\ d.from <= cursor
  BY <1>1, <1>2, Serving
<1>4. "derive" \in Steps /\ MayTake(d, "derive")
  BY <1>2, <1>3 DEF Steps, MayTake, InStep
<1> QED
  BY <1>2, <1>3, <1>4, ResumeKeeps

LEMMA RearmRetryingKeeps ==
  ASSUME RequestsInv, NEW q \in Requests, RearmRetrying(q)
  PROVE  RequestsInv'
<1>1. TablesInv' /\ OthersKept
  BY TablesClose DEF RequestsInv, RearmRetrying
<1>2. request' = [request EXCEPT ![q] = Idle]
  BY DEF RearmRetrying, End
<1> QED
  BY <1>1, <1>2, MoveOn

\* The watermark of a detachment lies behind what is folded.
LEMMA BoundaryIs ==
  ASSUME Types, NEW p, NEW upper \in Nat
  PROVE  Boundary(p, upper) \in Nat /\ Boundary(p, upper) <= upper
<1>1. PICK rows : rows = {k[1] : k \in LiveRows(p)}
  OBVIOUS
<1>2. \A v \in rows : v \in Nat /\ v > 0
  <2>1. \A k \in LiveRows(p) : k \in DOMAIN mailbox
    BY DEF LiveRows
  <2>2. \A k \in DOMAIN mailbox : k[1] \in Nat /\ k[1] > 0
    BY DEF Types
  <2> QED
    BY <1>1, <2>1, <2>2
<1>3. CASE rows = {}
  <2>1. Boundary(p, upper) = upper
    BY <1>1, <1>3 DEF Boundary
  <2> QED
    BY <2>1
<1>4. CASE rows # {}
  <2>1. rows \in SUBSET Nat
    BY <1>2
  <2>2. PICK m \in rows : m = Min(rows)
    BY <1>4, <2>1, MinNat
  <2>3. m - 1 \in Nat
    BY <1>2
  <2>4. PICK b : b = m - 1
    OBVIOUS
  <2>5. Min({upper, b}) \in {upper, b} /\ Min({upper, b}) <= upper
    BY <2>3, <2>4, MinOfTwo
  <2>6. Boundary(p, upper) = Min({upper, b})
    BY <1>1, <1>4, <2>2, <2>4 DEF Boundary
  <2> QED
    BY <2>3, <2>4, <2>5, <2>6
<1> QED
  BY <1>3, <1>4

\* What is decided where the fold stands is due, however far the log has grown.
LEMMA DecidedIsDue ==
  ASSUME TablesInv, NEW f \in Fact, f.type # "message",
         f.revision = relationship[f.who].revision + 1,
         f.type = "ended" => relationship[f.who].active,
         f.type = "detached" => relationship[f.who].attached /\ f.after <= cursor
  PROVE  Due(f)
<1>1. f.who \in Participants /\ (f.type = "detached" => f.after \in Nat)
  BY FactColumns
<1>2. PICK n \in Nat : n = Len(log)
  BY DEF TablesInv, Types
<1>3. PICK c \in 0..n : c = cursor
  BY <1>2 DEF TablesInv, Types
<1>4. log \in Seq(Fact) /\ Follows(f.who)
  BY <1>1 DEF TablesInv, Types
<1>5. PICK r \in Nat : r = RevisionAt(f.who, c)
  BY <1>1, <1>2, <1>4, RevisionType
<1>6. PICK last \in Nat : last = RevisionAt(f.who, n)
  BY <1>1, <1>2, <1>4, RevisionType
<1>7. r <= last /\ (r = last => LastFact(f.who, c) = LastFact(f.who, n))
  BY <1>1, <1>2, <1>3, <1>5, <1>6 DEF TablesInv, RevisionsAreDense
<1>8. f.revision = r + 1
  BY <1>3, <1>4, <1>5 DEF Follows
<1>9. CASE r < last
  <2>1. f.revision \in 1..last
    BY <1>8, <1>9
  <2> QED
    BY <1>2, <1>6, <2>1 DEF Due
<1>10. CASE r = last
  <2>1. LastFact(f.who, c) = LastFact(f.who, n)
    BY <1>7, <1>10
  <2>2. /\ f.type = "ended" => ActiveAt(f.who, n)
        /\ f.type = "detached" => AttachedAt(f.who, n)
    BY <1>3, <1>4, <2>1 DEF Follows, ActiveAt, AttachedAt
  <2>3. f.type = "detached" => ActiveAt(f.who, n)
    BY <2>2 DEF ActiveAt, AttachedAt
  <2>4. f.type = "detached" => f.after <= n
    BY <1>1, <1>3
  <2>5. Legal(f, n)
    BY <1>6, <1>8, <1>10, <2>2, <2>3, <2>4 DEF Legal
  <2> QED
    BY <1>2, <2>5 DEF Due
<1> QED
  BY <1>7, <1>9, <1>10

LEMMA DecideKeeps ==
  ASSUME RequestsInv, NEW q \in Requests, Decide(q)
  PROVE  RequestsInv'
<1>1. PICK d : d = request[q]
  OBVIOUS
<1>2. d # Idle /\ d.step = "decide" /\ UNCHANGED <<log, projection>>
  BY <1>1 DEF Decide
<1>3. d \in Request /\ InStep(d) /\ Placed(d) /\ d.from <= cursor
      /\ d.op \in {"join", "leave", "detach"}
  BY <1>1, <1>2, Serving DEF InStep
<1>4. TablesInv /\ TablesInv' /\ OthersKept
  BY <1>2, TablesRest DEF RequestsInv
<1>5. PICK cur \in Nat : cur = cursor /\ cursor' = cur
  BY <1>2 DEF RequestsInv, TablesInv, Types, projection
<1>6. d.who \in Participants /\ d.revision \in Nat /\ (d.op = "join" => d.route \in Routes)
      /\ d.bound \in Nat \cup {NoBound} /\ (d.op = "detach" => d.bound <= cur)
  BY <1>3, <1>5, Columns DEF Placed
<1>7. PICK r \in Relationship : r = relationship[d.who]
  BY <1>4, <1>6 DEF TablesInv, Types
<1>8. PICK f : f = CASE d.op = "join" -> Joined(d.who, d.revision, d.route)
                     [] d.op = "leave" -> Ended(d.who, d.revision)
                     [] d.op = "detach" ->
                          Detached(d.who, r.revision + 1,
                                   Boundary(d.who, IF d.bound = NoBound THEN cursor ELSE d.bound))
  OBVIOUS
<1>9. /\ f \in Fact /\ f.who = d.who /\ f.type # "message"
      /\ f.type = "ended" => d.op = "leave"
      /\ f.type = "detached" => d.op = "detach" /\ f.after <= cursor
  <2>1. CASE d.op = "join"
    <3>1. f = Joined(d.who, d.revision, d.route)
      BY <1>8, <2>1
    <3> QED
      BY <1>6, <2>1, <3>1 DEF Joined, Fact
  <2>2. CASE d.op = "leave"
    <3>1. f = Ended(d.who, d.revision)
      BY <1>8, <2>2
    <3> QED
      BY <1>6, <2>2, <3>1 DEF Ended, Fact
  <2>3. CASE d.op = "detach"
    <3>1. PICK upper \in Nat : /\ upper = IF d.bound = NoBound THEN cursor ELSE d.bound
                               /\ upper <= cur
      BY <1>5, <1>6, <2>3
    <3>2. PICK b \in Nat : b = Boundary(d.who, upper) /\ b <= upper
      BY <1>4, BoundaryIs DEF TablesInv
    <3>3. PICK v \in Nat : v = r.revision + 1
      BY DEF Relationship
    <3>4. f = Detached(d.who, v, b)
      BY <1>8, <2>3, <3>1, <3>2, <3>3
    <3>5. b <= cur
      BY <3>1, <3>2
    <3> QED
      BY <1>5, <1>6, <2>3, <3>4, <3>5 DEF Detached, Fact
  <2> QED
    BY <1>3, <2>1, <2>2, <2>3
<1>10. PICK retained, due :
         /\ due => /\ f.revision = r.revision + 1
                   /\ d.op = "leave" => r.active
                   /\ d.op = "detach" => r.attached
         /\ IF retained THEN Goto(q, At(d, "finish", cursor))
            ELSE IF due THEN Goto(q, [At(d, "append", cursor) EXCEPT !.fact = f])
            ELSE End(q, ready \/ d.fresh, mailbox)
  <2> DEFINE keep == d.op = "join" /\ r.attached /\ r.revision = d.revision /\ r.route = d.route
             owed == /\ f.revision = r.revision + 1
                     /\ d.op = "leave" => r.active
                     /\ d.op = "detach" => r.attached
  <2>1. IF keep THEN Goto(q, At(d, "finish", cursor))
        ELSE IF owed THEN Goto(q, [At(d, "append", cursor) EXCEPT !.fact = f])
        ELSE End(q, ready \/ d.fresh, mailbox)
    BY <1>1, <1>7, <1>8 DEF Decide
  <2> QED
    BY <2>1
<1>11. CASE Goto(q, At(d, "finish", cursor))
  <2>1. "finish" \in Steps /\ MayTake(d, "finish")
    BY <1>2, <1>3 DEF Steps, MayTake, InStep
  <2>2. Placed(d)' /\ d.from <= cursor'
    BY <1>3, <1>4 DEF OthersKept, InStep
  <2>3. PICK x : x = At(d, "finish", cur)
    OBVIOUS
  <2>4. x \in Request /\ InStep(x)'
    BY <1>2, <1>3, <1>4, <1>5, <2>1, <2>2, <2>3, AtInStep DEF TablesInv
  <2> QED
    BY <1>4, <1>5, <1>11, <2>3, <2>4, MoveOn DEF Goto
<1>12. CASE due /\ Goto(q, [At(d, "append", cursor) EXCEPT !.fact = f])
  <2>1. Due(f)
    BY <1>4, <1>7, <1>9, <1>10, <1>12, DecidedIsDue
  <2>2. PICK y : y = At(d, "append", cur)
    OBVIOUS
  <2>3. y \in Request /\ Same(y, d) /\ y.step = "append" /\ y.then = "read" /\ y.from = d.from
    BY <1>3, <1>4, <2>2, AtIs DEF TablesInv
  <2>4. PICK x \in Request : x = [y EXCEPT !.fact = f]
    BY <1>9, <2>3, SetFact
  <2>5. /\ Same(x, d) /\ x.step = "append" /\ x.then = "read" /\ x.from = d.from
        /\ x.fact = f
    BY <2>3, <2>4 DEF Request, Same
  <2>6. Placed(d)' /\ d.from <= cursor'
    BY <1>3, <1>4 DEF OthersKept, InStep
  <2>7. Placed(x)'
    BY <2>5, <2>6, PlacedSame
  <2>8. Due(f)'
    BY <1>2, <2>1, LogStays
  <2>9. InStep(x)'
    BY <1>9, <2>5, <2>6, <2>7, <2>8 DEF InStep
  <2>10. request' = [request EXCEPT ![q] = x]
    BY <1>5, <1>12, <2>2, <2>4 DEF Goto
  <2> QED
    BY <1>4, <2>9, <2>10, MoveOn
<1>13. CASE End(q, ready \/ d.fresh, mailbox)
  BY <1>4, <1>13, MoveOn DEF End
<1> QED
  BY <1>10, <1>11, <1>12, <1>13

LEMMA AppendFactKeeps ==
  ASSUME RequestsInv, NEW q \in Requests, AppendFact(q)
  PROVE  RequestsInv'
<1>1. PICK d : d = request[q]
  OBVIOUS
<1>2. d # Idle /\ d.step = "append" /\ UNCHANGED projection
  BY <1>1 DEF AppendFact
<1>3. d \in Request /\ InStep(d) /\ d.fact \in Fact /\ Due(d.fact)
  BY <1>1, <1>2, Serving DEF InStep
<1>4. PICK f \in Fact : f = d.fact
  BY <1>3
<1>5. PICK n \in Nat : n = Len(log)
  BY DEF RequestsInv, TablesInv, Types
<1>6. PICK twins : twins = Twins(f)
  OBVIOUS
<1>7. \E e \in 1..Len(log') :
        /\ request' = [request EXCEPT ![q] = [d EXCEPT !.step = "reply", !.fact = <<>>, !.event = e]]
        /\ TablesInv' /\ OthersKept
  <2>1. CASE twins = {}
    <3>1. log' = Append(log, f)
          /\ request' = [request EXCEPT ![q] =
                           [d EXCEPT !.step = "reply", !.fact = <<>>, !.event = n + 1]]
      BY <1>1, <1>4, <1>5, <1>6, <2>1 DEF AppendFact, Goto
    <3>2. f.type # "message" => Legal(f, Len(log))
      <4> SUFFICES ASSUME f.type # "message", f.revision \in 1..RevisionAt(f.who, Len(log))
                   PROVE  FALSE
        BY <1>3, <1>4 DEF Due
      <4>1. f.who \in Participants
        BY FactColumns
      <4>2. PICK i \in 1..Len(log) : IsFactOf(i, f.who) /\ log[i].revision = f.revision
        BY <4>1 DEF RequestsInv, TablesInv, RevisionsAreDense
      <4>3. i \in twins
        BY <1>6, <4>2 DEF Twins, IsFactOf
      <4> QED
        BY <2>1, <4>3
    <3>3. TablesInv' /\ OthersKept
      BY <1>2, <3>1, <3>2, TablesAppend DEF RequestsInv
    <3>4. n + 1 \in 1..Len(log')
      BY <1>5, <3>1, GrownLog DEF RequestsInv, TablesInv, Types
    <3> QED
      BY <3>1, <3>3, <3>4
  <2>2. CASE twins # {}
    <3>1. UNCHANGED log
          /\ request' = [request EXCEPT ![q] =
                           [d EXCEPT !.step = "reply", !.fact = <<>>, !.event = Min(twins)]]
      BY <1>1, <1>4, <1>6, <2>2 DEF AppendFact, Goto
    <3>2. twins \in SUBSET (1..n)
      BY <1>5, <1>6 DEF Twins
    <3>3. Min(twins) \in 1..n
      <4>1. twins \in SUBSET Nat
        BY <3>2
      <4>2. Min(twins) \in twins
        BY <2>2, <4>1, MinNat
      <4> QED
        BY <3>2, <4>2
    <3>4. TablesInv' /\ OthersKept
      BY <1>2, <3>1, TablesRest DEF RequestsInv
    <3> QED
      BY <1>5, <3>1, <3>3, <3>4
  <2> QED
    BY <2>1, <2>2
<1>8. PICK e \in 1..Len(log') :
        request' = [request EXCEPT ![q] = [d EXCEPT !.step = "reply", !.fact = <<>>, !.event = e]]
  BY <1>7
<1>9. TablesInv' /\ OthersKept
  BY <1>7
<1>10. e \in Nat /\ e # 0 /\ e \in 0..Len(log')
  <2>1. PICK m \in Nat : m = Len(log')
    BY <1>9 DEF TablesInv, Types
  <2> QED
    BY <2>1
<1>11. PICK u \in Request : u = [d EXCEPT !.step = "reply"]
  BY <1>3, SetStep
<1>12. PICK v \in Request : v = [u EXCEPT !.fact = <<>>]
  BY SetFact
<1>13. PICK x \in Request : x = [v EXCEPT !.event = e]
  BY <1>10, SetEvent
<1>14. x = [d EXCEPT !.step = "reply", !.fact = <<>>, !.event = e]
  BY <1>3, <1>11, <1>12, <1>13 DEF Request
<1>15. /\ x.op = d.op /\ x.who = d.who /\ x.route = d.route /\ x.bound = d.bound
       /\ x.event = e /\ x.step = "reply" /\ x.then = d.then
       /\ x.from = d.from /\ x.upto = d.upto
  BY <1>3, <1>11, <1>12, <1>13 DEF Request
<1>16. InStep(d)'
  BY <1>3, <1>9 DEF OthersKept
<1>17. Placed(x)'
  BY <1>10, <1>15, <1>16 DEF InStep, Placed
<1>18. InStep(x)'
  BY <1>10, <1>15, <1>16, <1>17 DEF InStep
<1> QED
  BY <1>8, <1>9, <1>14, <1>18, MoveOn

(***************************************************************************)
(* The theorems.                                                           *)
(***************************************************************************)

LEMMA InitKeeps ==
  ASSUME Init
  PROVE  RequestsInv
<1>1. log = <<>> /\ log \in Seq(Fact) /\ Len(log) = 0 /\ cursor = 0
  BY DEF Init
<1>2. Absent \in Relationship
  BY DEF Absent, Relationship, NoRoute
<1>3. Types
  BY <1>1, <1>2 DEF Init, Types
<1>4. \A p \in Participants, n \in 0..0 : LastFact(p, n) = 0
  <2> SUFFICES ASSUME NEW p \in Participants
               PROVE  LastFact(p, 0) = 0
    OBVIOUS
  <2>1. {i \in 1..0 : IsFactOf(i, p)} = {}
    OBVIOUS
  <2> QED
    BY <2>1 DEF LastFact
<1>5. LogIsLegal
  BY <1>1 DEF LogIsLegal
<1>6. \A p \in Participants :
        RevisionAt(p, 0) = 0 /\ ActiveAt(p, 0) = FALSE /\ AttachedAt(p, 0) = FALSE
  BY <1>4 DEF RevisionAt, ActiveAt, AttachedAt
<1>7. RevisionsAreDense
  BY <1>1, <1>4, <1>6 DEF RevisionsAreDense
<1>8. ASSUME NEW p \in Participants
      PROVE  Follows(p) /\ RangeOK(p)
  <2>1. relationship[p] = Absent
    BY DEF Init
  <2>2. /\ Absent.revision = 0 /\ Absent.active = FALSE /\ Absent.attached = FALSE
        /\ Absent.through = 0
    BY DEF Absent
  <2>3. Follows(p)
    BY <1>1, <1>6, <2>1, <2>2 DEF Follows
  <2>4. RangeOK(p)
    BY <2>1, <2>2 DEF RangeOK
  <2> QED
    BY <2>3, <2>4
<1>9. DOMAIN request = Requests /\ \A q \in Requests : request[q] = Idle
  BY DEF Init
<1> QED
  BY <1>3, <1>5, <1>7, <1>8, <1>9 DEF RequestsInv, TablesInv

LEMMA ContinueKeeps ==
  ASSUME RequestsInv, NEW q \in Requests, Continue(q)
  PROVE  RequestsInv'
  BY RecoveryPageKeeps, DeriveAppendedKeeps, ReadReplyKeeps, FoldNextKeeps, DecideKeeps,
     AppendFactKeeps, AppendReplyKeeps, RearmRetryingKeeps DEF Continue

LEMMA ArriveKeeps ==
  ASSUME RequestsInv, NEW q \in Requests, Arrive(q)
  PROVE  RequestsInv'
<1>1. CASE \E S \in (SUBSET Participants) \ {{}} : Publish(q, S)
  <2>1. PICK S \in (SUBSET Participants) \ {{}} : Publish(q, S)
    BY <1>1
  <2>2. S \in SUBSET Participants /\ S # {}
    BY <2>1
  <2> QED
    BY <2>1, <2>2, PublishKeeps
<1>2. CASE \E p \in Participants, route \in Routes : Join(q, p, route)
  BY <1>2, JoinKeeps
<1>3. CASE \E p \in Participants : Leave(q, p)
  BY <1>3, LeaveKeeps
<1>4. ASSUME NEW p \in Participants, Detach(q, p, NoBound), UNCHANGED mailbox
      PROVE  RequestsInv'
  <2>1. TablesInv' /\ OthersKept
    BY <1>4, TablesRest DEF Detach, RequestsInv, projection
  <2>2. PICK none \in Nat \cup {NoBound} : none = NoBound
    OBVIOUS
  <2>3. none <= cursor
    <3>1. NoBound = -1 /\ cursor \in Nat
      BY DEF NoBound, RequestsInv, TablesInv, Types
    <3> QED
      BY <2>2, <3>1
  <2> QED
    BY <1>4, <2>1, <2>2, <2>3, DetachKeeps
<1> QED
  BY <1>1, <1>2, <1>3, <1>4 DEF Arrive

LEMMA NextKeeps ==
  ASSUME RequestsInv, Next
  PROVE  RequestsInv'
<1>1. CASE \E q \in Requests : Arrive(q) \/ Continue(q) \/ Alarm(q) \/ Adopt(q)
  BY <1>1, ArriveKeeps, ContinueKeeps, AlarmKeeps, AdoptKeeps
<1>2. CASE \E q \in Requests : \E k \in DOMAIN mailbox : Unavailable(q, k)
  BY <1>2, UnavailableKeeps
<1>3. ASSUME NEW k \in DOMAIN mailbox, Deliver(k) \/ Retry(k)
      PROVE  RequestsInv'
  <2>1. /\ UNCHANGED <<log, cursor, relationship, request>>
        /\ mailbox' = Close({k}, "terminal") \/ mailbox' = Close({k}, "retrying")
    BY <1>3 DEF Deliver, Retry
  <2>2. TablesInv' /\ OthersKept
    BY <2>1, TablesClose DEF RequestsInv
  <2> QED
    BY <2>1, <2>2, StayPut
<1>4. CASE Restart \/ Evict
  <2>1. UNCHANGED <<log, projection>> /\ request' = [q \in Requests |-> Idle]
    BY <1>4 DEF Restart, Evict
  <2>2. TablesInv'
    BY <2>1, TablesRest DEF RequestsInv
  <2> QED
    BY <2>1, <2>2, AllLost
<1> QED
  BY <1>1, <1>2, <1>3, <1>4 DEF Next

\* The invariant holds in every state the requests can reach.
THEOREM RequestsStaySound == Spec => []RequestsInv
<1>1. RequestsInv /\ UNCHANGED vars => RequestsInv'
  <2> SUFFICES ASSUME RequestsInv, UNCHANGED vars
               PROVE  RequestsInv'
    OBVIOUS
  <2>1. TablesInv' /\ OthersKept
    BY TablesRest DEF RequestsInv, vars
  <2> QED
    BY <2>1, StayPut DEF vars
<1>2. RequestsInv /\ [Next]_vars => RequestsInv'
  BY <1>1, NextKeeps
<1> QED
  BY <1>2, InitKeeps, PTL DEF Spec

\* The cursor is a position in the log, a range that is recovered lies inside
\* what is folded, and requests refer to events that exist, for any
\* participants, request slots, page sizes and bounds.
THEOREM RequestTypes == Spec => []TypeOK
<1>1. RequestsInv => TypeOK
  <2> SUFFICES ASSUME RequestsInv
               PROVE  TypeOK
    OBVIOUS
  <2>1. cursor \in 0..Len(log)
    BY DEF RequestsInv, TablesInv, Types
  <2>2. \A p \in Participants : RangeOK(p)
    BY DEF RequestsInv, TablesInv
  <2>3. \A q \in Requests : request[q] # Idle => request[q].event \in 0..Len(log)
    BY DEF RequestsInv, InStep, Placed
  <2> QED
    BY <2>1, <2>2, <2>3 DEF TypeOK, RangeOK
<1> QED
  BY <1>1, RequestsStaySound, PTL

\* The relationship table is the last fact the cursor has passed: a fact whose
\* append was raced by another request, an eviction or a restart is answered
\* with the one that was first, and no fact in the log is refused by the fold.
THEOREM RelationshipsFollowTheLog == Spec => []RelationshipFollowsLog
<1>1. RequestsInv => RelationshipFollowsLog
  <2> SUFFICES ASSUME RequestsInv, NEW p \in Participants, LastFact(p, cursor) # 0
               PROVE  LET i == LastFact(p, cursor)
                          r == relationship[p]
                      IN /\ r.revision = log[i].revision
                         /\ r.active = (log[i].type # "ended")
                         /\ r.attached = (log[i].type = "joined")
    BY DEF RelationshipFollowsLog
  <2>1. Follows(p)
    BY DEF RequestsInv, TablesInv
  <2> QED
    BY <2>1 DEF Follows, RevisionAt, ActiveAt, AttachedAt
<1> QED
  BY <1>1, RequestsStaySound, PTL
=============================================================================
