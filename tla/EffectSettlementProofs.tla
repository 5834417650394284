------------------------ MODULE EffectSettlementProofs ------------------------
(***************************************************************************)
(* Proofs about EffectSettlement.                                          *)
(*                                                                         *)
(* SettlementInv is the inductive invariant.  Event ids are unique in the  *)
(* log (LogOK).  The loop in use lacks at most events of other writers     *)
(* (Current).  Of the nested activations of runStep only the innermost     *)
(* works on it; the others have only events left that the step function    *)
(* answers with nothing (FramesOK).  Then an accepted batch is either all  *)
(* journalled, and brings the fold nothing, or starts where the fold ends, *)
(* so that what the append returns is what the log has gained              *)
(* (AcceptedBatch), and the fold stays a prefix of the log.                *)
(*                                                                         *)
(* The sections: what is kept of a batch (Batches); the log and an append  *)
(* (AppendLog); what each output of step and each outcome writes           *)
(* (AgentTurn); the invariant; one lemma per action; the theorems.         *)
(***************************************************************************)
EXTENDS EffectSettlement, WellFoundedInduction, FiniteSetTheorems, TLAPS

(***************************************************************************)
(* What is kept of a batch.                                                *)
(***************************************************************************)

\* Induction over the positions of a sequence, on the set of those for which a
\* statement holds.
LEMMA Induct ==
  ASSUME NEW n \in Nat, NEW P, 0 \in P, \A k \in 0 .. n : k < n /\ k \in P => k + 1 \in P
  PROVE  \A k \in 0 .. n : k \in P
<1> DEFINE R == {ss \in Nat \X Nat : ss[1] < ss[2]}
           Bad == {k \in 0 .. n : k \notin P}
<1> SUFFICES ASSUME Bad # {}
             PROVE  FALSE
  OBVIOUS
<1>1. IsWellFoundedOn(R, Nat)
  BY NatLessThanWellFounded DEF OpToRel
<1>2. PICK x \in Bad : \A y \in Bad : ~(<<y, x>> \in R)
  <2>1. Bad \subseteq Nat
    OBVIOUS
  <2> HIDE DEF R, Bad
  <2> QED
    BY <1>1, <2>1, WFMin
<1>3. x \in 1 .. n /\ x - 1 \in 0 .. n /\ x - 1 < n
  OBVIOUS
<1>4. x - 1 \notin Bad
  <2>1. <<x - 1, x>> \in R
    BY <1>3
  <2> QED
    BY <1>2, <2>1
<1>5. x \in P
  BY <1>3, <1>4
<1> QED
  BY <1>5

\* The recursive function of Kept.
KeptStep(s, I, kept) ==
  [k \in 0 .. Len(s) |->
     IF k = 0 THEN <<>>
     ELSE IF k \in I THEN Append(kept[k - 1], s[k]) ELSE kept[k - 1]]

LEMMA KeptExists ==
  ASSUME NEW S, NEW s \in Seq(S), NEW I
  PROVE  \E kept \in [0 .. Len(s) -> Seq(S)] : kept = KeptStep(s, I, kept)
<1> DEFINE n == Len(s)
           Next_(g, k) == IF k \in I THEN Append(g[k - 1], s[k]) ELSE g[k - 1]
           Good(m, g) == g[0] = <<>> /\ \A k \in 1 .. m : g[k] = Next_(g, k)
           P == {m \in 0 .. n : \E g \in [0 .. n -> Seq(S)] : Good(m, g)}
<1>1. n \in Nat
  OBVIOUS
<1>2. 0 \in P
  <2>1. [k \in 0 .. n |-> <<>>] \in [0 .. n -> Seq(S)]
    OBVIOUS
  <2>2. Good(0, [k \in 0 .. n |-> <<>>])
    BY <1>1
  <2>3. \E g \in [0 .. n -> Seq(S)] : Good(0, g)
    <3> HIDE DEF Good
    <3> QED
      BY <2>1, <2>2
  <2> QED
    BY <1>1, <2>3
<1>3. ASSUME NEW m \in 0 .. n, m < n, m \in P
      PROVE  m + 1 \in P
  <2>1. PICK g \in [0 .. n -> Seq(S)] : Good(m, g)
    BY <1>3
  <2> DEFINE h == [g EXCEPT ![m + 1] = Next_(g, m + 1)]
  <2>2. m + 1 \in 1 .. n /\ m \in 0 .. n /\ g[m] \in Seq(S) /\ s[m + 1] \in S
    <3>1. m + 1 \in 1 .. n /\ m \in 0 .. n
      BY <1>1, <1>3
    <3> QED
      BY <3>1
  <2>3. Next_(g, m + 1) \in Seq(S)
    BY <2>2
  <2>4. h \in [0 .. n -> Seq(S)]
    BY <2>3
  <2>5. \A k \in 0 .. m : h[k] = g[k]
    BY <1>1, <2>2
  <2>6. h[m + 1] = Next_(g, m + 1)
    BY <1>1, <2>2
  <2>7. Good(m + 1, h)
    <3>1. h[0] = <<>>
      BY <2>1, <2>5
    <3>2. ASSUME NEW k \in 1 .. (m + 1)
          PROVE  h[k] = Next_(h, k)
      <4> HIDE DEF h
      <4>1. CASE k \in 1 .. m
        <5>1. k \in 0 .. m /\ k - 1 \in 0 .. m
          BY <4>1
        <5> QED
          BY <2>1, <2>5, <4>1, <5>1
      <4>2. CASE k = m + 1
        <5>1. k - 1 = m /\ m \in 0 .. m
          BY <4>2
        <5> QED
          BY <2>5, <2>6, <4>2, <5>1
      <4> QED
        BY <4>1, <4>2
    <3> QED
      BY <3>1, <3>2
  <2>8. \E f \in [0 .. n -> Seq(S)] : Good(m + 1, f)
    <3> HIDE DEF Good, h
    <3> QED
      BY <2>4, <2>7
  <2>9. m + 1 \in 0 .. n
    BY <1>1, <2>2
  <2> QED
    <3> HIDE DEF Good
    <3> QED
      BY <2>8, <2>9
<1>4. n \in P
  <2> HIDE DEF P
  <2>1. \A k \in 0 .. n : k \in P
    BY <1>1, <1>2, <1>3, Induct
  <2> QED
    BY <1>1, <2>1
<1>5. PICK g \in [0 .. n -> Seq(S)] : Good(n, g)
  BY <1>4
<1>6. g = KeptStep(s, I, g)
  <2>1. \A k \in 0 .. n : k = 0 \/ k \in 1 .. n
    OBVIOUS
  <2> QED
    BY <1>5, <2>1 DEF KeptStep
<1> QED
  BY <1>5, <1>6

LEMMA KeptEquations ==
  ASSUME NEW S, NEW s \in Seq(S), NEW I, NEW g, g = KeptStep(s, I, g)
  PROVE  /\ g \in [0 .. Len(s) -> Seq(S)]
         /\ g[0] = <<>>
         /\ \A k \in 1 .. Len(s) :
              g[k] = IF k \in I THEN Append(g[k - 1], s[k]) ELSE g[k - 1]
<1> DEFINE n == Len(s)
<1>1. n \in Nat
  OBVIOUS
<1>2. g[0] = <<>>
  <2>1. KeptStep(s, I, g)[0] = <<>>
    BY <1>1 DEF KeptStep
  <2> QED
    BY <2>1
<1>3. ASSUME NEW k \in 1 .. n
      PROVE  g[k] = IF k \in I THEN Append(g[k - 1], s[k]) ELSE g[k - 1]
  <2>1. KeptStep(s, I, g)[k] = IF k \in I THEN Append(g[k - 1], s[k]) ELSE g[k - 1]
    BY <1>1 DEF KeptStep
  <2> QED
    BY <2>1
<1>4. \A k \in 0 .. n : g[k] \in Seq(S)
  <2> DEFINE P == {k \in 0 .. n : g[k] \in Seq(S)}
  <2>1. 0 \in P
    <3>1. <<>> \in Seq(S) /\ 0 \in 0 .. n
      BY <1>1
    <3> QED
      BY <1>2, <3>1
  <2>2. ASSUME NEW k \in 0 .. n, k < n, k \in P
        PROVE  k + 1 \in P
    <3>1. /\ k + 1 \in 1 .. n /\ k + 1 \in 0 .. n /\ (k + 1) - 1 = k
          /\ s[k + 1] \in S /\ g[k] \in Seq(S)
      BY <1>1, <2>2
    <3>2. g[k + 1] = IF k + 1 \in I THEN Append(g[k], s[k + 1]) ELSE g[k]
      BY <1>3, <3>1
    <3>3. g[k + 1] \in Seq(S)
      BY <3>1, <3>2
    <3> QED
      BY <3>1, <3>3
  <2>3. \A k \in 0 .. n : k \in P
    <3> HIDE DEF P
    <3> QED
      BY <1>1, <2>1, <2>2, Induct
  <2> QED
    BY <2>3
<1>5. g = [k \in 0 .. n |-> g[k]]
  <2>1. DOMAIN KeptStep(s, I, g) = 0 .. n
    BY DEF KeptStep
  <2>2. KeptStep(s, I, g) = [k \in 0 .. n |-> KeptStep(s, I, g)[k]]
    BY DEF KeptStep
  <2> QED
    BY <2>2
<1> QED
  BY <1>2, <1>3, <1>4, <1>5

KeepsBy(kept, S, s, I) ==
  /\ kept \in [0 .. Len(s) -> Seq(S)]
  /\ kept[0] = <<>>
  /\ \A k \in 1 .. Len(s) :
       kept[k] = IF k \in I THEN Append(kept[k - 1], s[k]) ELSE kept[k - 1]
  /\ Kept(s, I) = kept[Len(s)]

LEMMA KeptUnfolds ==
  ASSUME NEW S, NEW s \in Seq(S), NEW I
  PROVE  \E kept : KeepsBy(kept, S, s, I)
<1> DEFINE g == CHOOSE f : f = KeptStep(s, I, f)
<1>1. g = KeptStep(s, I, g)
  BY KeptExists
<1>2. Kept(s, I) = g[Len(s)]
  BY DEF Kept, KeptStep
<1> QED
  <2> HIDE DEF g
  <2>1. KeepsBy(g, S, s, I)
    BY <1>1, <1>2, KeptEquations DEF KeepsBy
  <2> QED
    BY <2>1

\* t is what is kept of the first k elements of s, and f says where it comes from.
Selects(f, t, s, I, k) ==
  /\ f \in [1 .. Len(t) -> Nat]
  /\ \A j \in 1 .. Len(t) : f[j] \in 1 .. k /\ f[j] \in I /\ t[j] = s[f[j]]
  /\ \A i, j \in 1 .. Len(t) : i < j => f[i] < f[j]
  /\ \A i \in 1 .. k : i \in I => \E j \in 1 .. Len(t) : f[j] = i

LEMMA SelectsNext ==
  ASSUME NEW S, NEW s \in Seq(S), NEW I, NEW t \in Seq(S),
         NEW k \in 0 .. Len(s), k < Len(s), NEW f, Selects(f, t, s, I, k)
  PROVE  /\ k + 1 \notin I => Selects(f, t, s, I, k + 1)
         /\ k + 1 \in I => \E g : Selects(g, Append(t, s[k + 1]), s, I, k + 1)
<1>1. k \in Nat /\ Len(t) \in Nat /\ s[k + 1] \in S
  OBVIOUS
<1>2. PICK n \in Nat : n = Len(t)
  BY <1>1
<1>3. \A i \in 1 .. (k + 1) : i \in 1 .. k \/ i = k + 1
  BY <1>1
<1>4. \A i \in 1 .. k : i \in 1 .. (k + 1)
  BY <1>1
<1>5. ASSUME k + 1 \notin I
      PROVE  Selects(f, t, s, I, k + 1)
  BY <1>3, <1>4, <1>5 DEF Selects
<1>6. ASSUME k + 1 \in I
      PROVE  \E g : Selects(g, Append(t, s[k + 1]), s, I, k + 1)
  <2> DEFINE u == Append(t, s[k + 1])
             g == [j \in 1 .. (n + 1) |-> IF j = n + 1 THEN k + 1 ELSE f[j]]
  <2>1. /\ Len(u) = n + 1 /\ u[n + 1] = s[k + 1]
        /\ \A j \in 1 .. n : u[j] = t[j]
    BY <1>1, <1>2
  <2>2. \A j \in 1 .. (n + 1) : j \in 1 .. n \/ j = n + 1
    BY <1>2
  <2>3. /\ \A j \in 1 .. n : g[j] = f[j] /\ j \in 1 .. (n + 1)
        /\ g[n + 1] = k + 1 /\ n + 1 \in 1 .. (n + 1)
    BY <1>2
  <2>4. g \in [1 .. (n + 1) -> Nat]
    BY <1>1, <1>2, <2>2 DEF Selects
  <2> HIDE DEF g, u
  <2>5. \A j \in 1 .. n : f[j] \in 1 .. k /\ f[j] \in I /\ t[j] = s[f[j]]
    BY <1>2 DEF Selects
  <2>6. ASSUME NEW j \in 1 .. (n + 1)
        PROVE  g[j] \in 1 .. (k + 1) /\ g[j] \in I /\ u[j] = s[g[j]]
    <3>1. CASE j = n + 1
      BY <1>1, <1>6, <2>1, <2>3, <3>1
    <3>2. CASE j \in 1 .. n
      BY <1>4, <2>1, <2>3, <2>5, <3>2
    <3> QED
      BY <2>2, <3>1, <3>2
  <2>7. ASSUME NEW i \in 1 .. (n + 1), NEW j \in 1 .. (n + 1), i < j
        PROVE  g[i] < g[j]
    <3>1. i \in 1 .. n
      BY <1>2, <2>7
    <3>2. CASE j = n + 1
      <4>1. f[i] \in 1 .. k
        BY <2>5, <3>1
      <4>2. f[i] < k + 1
        BY <1>1, <4>1
      <4> QED
        BY <2>3, <3>1, <3>2, <4>2
    <3>3. CASE j \in 1 .. n
      BY <1>2, <2>3, <2>7, <3>1, <3>3 DEF Selects
    <3> QED
      BY <2>2, <3>2, <3>3
  <2>8. ASSUME NEW i \in 1 .. (k + 1), i \in I
        PROVE  \E j \in 1 .. (n + 1) : g[j] = i
    <3>1. CASE i = k + 1
      BY <2>3, <3>1
    <3>2. CASE i \in 1 .. k
      <4>1. PICK j \in 1 .. n : f[j] = i
        BY <1>2, <2>8, <3>2 DEF Selects
      <4> QED
        BY <2>3, <4>1
    <3> QED
      BY <1>3, <3>1, <3>2
  <2>9. Selects(g, u, s, I, k + 1)
    BY <2>1, <2>4, <2>6, <2>7, <2>8 DEF Selects
  <2> QED
    BY <2>9 DEF u
<1> QED
  BY <1>5, <1>6

LEMMA KeptSelects ==
  ASSUME NEW S, NEW s \in Seq(S), NEW I
  PROVE  /\ Kept(s, I) \in Seq(S)
         /\ \E f : Selects(f, Kept(s, I), s, I, Len(s))
<1>2. PICK kept : KeepsBy(kept, S, s, I)
  BY KeptUnfolds
<1> DEFINE n == Len(s)
<1>1. n \in Nat
  OBVIOUS
<1> DEFINE P == {k \in 0 .. n : \E f : Selects(f, kept[k], s, I, k)}
<1>3. 0 \in P
  <2>1. Selects(<<>>, <<>>, s, I, 0)
    BY DEF Selects
  <2>2. \E f : Selects(f, kept[0], s, I, 0)
    BY <1>2, <2>1 DEF KeepsBy
  <2> QED
    BY <1>1, <2>2
<1>4. ASSUME NEW k \in 0 .. n, k < n, k \in P
      PROVE  k + 1 \in P
  <2>1. PICK f : Selects(f, kept[k], s, I, k)
    BY <1>4
  <2>2. /\ k + 1 \in 1 .. n /\ k + 1 \in 0 .. n /\ (k + 1) - 1 = k
        /\ kept[k] \in Seq(S)
    BY <1>1, <1>2, <1>4 DEF KeepsBy
  <2>3. kept[k + 1] = IF k + 1 \in I THEN Append(kept[k], s[k + 1]) ELSE kept[k]
    BY <1>2, <2>2 DEF KeepsBy
  <2>4. \E g : Selects(g, kept[k + 1], s, I, k + 1)
    BY <1>4, <2>1, <2>2, <2>3, SelectsNext
  <2> QED
    BY <2>2, <2>4
<1>5. n \in P
  <2> HIDE DEF P
  <2>1. \A k \in 0 .. n : k \in P
    BY <1>1, <1>3, <1>4, Induct
  <2> QED
    BY <1>1, <2>1
<1>6. n \in 0 .. n
  BY <1>1
<1> QED
  BY <1>2, <1>5, <1>6 DEF KeepsBy

LEMMA KeptNone ==
  ASSUME NEW S, NEW s \in Seq(S), NEW I, \A i \in 1 .. Len(s) : i \notin I
  PROVE  Kept(s, I) = <<>>
<1>1. Kept(s, I) \in Seq(S)
  BY KeptSelects
<1>2. PICK f : Selects(f, Kept(s, I), s, I, Len(s))
  BY KeptSelects
<1>3. Len(Kept(s, I)) = 0
  <2> SUFFICES ASSUME 1 \in 1 .. Len(Kept(s, I))
               PROVE  FALSE
    BY <1>1
  <2> QED
    BY <1>2 DEF Selects
<1> QED
  BY <1>1, <1>3

LEMMA KeptAll ==
  ASSUME NEW S, NEW s \in Seq(S), NEW I, \A i \in 1 .. Len(s) : i \in I
  PROVE  Kept(s, I) = s
<1>2. PICK kept : KeepsBy(kept, S, s, I)
  BY KeptUnfolds
<1> DEFINE n == Len(s)
<1>1. n \in Nat
  OBVIOUS
<1> DEFINE P == {k \in 0 .. n : kept[k] = SubSeq(s, 1, k)}
<1>3. 0 \in P
  BY <1>1, <1>2 DEF KeepsBy
<1>4. ASSUME NEW k \in 0 .. n, k < n, k \in P
      PROVE  k + 1 \in P
  <2>1. /\ k + 1 \in 1 .. n /\ k + 1 \in 0 .. n /\ (k + 1) - 1 = k
        /\ kept[k] = SubSeq(s, 1, k)
    BY <1>1, <1>4
  <2>2. kept[k + 1] = Append(SubSeq(s, 1, k), s[k + 1])
    BY <1>2, <2>1 DEF KeepsBy
  <2>3. Append(SubSeq(s, 1, k), s[k + 1]) = SubSeq(s, 1, k + 1)
    BY <1>1, <2>1
  <2> QED
    BY <2>1, <2>2, <2>3
<1>5. n \in P
  <2> HIDE DEF P
  <2>1. \A k \in 0 .. n : k \in P
    BY <1>1, <1>3, <1>4, Induct
  <2> QED
    BY <1>1, <2>1
<1>6. SubSeq(s, 1, n) = s
  BY <1>1
<1> QED
  BY <1>2, <1>5, <1>6 DEF KeepsBy

(***************************************************************************)
(* The log, the folds of it, and what a batch may add to it.               *)
(***************************************************************************)

Kinds ==
  {"message.started", "message.terminal", "diagnostic", "invocation.started",
   "invocation.terminal", "approval.requested", "approval.resolved", "received",
   "artifacts.ready", "artifacts.failed", "turn.waiting", "turn.closed", "foreign"}

\* The step function answers these with nothing.
InertKinds ==
  {"message.started", "invocation.started", "approval.requested", "received",
   "turn.waiting", "turn.closed", "foreign"}

Hows ==
  {"none", "request", "tool", "steer", "wake", "failed", "foreign", "completed", "fatal",
   "granted", "denied", "ready", "interrupted", "abandoned", "stranded", "work_failed",
   "model_retry_limit_exceeded", "suspended", "terminated", "stopped", "tool_terminated"}

Ofs == Nat \cup Tools \cup Steers

Event == [kind : Kinds, of : Ofs, how : Hows, upTo : Nat]

IdsAreUnique ==
  \A i, j \in 1 .. Len(log) : SameId(log[i], log[j]) => i = j

ForeignersCount ==
  \A i \in 1 .. Len(log) :
    log[i].kind = "foreign" => log[i].of \in Nat /\ log[i].of <= Foreigns

\* A request's context lies before it.
ContextsAreBehind == \A i \in 1 .. Len(log) : log[i].upTo < i

LogOK ==
  /\ log \in Seq(Event)
  /\ 0 < Len(log) /\ log[1].kind = "message.started"
  /\ IdsAreUnique /\ ForeignersCount /\ ContextsAreBehind

\* A loop object, as far as the log.
Folds(fold) ==
  /\ fold \in Seq(Event) /\ 0 < Len(fold) /\ Len(fold) <= Len(log)
  /\ \A i \in 1 .. Len(fold) : fold[i] = log[i]

\* One that lacks nothing but what other writers have appended.
Current(fold) ==
  /\ Folds(fold)
  /\ \A i \in 1 .. Len(log) : i > Len(fold) => log[i].kind = "foreign"

\* A batch as a step or an outcome writes it.  The second event of a pair may count
\* the first into its context; the first is then not the last the fold has seen.
Writes(items) ==
  /\ items \in Seq(Event)
  /\ \A k \in 1 .. Len(items) : items[k].kind # "foreign"
  /\ \A i, j \in 1 .. Len(items) : SameId(items[i], items[j]) => i = j

PairCounts(items, fold, k) ==
  /\ k = 2 /\ Len(items) = 2 /\ items[2].upTo <= Len(fold) + 1
  /\ ~SameId(items[1], fold[Len(fold)])

Suits(items, fold) ==
  \A k \in 1 .. Len(items) :
    /\ items[k].upTo <= Len(fold) \/ PairCounts(items, fold, k)
    /\ k > 1 => items[k].kind \in InertKinds

LEMMA SeqOfIs ==
  ASSUME LogOK, NEW i \in 1 .. Len(log), NEW ev, SameId(log[i], ev)
  PROVE  Known(ev) /\ SeqOf(ev) = i
<1>1. DOMAIN log = 1 .. Len(log)
  BY DEF LogOK
<1>2. \A j \in 1 .. Len(log) : SameId(log[j], ev) => j = i
  BY DEF LogOK, IdsAreUnique, SameId
<1>3. Known(ev)
  BY <1>1 DEF Known
<1>4. SeqOf(ev) \in DOMAIN log /\ SameId(log[SeqOf(ev)], ev)
  BY <1>1 DEF SeqOf
<1> QED
  BY <1>1, <1>2, <1>3, <1>4

LEMMA KnownIs ==
  ASSUME LogOK, NEW ev, Known(ev)
  PROVE  \E i \in 1 .. Len(log) : SameId(log[i], ev) /\ SeqOf(ev) = i
<1>1. DOMAIN log = 1 .. Len(log)
  BY DEF LogOK
<1>2. PICK i \in 1 .. Len(log) : SameId(log[i], ev)
  BY <1>1 DEF Known
<1> QED
  BY <1>2, SeqOfIs

\* The head of a fold is where the fold ends.
LEMMA LastSeqIs ==
  ASSUME LogOK, NEW fold, Folds(fold)
  PROVE  LastSeq(fold) = Len(fold)
<1>1. Len(fold) \in 1 .. Len(log) /\ fold[Len(fold)] = log[Len(fold)]
  BY DEF LogOK, Folds
<1>2. SameId(log[Len(fold)], fold[Len(fold)])
  BY <1>1 DEF SameId
<1> QED
  BY <1>1, <1>2, SeqOfIs DEF LastSeq

\* What a current fold has not seen is of another writer.
LEMMA KnownIsFolded ==
  ASSUME LogOK, NEW fold, Current(fold), NEW ev, ev.kind # "foreign", Known(ev)
  PROVE  SeqOf(ev) \in 1 .. Len(fold)
<1>1. PICK i \in 1 .. Len(log) : SameId(log[i], ev) /\ SeqOf(ev) = i
  BY KnownIs
<1>2. log[i].kind # "foreign"
  BY <1>1 DEF SameId
<1>3. Len(fold) \in Nat /\ Len(log) \in Nat
  BY DEF Current, Folds, LogOK
<1> QED
  BY <1>1, <1>2, <1>3 DEF Current

LEMMA NewIs ==
  ASSUME NEW items \in Seq(Event)
  PROVE  /\ New(items) \in Seq(Event)
         /\ \E f : Selects(f, New(items), items,
                           {i \in DOMAIN items : ~Known(items[i])}, Len(items))
BY KeptSelects DEF New

\* What a batch appends is new to the log and of the batch, in its order.
Picks(f, items) ==
  /\ \A j \in 1 .. Len(New(items)) :
       /\ f[j] \in 1 .. Len(items)
       /\ New(items)[j] = items[f[j]] /\ ~Known(items[f[j]])
  /\ \A i, j \in 1 .. Len(New(items)) : i < j => f[i] < f[j]
  /\ \A i \in 1 .. Len(items) :
       ~Known(items[i]) => \E j \in 1 .. Len(New(items)) : f[j] = i

LEMMA NewEvents ==
  ASSUME NEW items \in Seq(Event)
  PROVE  /\ New(items) \in Seq(Event) /\ Len(New(items)) \in Nat
         /\ \E f : Picks(f, items)
<1> DEFINE I == {i \in DOMAIN items : ~Known(items[i])}
<1>1. PICK f : Selects(f, New(items), items, I, Len(items))
  BY NewIs
<1>2. DOMAIN items = 1 .. Len(items)
  OBVIOUS
<1>3. \A j \in 1 .. Len(New(items)) :
        /\ f[j] \in 1 .. Len(items)
        /\ New(items)[j] = items[f[j]] /\ ~Known(items[f[j]])
  BY <1>1, <1>2 DEF Selects
<1>4. \A i, j \in 1 .. Len(New(items)) : i < j => f[i] < f[j]
  BY <1>1 DEF Selects
<1>5. \A i \in 1 .. Len(items) :
        ~Known(items[i]) => \E j \in 1 .. Len(New(items)) : f[j] = i
  BY <1>1, <1>2 DEF Selects
<1>6. New(items) \in Seq(Event)
  BY NewIs
<1>7. Picks(f, items)
  BY <1>3, <1>4, <1>5 DEF Picks
<1> QED
  BY <1>6, <1>7

LEMMA KeptEmpty ==
  ASSUME NEW I
  PROVE  Kept(<<>>, I) = <<>>
<1>1. <<>> \in Seq({}) /\ \A i \in 1 .. Len(<<>>) : i \notin I
  OBVIOUS
<1> QED
  BY <1>1, KeptNone

LEMMA ReplayedIs ==
  ASSUME NEW items \in Seq(Event)
  PROVE  /\ Replayed(items) \in 0 .. Len(items)
         /\ \A i \in 1 .. Replayed(items) : Known(items[i])
         /\ Replayed(items) < Len(items) => ~Known(items[Replayed(items) + 1])
<1> DEFINE n == Len(items)
           P == {k \in 0 .. n : \A i \in 1 .. k : Known(items[i])}
<1>1. n \in Nat
  OBVIOUS
<1>2. 0 \in P
  BY <1>1
<1>3. \E k \in P : k < n => ~Known(items[k + 1])
  <2> SUFFICES ASSUME \A k \in P : k < n /\ Known(items[k + 1])
               PROVE  FALSE
    OBVIOUS
  <2>1. ASSUME NEW k \in 0 .. n, k < n, k \in P
        PROVE  k + 1 \in P
    <3>1. \A i \in 1 .. (k + 1) : i \in 1 .. k \/ i = k + 1
      OBVIOUS
    <3>2. k + 1 \in 0 .. n
      BY <1>1, <2>1
    <3> QED
      BY <2>1, <3>1, <3>2
  <2>2. n \in P
    <3> HIDE DEF P
    <3>1. \A k \in 0 .. n : k \in P
      BY <1>1, <1>2, <2>1, Induct
    <3> QED
      BY <1>1, <3>1
  <2> QED
    BY <1>1, <2>2
<1> DEFINE Is(k) == k \in 0 .. n /\ (\A i \in 1 .. k : Known(items[i]))
                    /\ (k < n => ~Known(items[k + 1]))
<1>4. \E k : Is(k)
  BY <1>3
<1>5. Replayed(items) = CHOOSE k : Is(k)
  BY DEF Replayed
<1>6. Is(Replayed(items))
  <2> HIDE DEF Is
  <2> QED
    BY <1>4, <1>5
<1> QED
  BY <1>6

LEMMA NothingIsNew ==
  /\ New(<<>>) = <<>>
  /\ \A fold : Envelopes(<<>>, fold) = <<>> /\ Refusal(<<>>, fold) = "none"
<1>1. <<>> \in Seq(Event) /\ Len(<<>>) = 0
  OBVIOUS
<1>2. New(<<>>) = <<>>
  BY KeptEmpty DEF New
<1>3. ASSUME NEW fold
      PROVE  Envelopes(<<>>, fold) = <<>> /\ Refusal(<<>>, fold) = "none"
  <2>1. Envelopes(<<>>, fold) = <<>>
    <3>1. Kept(<<>>, {i \in DOMAIN <<>> :
                        Known(<<>>[i]) /\ SeqOf(<<>>[i]) > LastSeq(fold)}) = <<>>
      BY KeptEmpty
    <3> QED
      BY <1>2, <3>1 DEF Envelopes
  <2>2. Replayed(<<>>) = 0
    <3>1. Replayed(<<>>) \in 0 .. Len(<<>>)
      BY <1>1, ReplayedIs, Zenon
    <3> QED
      BY <1>1, <3>1
  <2>3. Refusal(<<>>, fold) = "none"
    BY <1>1, <2>2 DEF Refusal
  <2> QED
    BY <2>1, <2>3
<1> QED
  BY <1>2, <1>3


(***************************************************************************)
(* Appends.                                                                *)
(***************************************************************************)

LEMMA ForeignsIs ==
  ASSUME log \in Seq(Event)
  PROVE  Foreigns \in Nat /\ IsFiniteSet(At(log, {"foreign"}))
<1>1. IsFiniteSet(1 .. Len(log))
  BY FS_Interval
<1>2. At(log, {"foreign"}) \subseteq 1 .. Len(log)
  BY DEF At
<1>3. IsFiniteSet(At(log, {"foreign"}))
  BY <1>1, <1>2, FS_Subset
<1> QED
  BY <1>3, FS_CardinalityType DEF Foreigns

\* The log after a batch: what was there, then what is new of the batch.
LEMMA AppendedIs ==
  ASSUME log \in Seq(Event), NEW items \in Seq(Event), log' = Appended(items)
  PROVE  /\ log' \in Seq(Event)
         /\ Len(log') = Len(log) + Len(New(items))
         /\ \A i \in 1 .. Len(log) : log'[i] = log[i]
         /\ \A j \in 1 .. Len(New(items)) : log'[Len(log) + j] = New(items)[j]
BY NewEvents DEF Appended

\* No foreign event among them.
LEMMA ForeignsStay ==
  ASSUME log \in Seq(Event), NEW items, Writes(items), log' = Appended(items)
  PROVE  Foreigns' = Foreigns
<1> DEFINE m == Len(log)
           n == Len(New(items))
<1>1. m \in Nat /\ n \in Nat
  BY NewEvents DEF Writes
<1>2. /\ log' \in Seq(Event) /\ Len(log') = m + n
      /\ \A i \in 1 .. m : log'[i] = log[i]
      /\ \A j \in 1 .. n : log'[m + j] = New(items)[j]
  BY AppendedIs DEF Writes
<1>3. \A j \in 1 .. n : New(items)[j].kind # "foreign"
  BY NewEvents DEF Writes, Picks
<1>4. ASSUME NEW i \in 1 .. (m + n)
      PROVE  i \in At(log', {"foreign"}) <=> i \in At(log, {"foreign"})
  <2>1. CASE i \in 1 .. m
    BY <1>1, <1>2, <2>1 DEF At
  <2>2. CASE i > m
    <3>1. i - m \in 1 .. n /\ i = m + (i - m)
      BY <1>1, <2>2
    <3>2. log'[i].kind # "foreign"
      BY <1>2, <1>3, <3>1
    <3> QED
      BY <1>1, <2>2, <3>2 DEF At
  <2> QED
    BY <1>1, <2>1, <2>2
<1>5. At(log, {"foreign"}) \subseteq 1 .. (m + n) /\ At(log', {"foreign"}) \subseteq 1 .. (m + n)
  BY <1>1, <1>2 DEF At
<1>6. At(log', {"foreign"}) = At(log, {"foreign"})
  BY <1>4, <1>5
<1> QED
  BY <1>6 DEF Foreigns

LEMMA BatchKeepsLog ==
  ASSUME LogOK, NEW items, Writes(items), log' = Appended(items),
         \A j \in 1 .. Len(New(items)) : New(items)[j].upTo < Len(log) + j
  PROVE  /\ LogOK'
         /\ \A k \in 1 .. Len(items) : Known(items[k])'
<1> DEFINE m == Len(log)
           n == Len(New(items))
<1>1. m \in Nat /\ n \in Nat /\ 0 < m
  BY NewEvents DEF Writes, LogOK
<1>2. /\ log' \in Seq(Event) /\ Len(log') = m + n
      /\ \A i \in 1 .. m : log'[i] = log[i]
      /\ \A j \in 1 .. n : log'[m + j] = New(items)[j]
  BY AppendedIs DEF Writes, LogOK
<1>3. PICK f : Picks(f, items)
  BY NewEvents DEF Writes
<1>4. \A i \in 1 .. (m + n) : i \in 1 .. m \/ \E j \in 1 .. n : i = m + j
  <2> SUFFICES ASSUME NEW i \in 1 .. (m + n), i \notin 1 .. m
               PROVE  \E j \in 1 .. n : i = m + j
    OBVIOUS
  <2>1. i - m \in 1 .. n /\ i = m + (i - m)
    BY <1>1
  <2> QED
    BY <2>1
<1>5. ASSUME NEW i \in 1 .. m, NEW j \in 1 .. n
      PROVE  ~SameId(log'[i], log'[m + j]) /\ ~SameId(log'[m + j], log'[i])
  <2>1. ~Known(log'[m + j])
    BY <1>2, <1>3 DEF Picks
  <2>2. ~SameId(log[i], log'[m + j])
    BY <2>1 DEF Known, LogOK
  <2> QED
    BY <1>2, <2>2 DEF SameId
<1>6. ASSUME NEW i \in 1 .. n, NEW j \in 1 .. n, SameId(log'[m + i], log'[m + j])
      PROVE  i = j
  <2>1. /\ log'[m + i] = items[f[i]] /\ log'[m + j] = items[f[j]]
        /\ f[i] \in 1 .. Len(items) /\ f[j] \in 1 .. Len(items)
    BY <1>2, <1>3 DEF Picks
  <2>2. f[i] = f[j]
    BY <1>6, <2>1 DEF Writes
  <2>3. ~(i < j) /\ ~(j < i)
    <3>1. f[i] \in Nat /\ f[j] \in Nat
      BY <2>1
    <3> QED
      BY <1>3, <2>2, <3>1 DEF Picks
  <2> QED
    BY <2>3
<1>7. IdsAreUnique'
  <2> SUFFICES ASSUME NEW i \in 1 .. (m + n), NEW j \in 1 .. (m + n),
                      SameId(log'[i], log'[j])
               PROVE  i = j
    BY <1>2 DEF IdsAreUnique, SameId
  <2>1. CASE i \in 1 .. m /\ j \in 1 .. m
    BY <1>2, <2>1 DEF LogOK, IdsAreUnique
  <2>2. CASE i \in 1 .. m /\ \E l \in 1 .. n : j = m + l
    BY <1>5, <2>2
  <2>3. CASE j \in 1 .. m /\ \E l \in 1 .. n : i = m + l
    BY <1>5, <2>3
  <2>4. CASE \E k, l \in 1 .. n : i = m + k /\ j = m + l
    BY <1>6, <2>4
  <2> QED
    BY <1>4, <2>1, <2>2, <2>3, <2>4
<1>8. \A j \in 1 .. n : New(items)[j].kind # "foreign"
  BY <1>3 DEF Writes, Picks
<1>9. ForeignersCount'
  <2>1. Foreigns' = Foreigns
    BY ForeignsStay DEF LogOK
  <2> SUFFICES ASSUME NEW i \in 1 .. (m + n), log'[i].kind = "foreign"
               PROVE  log'[i].of \in Nat /\ log'[i].of <= Foreigns
    BY <1>2, <2>1 DEF ForeignersCount
  <2>2. i \in 1 .. m
    BY <1>2, <1>4, <1>8
  <2> QED
    BY <1>2, <2>2 DEF LogOK, ForeignersCount
<1>10. ContextsAreBehind'
  <2> SUFFICES ASSUME NEW i \in 1 .. (m + n)
               PROVE  log'[i].upTo < i
    BY <1>2 DEF ContextsAreBehind
  <2>1. CASE i \in 1 .. m
    BY <1>2, <2>1 DEF LogOK, ContextsAreBehind
  <2>2. CASE \E j \in 1 .. n : i = m + j
    BY <1>2, <2>2
  <2> QED
    BY <1>4, <2>1, <2>2
<1>11. ASSUME NEW k \in 1 .. Len(items)
       PROVE  Known(items[k])'
  <2>1. DOMAIN log' = 1 .. (m + n)
    BY <1>2
  <2>2. CASE Known(items[k])
    <3>1. PICK i \in 1 .. m : SameId(log[i], items[k])
      BY <2>2, KnownIs
    <3>2. i \in DOMAIN log' /\ SameId(log'[i], items[k])
      BY <1>1, <1>2, <2>1, <3>1
    <3> QED
      BY <3>2 DEF Known, SameId
  <2>3. CASE ~Known(items[k])
    <3>1. PICK j \in 1 .. n : f[j] = k
      BY <1>3, <2>3 DEF Picks
    <3>2. log'[m + j] = items[k]
      BY <1>2, <1>3, <3>1 DEF Picks
    <3>3. m + j \in DOMAIN log'
      BY <1>1, <2>1
    <3> QED
      BY <3>2, <3>3 DEF Known, SameId
  <2> QED
    BY <2>2, <2>3
<1>12. /\ 0 < Len(log') /\ log'[1].kind = "message.started"
  <2>1. 1 \in 1 .. m
    BY <1>1
  <2> QED
    BY <1>1, <1>2, <2>1 DEF LogOK
<1> QED
  BY <1>2, <1>7, <1>9, <1>10, <1>11, <1>12 DEF LogOK

\* A batch that is not refused, from a current fold: all that the log has beyond the
\* fold are events of other writers, and if it has any, nothing is appended.
LEMMA AcceptedMeets ==
  ASSUME LogOK, NEW fold, Current(fold), NEW items, Writes(items),
         Refusal(items, fold) = "none", New(items) # <<>>
  PROVE  /\ Len(fold) = Len(log)
         /\ 0 < Replayed(items) => SameId(fold[Len(fold)], items[Replayed(items)])
<1> DEFINE k == Replayed(items)
<1>1. items # <<>>
  BY NothingIsNew
<1>2. k \in 0 .. Len(items) /\ \A i \in 1 .. k : Known(items[i])
  BY ReplayedIs DEF Writes
<1>3. /\ Len(items) \in Nat /\ Len(fold) \in Nat /\ Len(log) \in Nat
      /\ Len(fold) <= Len(log)
  BY DEF Writes, Current, Folds, LogOK
<1>4. CASE k = 0
  <2>1. LastSeq(fold) = Len(log)
    BY <1>1, <1>4 DEF Refusal
  <2> QED
    BY <1>4, <2>1, LastSeqIs DEF Current
<1>5. CASE 0 < k
  <2>1. SeqOf(items[k]) = Len(log)
    BY <1>2, <1>5 DEF Refusal
  <2>2. k \in 1 .. Len(items) /\ Known(items[k]) /\ items[k].kind # "foreign"
    BY <1>2, <1>3, <1>5 DEF Writes
  <2>3. Len(log) \in 1 .. Len(fold)
    BY <2>1, <2>2, KnownIsFolded
  <2>4. PICK i \in 1 .. Len(log) : SameId(log[i], items[k]) /\ SeqOf(items[k]) = i
    BY <2>2, KnownIs
  <2>5. Len(fold) = Len(log) /\ fold[Len(fold)] = log[i]
    BY <1>3, <2>1, <2>3, <2>4 DEF Current, Folds
  <2> QED
    BY <2>4, <2>5 DEF SameId
<1> QED
  BY <1>2, <1>4, <1>5

\* What the batch appends says nothing of events that come after it.
LEMMA AcceptedCounts ==
  ASSUME LogOK, NEW fold, Current(fold), NEW items, Writes(items), Suits(items, fold),
         Refusal(items, fold) = "none", NEW j \in 1 .. Len(New(items))
  PROVE  New(items)[j].upTo < Len(log) + j
<1>1. /\ New(items) \in Seq(Event) /\ Len(New(items)) \in Nat
      /\ Len(items) \in Nat /\ Len(log) \in Nat
  BY NewEvents DEF Writes, LogOK
<1>2. New(items) # <<>>
  BY <1>1
<1>3. Len(fold) = Len(log)
  BY <1>2, AcceptedMeets
<1>4. PICK f : Picks(f, items)
  BY NewEvents DEF Writes
<1>5. /\ f[j] \in 1 .. Len(items) /\ New(items)[j] = items[f[j]]
      /\ ~Known(items[f[j]])
  BY <1>4 DEF Picks
<1>6. PICK u \in Nat : u = items[f[j]].upTo
  <2>1. items[f[j]] \in Event
    BY <1>5 DEF Writes
  <2> QED
    BY <2>1 DEF Event
<1>7. CASE u <= Len(fold)
  BY <1>1, <1>3, <1>5, <1>6, <1>7
<1>8. CASE PairCounts(items, fold, f[j])
  <2>1. /\ f[j] = 2 /\ Len(items) = 2 /\ u <= Len(fold) + 1
        /\ ~SameId(items[1], fold[Len(fold)])
    BY <1>6, <1>8 DEF PairCounts
  <2>2. ~Known(items[1])
    <3> SUFFICES ASSUME Known(items[1])
                 PROVE  FALSE
      OBVIOUS
    <3>1. /\ Replayed(items) \in 0 .. 2
          /\ \A i \in 1 .. Replayed(items) : Known(items[i])
          /\ Replayed(items) < 2 => ~Known(items[Replayed(items) + 1])
      BY <2>1, ReplayedIs DEF Writes
    <3>2. Replayed(items) = 1
      BY <1>5, <2>1, <3>1
    <3>3. SameId(fold[Len(fold)], items[1])
      BY <1>2, <3>2, AcceptedMeets
    <3> QED
      BY <2>1, <3>3 DEF SameId
  <2>3. PICK i \in 1 .. Len(New(items)) : f[i] = 1
    BY <1>4, <2>1, <2>2 DEF Picks
  <2>4. i # j /\ ~(j < i)
    BY <1>4, <2>1, <2>3 DEF Picks
  <2>5. 2 <= j
    BY <2>3, <2>4
  <2> QED
    BY <1>1, <1>3, <1>5, <1>6, <2>1, <2>5
<1> QED
  BY <1>5, <1>6, <1>7, <1>8 DEF Suits

LEMMA EnvelopesAreNew ==
  ASSUME LogOK, NEW fold, Current(fold), NEW items, Writes(items)
  PROVE  Envelopes(items, fold) = New(items)
<1> DEFINE I == {i \in DOMAIN items : Known(items[i]) /\ SeqOf(items[i]) > LastSeq(fold)}
<1>1. items \in Seq(Event) /\ DOMAIN items = 1 .. Len(items)
  BY DEF Writes
<1>2. ASSUME NEW i \in 1 .. Len(items), Known(items[i])
      PROVE  ~(SeqOf(items[i]) > LastSeq(fold))
  <2>1. SeqOf(items[i]) \in 1 .. Len(fold)
    BY <1>2, KnownIsFolded DEF Writes
  <2>2. LastSeq(fold) = Len(fold) /\ Len(fold) \in Nat
    BY LastSeqIs DEF Current, Folds
  <2> QED
    BY <2>1, <2>2
<1>3. Kept(items, I) = <<>>
  <2>1. \A i \in 1 .. Len(items) : i \notin I
    BY <1>2
  <2> HIDE DEF I
  <2> QED
    BY <1>1, <2>1, KeptNone
<1>4. Envelopes(items, fold) = <<>> \o New(items)
  BY <1>3 DEF Envelopes
<1>5. New(items) \in Seq(Event)
  BY <1>1, NewEvents
<1> QED
  BY <1>4, <1>5

LEMMA NewIsInert ==
  ASSUME NEW items, Writes(items), NEW fold, Suits(items, fold)
  PROVE  \A k \in 1 .. Len(New(items)) : k > 1 => New(items)[k].kind \in InertKinds
<1> SUFFICES ASSUME NEW k \in 1 .. Len(New(items)), k > 1
             PROVE  New(items)[k].kind \in InertKinds
  OBVIOUS
<1>1. PICK f : Picks(f, items)
  BY NewEvents DEF Writes
<1>2. 1 \in 1 .. Len(New(items))
  OBVIOUS
<1>3. /\ f[1] \in 1 .. Len(items) /\ f[k] \in 1 .. Len(items)
      /\ New(items)[k] = items[f[k]] /\ f[1] < f[k]
  BY <1>1, <1>2 DEF Picks
<1>4. f[k] > 1
  BY <1>3
<1> QED
  BY <1>3, <1>4 DEF Suits

\* The fold of what an accepted batch returns is current again.
LEMMA AcceptedBatch ==
  ASSUME LogOK, NEW fold, Current(fold), NEW items, Writes(items), Suits(items, fold),
         Refusal(items, fold) = "none", log' = Appended(items),
         NEW next, next = fold \o Envelopes(items, fold)
  PROVE  /\ LogOK'
         /\ Current(next)'
         /\ \A k \in 1 .. Len(items) : Known(items[k])'
<1>1. LogOK' /\ \A k \in 1 .. Len(items) : Known(items[k])'
  BY AcceptedCounts, BatchKeepsLog
<1>2. Envelopes(items, fold) = New(items)
  BY EnvelopesAreNew
<1>3. /\ log \in Seq(Event) /\ fold \in Seq(Event) /\ New(items) \in Seq(Event)
      /\ 0 < Len(fold)
  BY NewEvents DEF Writes, LogOK, Current, Folds
<1>4. /\ log' \in Seq(Event)
      /\ Len(log') = Len(log) + Len(New(items))
      /\ \A i \in 1 .. Len(log) : log'[i] = log[i]
      /\ \A j \in 1 .. Len(New(items)) : log'[Len(log) + j] = New(items)[j]
  BY AppendedIs DEF Writes, LogOK
<1>5. /\ next = fold \o New(items)
      /\ next \in Seq(Event) /\ Len(next) = Len(fold) + Len(New(items))
      /\ \A i \in 1 .. Len(fold) : next[i] = fold[i]
      /\ \A j \in 1 .. Len(New(items)) : next[Len(fold) + j] = New(items)[j]
  BY <1>2, <1>3
<1>6. CASE New(items) = <<>>
  <2>1. Len(New(items)) = 0 /\ next = fold
    BY <1>3, <1>5, <1>6
  <2>2. Len(log') = Len(log) /\ \A i \in 1 .. Len(log) : log'[i] = log[i]
    BY <1>3, <1>4, <2>1
  <2>3. Current(next)'
    BY <1>4, <2>1, <2>2 DEF Current, Folds
  <2> QED
    BY <1>1, <1>2, <2>3
<1>7. CASE New(items) # <<>>
  <2>1. PICK m \in Nat, n \in Nat : m = Len(log) /\ n = Len(New(items))
    BY <1>3
  <2>2. Len(fold) = m /\ m > 0
    BY <1>3, <1>7, <2>1, AcceptedMeets
  <2>3. Len(next) = m + n /\ Len(log') = m + n
    BY <1>4, <1>5, <2>1, <2>2
  <2>4. ASSUME NEW i \in 1 .. (m + n)
        PROVE  next[i] = log'[i]
    <3>1. CASE i \in 1 .. m
      BY <1>4, <1>5, <2>1, <2>2, <3>1 DEF Current, Folds
    <3>2. CASE i > m
      <4>1. i - m \in 1 .. n /\ i = m + (i - m)
        BY <3>2
      <4>2. PICK l \in 1 .. n : i = m + l
        BY <4>1
      <4>3. next[m + l] = New(items)[l] /\ log'[m + l] = New(items)[l]
        <5>1. m = Len(fold) /\ m = Len(log) /\ l \in 1 .. Len(New(items))
          BY <2>1, <2>2
        <5> QED
          BY <1>4, <1>5, <5>1
      <4> QED
        BY <4>2, <4>3
    <3>3. i \in 1 .. m \/ i > m
      OBVIOUS
    <3> QED
      BY <3>1, <3>2, <3>3
  <2>5. Current(next)'
    BY <1>5, <2>2, <2>3, <2>4 DEF Current, Folds
  <2> QED
    BY <1>1, <1>2, <2>5
<1> QED
  BY <1>6, <1>7

(***************************************************************************)
(* What steps and outcomes write.                                          *)
(***************************************************************************)

LEMMA Greatest ==
  ASSUME NEW n \in Nat, NEW T \in SUBSET (1 .. n), T # {}
  PROVE  \E i \in T : \A j \in T : j <= i
<1> DEFINE P == {k \in 0 .. n : \A j \in T : j <= n - k}
<1> SUFFICES ASSUME \A i \in T : \E j \in T : ~(j <= i)
             PROVE  FALSE
  OBVIOUS
<1>1. 0 \in P
  OBVIOUS
<1>2. ASSUME NEW k \in 0 .. n, k < n, k \in P
      PROVE  k + 1 \in P
  <2>1. n - k \notin T
    BY <1>2
  <2>2. ASSUME NEW j \in T
        PROVE  j <= n - (k + 1)
    <3>1. j <= n - k /\ j # n - k
      BY <1>2, <2>1
    <3> QED
      BY <3>1
  <2> QED
    BY <1>2, <2>2
<1>3. n \in P
  <2> HIDE DEF P
  <2>1. \A k \in 0 .. n : k \in P
    BY <1>1, <1>2, Induct
  <2> QED
    BY <2>1
<1>4. PICK j : j \in T
  OBVIOUS
<1>5. j \in 1 .. n /\ j <= n - n
  BY <1>3, <1>4
<1> QED
  BY <1>5

LEMMA LastAtIs ==
  ASSUME NEW L \in Seq(Event), NEW kinds, At(L, kinds) # {}
  PROVE  /\ LastAt(L, kinds) \in 1 .. Len(L) /\ L[LastAt(L, kinds)].kind \in kinds
         /\ \A j \in At(L, kinds) : j <= LastAt(L, kinds)
<1>1. At(L, kinds) \in SUBSET (1 .. Len(L)) /\ Len(L) \in Nat
  BY DEF At
<1>2. \E i \in At(L, kinds) : \A j \in At(L, kinds) : j <= i
  BY <1>1, Greatest
<1>3. /\ LastAt(L, kinds) \in At(L, kinds)
      /\ \A j \in At(L, kinds) : j <= LastAt(L, kinds)
  BY <1>2 DEF LastAt
<1> QED
  BY <1>1, <1>3 DEF At

LEMMA EventIs ==
  ASSUME NEW ev \in Event
  PROVE  ev.kind \in Kinds /\ ev.of \in Ofs /\ ev.how \in Hows /\ ev.upTo \in Nat
BY DEF Event

\* A log of the turn: its first event starts the first model call.
TurnLog(L) == L \in Seq(Event) /\ 0 < Len(L) /\ L[1].kind = "message.started"

LEMMA InFlightIs ==
  ASSUME NEW L, TurnLog(L), NEW n \in InFlight(L)
  PROVE  n \in Ofs /\ ~SameId([kind |-> "message.terminal", of |-> n], L[Len(L)])
<1> DEFINE start == LastAt(L, {"message.started"})
<1>1. 1 \in At(L, {"message.started"})
  BY DEF TurnLog, At
<1>2. start \in 1 .. Len(L) /\ L[start].kind = "message.started"
  BY <1>1, LastAtIs DEF TurnLog
<1>3. L[start] \in Event /\ L[start].of \in Ofs
  BY <1>2, EventIs DEF TurnLog
<1>4. n = L[start].of
  BY DEF InFlight
<1>5. ASSUME L[Len(L)].kind = "message.terminal", L[Len(L)].of = n
      PROVE  FALSE
  <2>1. Len(L) \in Nat /\ start # Len(L) /\ Len(L) > start
    BY <1>2, <1>5 DEF TurnLog
  <2>2. Len(L) \in At(L, {"message.terminal", "turn.closed"})
    BY <1>5, <2>1 DEF At, TurnLog
  <2> QED
    BY <1>5, <2>1, <2>2 DEF InFlight
<1> QED
  BY <1>3, <1>4, <1>5 DEF SameId

LEMMA CountIs ==
  ASSUME NEW L \in Seq(Event)
  PROVE  ModelCallCount(L) \in Nat
<1>1. IsFiniteSet(1 .. Len(L))
  BY FS_Interval
<1>2. At(L, {"message.started"}) \subseteq 1 .. Len(L)
  BY DEF At
<1> QED
  BY <1>1, <1>2, FS_Subset, FS_CardinalityType DEF ModelCallCount

\* The id of a turn.waiting counts the earlier ones.
LEMMA WaitsAre ==
  ASSUME NEW L \in Seq(Event)
  PROVE  Cardinality(At(L, {"turn.waiting"})) \in Nat
<1>1. IsFiniteSet(1 .. Len(L))
  BY FS_Interval
<1>2. At(L, {"turn.waiting"}) \subseteq 1 .. Len(L)
  BY DEF At
<1> QED
  BY <1>1, <1>2, FS_Subset, FS_CardinalityType

LEMMA LoggedIs ==
  ASSUME NEW L \in Seq(Event), NEW kind
  PROVE  Logged(L, kind) \subseteq Ofs
<1>1. \A i \in DOMAIN L : L[i].of \in Ofs
  BY EventIs
<1> QED
  BY <1>1 DEF Logged, At

LEMMA EvIs ==
  ASSUME NEW kind \in Kinds, NEW of \in Ofs, NEW how \in Hows
  PROVE  /\ Ev(kind, of, how) \in Event
         /\ Ev(kind, of, how).kind = kind /\ Ev(kind, of, how).of = of
         /\ Ev(kind, of, how).upTo = 0
BY DEF Ev, Event

LEMMA NoneSuits ==
  ASSUME NEW fold
  PROVE  Writes(<<>>) /\ Suits(<<>>, fold)
BY DEF Writes, Suits

LEMMA OneSuits ==
  ASSUME NEW fold, NEW ev \in Event, ev.kind # "foreign", ev.upTo <= Len(fold)
  PROVE  Writes(<<ev>>) /\ Suits(<<ev>>, fold)
<1>1. /\ <<ev>> \in Seq(Event) /\ Len(<<ev>>) = 1 /\ <<ev>>[1] = ev
      /\ \A i \in 1 .. 1 : i = 1
  OBVIOUS
<1> QED
  BY <1>1 DEF Writes, Suits

\* The next model call, or the end of the turn, or nothing.
NextIs(items, n) ==
  \/ items = <<>>
  \/ \E ev \in Event : /\ items = <<ev>> /\ ev.upTo <= n
                       /\ ev.kind \in {"message.started", "turn.closed"}

LEMMA CloseIs ==
  ASSUME NEW reason \in Hows, NEW n \in Nat
  PROVE  NextIs(CloseTurn(reason).append, n)
<1>1. /\ Ev("turn.closed", 0, reason) \in Event
      /\ Ev("turn.closed", 0, reason).kind = "turn.closed"
      /\ Ev("turn.closed", 0, reason).upTo = 0
  BY EvIs DEF Kinds, Ofs
<1>2. CloseTurn(reason).append = <<Ev("turn.closed", 0, reason)>>
  BY DEF CloseTurn, Output
<1> QED
  BY <1>1, <1>2 DEF NextIs

LEMMA NextModelCallIs ==
  ASSUME NEW L \in Seq(Event)
  PROVE  NextIs(NextModelCall(L).append, Len(L))
<1>1. Len(L) \in Nat
  OBVIOUS
<1>2. CASE NextModelCall(L) = Nothing
  BY <1>2 DEF NextIs, Nothing, Output
<1>3. CASE NextModelCall(L) = CloseTurn("model_retry_limit_exceeded")
  BY <1>1, <1>3, CloseIs DEF Hows
<1>4. CASE NextModelCall(L) = Request(ModelCallCount(L) + 1, Len(L))
  <2> DEFINE n == ModelCallCount(L) + 1
             ev == [Ev("message.started", n, "request") EXCEPT !.upTo = Len(L)]
  <2>1. n \in Ofs
    BY CountIs DEF Ofs
  <2>2. ev \in Event /\ ev.kind = "message.started" /\ ev.upTo = Len(L)
    BY <1>1, <2>1 DEF Ev, Event, Kinds, Hows
  <2>3. NextModelCall(L).append = <<ev>>
    BY <1>4 DEF Request, Output
  <2> HIDE DEF ev
  <2> QED
    BY <1>1, <2>2, <2>3 DEF NextIs
<1> QED
  BY <1>2, <1>3, <1>4 DEF NextModelCall

LEMMA NextSuits ==
  ASSUME NEW fold \in Seq(Event), NEW items, NextIs(items, Len(fold))
  PROVE  Writes(items) /\ Suits(items, fold)
BY NoneSuits, OneSuits DEF NextIs

\* An expansion starts the given calls, each once, and asks for their approvals.
Expands(items) ==
  /\ items \in Seq(Event)
  /\ \A k \in 1 .. Len(items) : /\ items[k].kind \in {"invocation.started", "approval.requested"}
                               /\ items[k].upTo = 0
  /\ \A i, j \in 1 .. Len(items) : SameId(items[i], items[j]) => i = j

\* The calls of an answer, or some of them.
CallList(todo) ==
  /\ todo \in Seq(Tools)
  /\ \A i, j \in 1 .. Len(todo) : todo[i] = todo[j] => i = j

\* The intentions of the given calls are there.
Starts(items, todo) ==
  /\ \A x : (\E k \in 1 .. Len(items) : items[k].kind = "invocation.started" /\ items[k].of = x)
             <=> \E i \in 1 .. Len(todo) : todo[i] = x
  /\ \A x : (\E k \in 1 .. Len(items) : items[k].kind = "approval.requested" /\ items[k].of = x)
             <=> x \in Gated /\ \E i \in 1 .. Len(todo) : todo[i] = x

LEMMA ExpandIs ==
  ASSUME NEW todo, CallList(todo)
  PROVE  /\ Expands(ExpandToolCalls(todo).append)
         /\ Starts(ExpandToolCalls(todo).append, todo)
<1> DEFINE n == Len(todo)
           all == [k \in 1 .. 2 * Len(todo) |->
                     IF k % 2 = 1 THEN Ev("invocation.started", todo[(k + 1) \div 2], "tool")
                     ELSE Ev("approval.requested", todo[k \div 2], "tool")]
           I == {k \in DOMAIN all : k % 2 = 0 => all[k].of \in Gated}
           out == Kept(all, I)
<1>1. n \in Nat
  BY DEF CallList
<1>2. ASSUME NEW k \in 1 .. 2 * n
      PROVE  \/ /\ k % 2 = 1 /\ (k + 1) \div 2 \in 1 .. n /\ k = 2 * ((k + 1) \div 2) - 1
                /\ all[k] = Ev("invocation.started", todo[(k + 1) \div 2], "tool")
             \/ /\ k % 2 = 0 /\ k \div 2 \in 1 .. n /\ k = 2 * (k \div 2)
                /\ all[k] = Ev("approval.requested", todo[k \div 2], "tool")
  BY <1>1
<1>3. ASSUME NEW k \in 1 .. 2 * n
      PROVE  \E i \in 1 .. n :
               \/ k = 2 * i - 1 /\ all[k] = Ev("invocation.started", todo[i], "tool")
               \/ k = 2 * i /\ all[k] = Ev("approval.requested", todo[i], "tool")
  BY <1>2
<1>4. \A i \in 1 .. n : todo[i] \in Ofs
  BY DEF CallList, Ofs
<1>5. ASSUME NEW k \in 1 .. 2 * n
      PROVE  /\ all[k] \in Event /\ all[k].upTo = 0
             /\ all[k].kind \in {"invocation.started", "approval.requested"}
  <2>1. PICK i \in 1 .. n :
          \/ k = 2 * i - 1 /\ all[k] = Ev("invocation.started", todo[i], "tool")
          \/ k = 2 * i /\ all[k] = Ev("approval.requested", todo[i], "tool")
    BY <1>3
  <2>2. /\ "tool" \in Hows /\ "invocation.started" \in Kinds
        /\ "approval.requested" \in Kinds
    BY DEF Kinds, Hows
  <2>3. PICK of \in Ofs, kind \in {"invocation.started", "approval.requested"} :
           all[k] = Ev(kind, of, "tool")
    BY <1>4, <2>1
  <2> HIDE DEF all
  <2> QED
    BY <2>2, <2>3, EvIs
<1>6. ASSUME NEW k \in 1 .. 2 * n, NEW l \in 1 .. 2 * n, SameId(all[k], all[l])
      PROVE  k = l
  <2>1. PICK i \in 1 .. n :
          \/ k = 2 * i - 1 /\ all[k] = Ev("invocation.started", todo[i], "tool")
          \/ k = 2 * i /\ all[k] = Ev("approval.requested", todo[i], "tool")
    BY <1>3
  <2>2. PICK j \in 1 .. n :
          \/ l = 2 * j - 1 /\ all[l] = Ev("invocation.started", todo[j], "tool")
          \/ l = 2 * j /\ all[l] = Ev("approval.requested", todo[j], "tool")
    BY <1>3
  <2> HIDE DEF all
  <2>3. /\ Ev("invocation.started", todo[i], "tool").kind = "invocation.started"
        /\ Ev("approval.requested", todo[i], "tool").kind = "approval.requested"
        /\ Ev("invocation.started", todo[j], "tool").kind = "invocation.started"
        /\ Ev("approval.requested", todo[j], "tool").kind = "approval.requested"
        /\ Ev("invocation.started", todo[i], "tool").of = todo[i]
        /\ Ev("approval.requested", todo[i], "tool").of = todo[i]
        /\ Ev("invocation.started", todo[j], "tool").of = todo[j]
        /\ Ev("approval.requested", todo[j], "tool").of = todo[j]
    BY DEF Ev
  <2>4. todo[i] = todo[j]
    BY <1>6, <2>1, <2>2, <2>3 DEF SameId
  <2>5. i = j
    BY <2>4 DEF CallList
  <2> QED
    BY <1>6, <2>1, <2>2, <2>3, <2>5 DEF SameId
<1>7. all \in Seq(Event) /\ Len(all) = 2 * n
  <2>1. all \in [1 .. 2 * n -> Event]
    <3>1. all = [k \in 1 .. 2 * n |-> all[k]]
      OBVIOUS
    <3> HIDE DEF all
    <3> QED
      BY <1>5, <3>1
  <2>2. 2 * n \in Nat
    BY <1>1
  <2> HIDE DEF all, n
  <2> QED
    BY <2>1, <2>2
<1>8. ExpandToolCalls(todo).append = out
  BY DEF ExpandToolCalls, Output
<1> HIDE DEF all, I, n
<1>9. out \in Seq(Event)
  BY <1>7, KeptSelects
<1>10. PICK f : Selects(f, out, all, I, Len(all))
  BY <1>7, KeptSelects
<1>11. \A j \in 1 .. Len(out) : f[j] \in 1 .. 2 * n /\ out[j] = all[f[j]]
  BY <1>7, <1>10 DEF Selects
<1> HIDE DEF out
<1>12. ASSUME NEW i \in 1 .. Len(out), NEW j \in 1 .. Len(out), SameId(out[i], out[j])
       PROVE  i = j
  <2>1. f[i] = f[j] /\ f[i] \in 1 .. 2 * n
    BY <1>6, <1>11, <1>12
  <2>2. ~(i < j) /\ ~(j < i)
    <3>1. f[i] \in Nat /\ ~(f[i] < f[i])
      BY <2>1
    <3> QED
      BY <1>10, <2>1, <3>1 DEF Selects
  <2>3. i \in Nat /\ j \in Nat
    BY <1>9
  <2> QED
    BY <2>2, <2>3
<1>13. ASSUME NEW i \in 1 .. n
       PROVE  /\ \E k \in 1 .. 2 * n : /\ k \in I /\ all[k].of = todo[i]
                                       /\ all[k].kind = "invocation.started"
              /\ todo[i] \in Gated =>
                   \E k \in 1 .. 2 * n : /\ k \in I /\ all[k].of = todo[i]
                                         /\ all[k].kind = "approval.requested"
  <2>1. 2 * i - 1 \in 1 .. 2 * n /\ 2 * i \in 1 .. 2 * n
    BY <1>1
  <2>2. /\ (2 * i - 1) % 2 = 1 /\ ((2 * i - 1) + 1) \div 2 = i
        /\ (2 * i) % 2 = 0 /\ (2 * i) \div 2 = i
    BY <1>1
  <2>3. /\ all[2 * i - 1] = Ev("invocation.started", todo[i], "tool")
        /\ all[2 * i] = Ev("approval.requested", todo[i], "tool")
    BY <1>2, <2>1, <2>2
  <2>4. 2 * i - 1 \in I /\ (todo[i] \in Gated => 2 * i \in I)
    BY <1>7, <2>1, <2>2, <2>3 DEF I, Ev
  <2> QED
    BY <2>1, <2>3, <2>4 DEF Ev
<1>14. ASSUME NEW k \in 1 .. 2 * n, k \in I
       PROVE  \E i \in 1 .. n :
                \/ all[k].kind = "invocation.started" /\ all[k].of = todo[i]
                \/ all[k].kind = "approval.requested" /\ all[k].of = todo[i] /\ todo[i] \in Gated
  <2>1. PICK i \in 1 .. n :
          \/ k = 2 * i - 1 /\ all[k] = Ev("invocation.started", todo[i], "tool")
          \/ k = 2 * i /\ all[k] = Ev("approval.requested", todo[i], "tool")
    BY <1>3
  <2>2. (2 * i) % 2 = 0
    BY <1>1
  <2>3. k = 2 * i => all[k].of \in Gated
    BY <1>14, <2>2 DEF I
  <2> QED
    BY <2>1, <2>3 DEF Ev
<1>15. \A k \in 1 .. 2 * n : k \in I => \E j \in 1 .. Len(out) : f[j] = k
  BY <1>7, <1>10 DEF Selects
<1>16. \A j \in 1 .. Len(out) : f[j] \in I
  BY <1>10 DEF Selects
<1>17. Starts(out, todo)
  <2>1. ASSUME NEW x, NEW j \in 1 .. Len(out), out[j].of = x
        PROVE  /\ \E i \in 1 .. n : todo[i] = x
               /\ out[j].kind = "approval.requested" => x \in Gated
    <3>1. PICK k \in 1 .. 2 * n : k \in I /\ out[j] = all[k]
      BY <1>11, <1>16
    <3> QED
      BY <1>14, <2>1, <3>1
  <2>2. ASSUME NEW i \in 1 .. n
        PROVE  /\ \E j \in 1 .. Len(out) :
                     out[j].kind = "invocation.started" /\ out[j].of = todo[i]
               /\ todo[i] \in Gated =>
                    \E j \in 1 .. Len(out) :
                      out[j].kind = "approval.requested" /\ out[j].of = todo[i]
    <3>1. ASSUME NEW k \in 1 .. 2 * n, k \in I
          PROVE  \E j \in 1 .. Len(out) : out[j] = all[k]
      BY <1>11, <1>15, <3>1
    <3> QED
      BY <1>13, <3>1
  <2>3. n = Len(todo)
    BY DEF n
  <2>4. \A x : (\E j \in 1 .. Len(out) : out[j].kind = "invocation.started" /\ out[j].of = x)
                 <=> \E i \in 1 .. n : todo[i] = x
    <3> SUFFICES ASSUME NEW x
                 PROVE  (\E j \in 1 .. Len(out) : out[j].kind = "invocation.started" /\ out[j].of = x)
                          <=> \E i \in 1 .. n : todo[i] = x
      OBVIOUS
    <3>1. ASSUME NEW i \in 1 .. n, todo[i] = x
          PROVE  \E j \in 1 .. Len(out) : out[j].kind = "invocation.started" /\ out[j].of = x
      BY <2>2, <3>1
    <3>2. ASSUME NEW j \in 1 .. Len(out), out[j].kind = "invocation.started", out[j].of = x
          PROVE  \E i \in 1 .. n : todo[i] = x
      BY <2>1, <3>2
    <3> QED
      BY <3>1, <3>2
  <2>5. \A x : (\E j \in 1 .. Len(out) : out[j].kind = "approval.requested" /\ out[j].of = x)
                 <=> x \in Gated /\ \E i \in 1 .. n : todo[i] = x
    <3> SUFFICES ASSUME NEW x
                 PROVE  (\E j \in 1 .. Len(out) : out[j].kind = "approval.requested" /\ out[j].of = x)
                          <=> x \in Gated /\ \E i \in 1 .. n : todo[i] = x
      OBVIOUS
    <3>1. ASSUME NEW i \in 1 .. n, todo[i] = x, x \in Gated
          PROVE  \E j \in 1 .. Len(out) : out[j].kind = "approval.requested" /\ out[j].of = x
      BY <2>2, <3>1
    <3>2. ASSUME NEW j \in 1 .. Len(out), out[j].kind = "approval.requested", out[j].of = x
          PROVE  x \in Gated /\ \E i \in 1 .. n : todo[i] = x
      BY <2>1, <3>2
    <3> QED
      BY <3>1, <3>2
  <2> QED
    BY <2>3, <2>4, <2>5 DEF Starts
<1> QED
  BY <1>5, <1>8, <1>9, <1>11, <1>12, <1>17 DEF Expands

LEMMA ExpandSuits ==
  ASSUME NEW fold, NEW items, Expands(items), 0 <= Len(fold)
  PROVE  Writes(items) /\ Suits(items, fold)
BY DEF Expands, Writes, Suits, InertKinds

LEMMA CallsOfIs ==
  ASSUME NEW L, NEW n
  PROVE  CallList(CallsOf(L, n))
<1>1. CallList(Calls)
  BY TurnAssumption DEF CallList
<1>2. CallList(<<>>)
  BY DEF CallList
<1> QED
  BY <1>1, <1>2 DEF CallsOf

LEMMA KeptCalls ==
  ASSUME NEW todo, CallList(todo), NEW I
  PROVE  CallList(Kept(todo, I))
<1>1. Kept(todo, I) \in Seq(Tools)
  BY KeptSelects DEF CallList
<1>2. PICK f : Selects(f, Kept(todo, I), todo, I, Len(todo))
  BY KeptSelects DEF CallList
<1>3. ASSUME NEW i \in 1 .. Len(Kept(todo, I)), NEW j \in 1 .. Len(Kept(todo, I)),
             Kept(todo, I)[i] = Kept(todo, I)[j]
      PROVE  i = j
  <2>1. f[i] \in 1 .. Len(todo) /\ f[j] \in 1 .. Len(todo) /\ todo[f[i]] = todo[f[j]]
    BY <1>2, <1>3 DEF Selects
  <2>2. f[i] = f[j]
    BY <2>1 DEF CallList
  <2>3. ~(i < j) /\ ~(j < i)
    <3>1. f[i] \in Nat /\ ~(f[i] < f[i])
      BY <2>1
    <3> QED
      BY <1>2, <2>2, <3>1 DEF Selects
  <2> QED
    BY <1>1, <2>3
<1> QED
  BY <1>1, <1>3 DEF CallList

OutputSuits(out, fold) == Writes(out.append) /\ Suits(out.append, fold)

LEMMA AppendOf ==
  ASSUME NEW items, NEW effects
  PROVE  Output(items, effects).append = items /\ Output(items, effects).effects = effects
BY DEF Output

LEMMA NothingSuits ==
  ASSUME NEW fold
  PROVE  OutputSuits(Nothing, fold)
BY NoneSuits DEF OutputSuits, Nothing, Output

LEMMA AnswerSuits ==
  ASSUME NEW fold, TurnLog(fold), NEW todo, CallList(todo)
  PROVE  OutputSuits(AfterAnswer(fold, todo), fold)
<1>1. 0 <= Len(fold) /\ fold \in Seq(Event) /\ Len(fold) \in Nat
  BY DEF TurnLog
<1>2. OutputSuits(ExpandToolCalls(todo), fold)
  BY <1>1, ExpandIs, ExpandSuits DEF OutputSuits
<1>3. OutputSuits(NextModelCall(fold), fold)
  BY <1>1, NextModelCallIs, NextSuits DEF OutputSuits
<1>4. OutputSuits(CloseTurn("completed"), fold)
  BY <1>1, CloseIs, NextSuits DEF OutputSuits, Hows
<1> QED
  BY <1>2, <1>3, <1>4 DEF AfterAnswer

\* One event of a kind.
LEMMA EvSuits ==
  ASSUME NEW fold, NEW effects, 0 <= Len(fold), NEW kind \in Kinds, kind # "foreign",
         NEW of \in Ofs, NEW how \in Hows
  PROVE  OutputSuits(Output(<<Ev(kind, of, how)>>, effects), fold)
BY EvIs, OneSuits, AppendOf DEF OutputSuits

\* What the end of a batch of invocations may lead to.
BatchEnds(L) ==
  {ParkTurn(L), CloseTurn("tool_terminated"), CloseTurn("work_failed"), NextModelCall(L)}

LEMMA BatchLeads ==
  ASSUME NEW L, NEW how
  PROVE  AfterBatch(L, how) \in BatchEnds(L)
BY DEF AfterBatch, BatchEnds

LEMMA BatchSuits ==
  ASSUME NEW fold, TurnLog(fold), NEW how
  PROVE  OutputSuits(AfterBatch(fold, how), fold)
<1>1. 0 <= Len(fold) /\ fold \in Seq(Event) /\ Len(fold) \in Nat
  BY DEF TurnLog
<1>2. OutputSuits(ParkTurn(fold), fold)
  <2>1. Cardinality(At(fold, {"turn.waiting"})) \in Ofs
    BY <1>1, WaitsAre DEF Ofs
  <2> QED
    BY <1>1, <2>1, EvSuits DEF ParkTurn, Kinds, Hows
<1>3. OutputSuits(NextModelCall(fold), fold)
  BY <1>1, NextModelCallIs, NextSuits DEF OutputSuits
<1>4. OutputSuits(CloseTurn("work_failed"), fold) /\ OutputSuits(CloseTurn("tool_terminated"), fold)
  BY <1>1, CloseIs, NextSuits DEF OutputSuits, Hows
<1> QED
  BY <1>2, <1>3, <1>4, BatchLeads DEF BatchEnds

LEMMA EventStepSuits ==
  ASSUME NEW fold, TurnLog(fold), NEW ev, ev.of \in Ofs
  PROVE  OutputSuits(EventStep(fold, ev), fold)
<1>1. 0 <= Len(fold) /\ fold \in Seq(Event) /\ Len(fold) \in Nat
  BY DEF TurnLog
<1>2. OutputSuits(Nothing, fold)
  BY NothingSuits
<1>3. OutputSuits(NextModelCall(fold), fold)
  BY <1>1, NextModelCallIs, NextSuits DEF OutputSuits
<1>4. OutputSuits(AfterAnswer(fold, IF ev.kind = "diagnostic" THEN <<>>
                                    ELSE CallsOf(fold, ev.of)), fold)
  <2>1. CallList(<<>>)
    BY DEF CallList
  <2> QED
    BY <2>1, CallsOfIs, AnswerSuits
<1>5. OutputSuits(CloseTurn("work_failed"), fold)
  BY <1>1, CloseIs, NextSuits DEF OutputSuits, Hows
<1>6. OutputSuits(AfterInvocation(fold, ev.how), fold)
  BY <1>2, BatchSuits DEF AfterInvocation
<1>7. OutputSuits(Output(<<>>, {Call(ev.of)}), fold)
  BY NoneSuits, AppendOf DEF OutputSuits
<1>8. OutputSuits(Output(<<Ev("invocation.terminal", ev.of, "denied")>>, {}), fold)
  BY <1>1, EvSuits DEF Kinds, Hows
<1>9. OutputSuits(Output(<<Ev("diagnostic", 0, "completed")>>, {}), fold)
  BY <1>1, EvSuits DEF Kinds, Hows, Ofs
<1>10. CASE ~Open(fold)
  BY <1>2, <1>10 DEF EventStep
<1>11. CASE Open(fold) /\ ev.kind \in {"message.terminal", "diagnostic"}
  <2>1. \/ EventStep(fold, ev) = AfterAnswer(fold, IF ev.kind = "diagnostic" THEN <<>>
                                                  ELSE CallsOf(fold, ev.of))
        \/ EventStep(fold, ev) = CloseTurn("work_failed")
        \/ EventStep(fold, ev) = NextModelCall(fold)
        \/ EventStep(fold, ev) = Nothing
    BY <1>11 DEF EventStep
  <2> QED
    BY <1>2, <1>3, <1>4, <1>5, <2>1
<1>12. CASE Open(fold) /\ ev.kind = "invocation.terminal"
  BY <1>6, <1>12 DEF EventStep
<1>13. CASE Open(fold) /\ ev.kind = "approval.resolved"
  BY <1>2, <1>7, <1>8, <1>13 DEF EventStep
<1>14. CASE Open(fold) /\ ev.kind = "artifacts.ready"
  BY <1>2, <1>3, <1>14 DEF EventStep
<1>15. CASE Open(fold) /\ ev.kind = "artifacts.failed"
  BY <1>9, <1>15 DEF EventStep
<1>16. CASE ev.kind \notin {"message.terminal", "diagnostic", "invocation.terminal",
                            "approval.resolved", "artifacts.ready", "artifacts.failed"}
  BY <1>2, <1>16 DEF EventStep
<1> QED
  BY <1>10, <1>11, <1>12, <1>13, <1>14, <1>15, <1>16

LEMMA SteerSuits ==
  ASSUME NEW fold, TurnLog(fold), NEW s \in Ofs
  PROVE  OutputSuits(Steer(fold, s), fold)
<1>1. 0 <= Len(fold)
  BY DEF TurnLog
<1>2. OutputSuits(Output(<<Ev("received", s, "steer")>>, {}), fold)
  BY <1>1, EvSuits DEF Kinds, Hows
<1> QED
  BY <1>2, NothingSuits DEF Steer

LEMMA FailureSuits ==
  ASSUME NEW fold, TurnLog(fold), NEW e
  PROVE  OutputSuits(EffectFailed(fold, e), fold)
<1>1. 0 <= Len(fold) /\ fold \in Seq(Event)
  BY DEF TurnLog
<1>2. PendingPreparations(fold) \subseteq Ofs /\ PendingInvocations(fold) \subseteq Ofs
      /\ PendingApprovals(fold) \subseteq Ofs
  BY <1>1, LoggedIs DEF PendingPreparations, PendingInvocations, PendingApprovals
<1>3. OutputSuits(Nothing, fold)
  BY NothingSuits
<1>4. e[2] \in Ofs =>
        /\ OutputSuits(Output(<<Ev("artifacts.failed", e[2], "failed")>>, {}), fold)
        /\ OutputSuits(Output(<<Ev("invocation.terminal", e[2], "failed")>>, {}), fold)
        /\ OutputSuits(Output(<<Ev("approval.resolved", e[2], "denied")>>, {}), fold)
  BY <1>1, EvSuits DEF Kinds, Hows
<1> QED
  BY <1>2, <1>3, <1>4 DEF EffectFailed

\* A wake ends an orphaned model call and goes on from there in the same batch.
OrphansOf(L) ==
  IF InFlight(L) = {} THEN <<>>
  ELSE <<Ev("message.terminal", CHOOSE n \in InFlight(L) : TRUE, "interrupted")>>

LEMMA WakeGoes ==
  ASSUME NEW fold
  PROVE  \E todo, more :
           /\ CallList(todo)
           /\ more \in {ExpandToolCalls(todo), NextModelCall(fold \o OrphansOf(fold)), Nothing}
           /\ \/ Wake(fold).append = OrphansOf(fold) \o more.append
              \/ Wake(fold).append = OrphansOf(fold)
<1> DEFINE orphans == OrphansOf(fold)
           after == fold \o orphans
           answered == {i \in Answers(after) : after[i].kind = "message.terminal"}
           lastCalls == IF answered = {} THEN <<>>
                        ELSE LET last == CHOOSE i \in answered :
                                             \A j \in answered : j <= i
                             IN CallsOf(after, after[last].of)
           unprocessed == Kept(lastCalls,
                               {i \in DOMAIN lastCalls :
                                  lastCalls[i] \notin Logged(after, "invocation.started")})
           next == IF unprocessed # <<>> THEN ExpandToolCalls(unprocessed)
                   ELSE IF /\ WakeGuard(after)
                           /\ \/ SteeringQueue(after) # {}
                              \/ EndsInToolResult(after)
                              \/ orphans # <<>>
                   THEN NextModelCall(after)
                   ELSE Nothing
<1>1. CallList(<<>>)
  BY DEF CallList
<1>2. CallList(lastCalls)
  BY <1>1, CallsOfIs
<1>3. CallList(unprocessed)
  <2> HIDE DEF lastCalls
  <2> QED
    BY <1>2, KeptCalls
<1>4. Wake(fold) = IF Open(after) THEN Output(orphans \o next.append, next.effects)
                   ELSE Output(orphans, {})
  BY DEF Wake, OrphansOf, WithOrphans
<1>5. next \in {ExpandToolCalls(unprocessed), NextModelCall(after), Nothing}
  <2> HIDE DEF unprocessed, orphans, after
  <2> QED
    OBVIOUS
<1> HIDE DEF next, unprocessed, orphans, after
<1>6. Wake(fold).append = orphans \o next.append \/ Wake(fold).append = orphans
  BY <1>4 DEF Output
<1> QED
  BY <1>3, <1>5, <1>6 DEF orphans, after

LEMMA WakeSuits ==
  ASSUME NEW fold, TurnLog(fold)
  PROVE  OutputSuits(Wake(fold), fold)
<1> DEFINE orphans == IF InFlight(fold) = {} THEN <<>>
                      ELSE <<Ev("message.terminal", CHOOSE n \in InFlight(fold) : TRUE,
                                "interrupted")>>
           after == fold \o orphans
<1>1. PICK todo, more :
        /\ CallList(todo)
        /\ more \in {ExpandToolCalls(todo), NextModelCall(after), Nothing}
        /\ Wake(fold).append = orphans \o more.append \/ Wake(fold).append = orphans
  BY WakeGoes DEF OrphansOf
<1>2. fold \in Seq(Event) /\ Len(fold) \in Nat /\ 0 <= Len(fold)
  BY DEF TurnLog
<1>3. after \in Seq(Event) =>
        Expands(more.append) \/ NextIs(more.append, Len(after))
  <2>1. Nothing.append = <<>>
    BY DEF Nothing, Output
  <2> HIDE DEF after
  <2> QED
    BY <1>1, <2>1, ExpandIs, NextModelCallIs DEF NextIs
<1>4. CASE InFlight(fold) = {}
  <2>1. orphans = <<>> /\ after = fold
    BY <1>2, <1>4
  <2>2. Wake(fold).append = <<>> \/ Wake(fold).append = more.append
    <3> HIDE DEF orphans, after
    <3>1. more.append \in Seq(Event)
      <4>1. \A ev \in Event : <<ev>> \in Seq(Event)
        OBVIOUS
      <4>2. Expands(more.append) \/ NextIs(more.append, Len(after))
        BY <1>2, <1>3, <2>1
      <4>3. <<>> \in Seq(Event)
        OBVIOUS
      <4> QED
        BY <4>1, <4>2, <4>3 DEF Expands, NextIs
    <3> QED
      BY <1>1, <2>1, <3>1
  <2>3. Expands(more.append) \/ NextIs(more.append, Len(fold))
    BY <1>2, <1>3, <2>1
  <2> HIDE DEF orphans, after
  <2> QED
    BY <1>2, <2>2, <2>3, NoneSuits, ExpandSuits, NextSuits DEF OutputSuits
<1>5. CASE InFlight(fold) # {}
  <2> DEFINE n == CHOOSE n \in InFlight(fold) : TRUE
             t == Ev("message.terminal", n, "interrupted")
  <2>1. n \in InFlight(fold)
    BY <1>5
  <2>2. n \in Ofs /\ ~SameId([kind |-> "message.terminal", of |-> n], fold[Len(fold)])
    <3> HIDE DEF n
    <3> QED
      BY <2>1, InFlightIs
  <2>3. /\ t \in Event /\ t.kind = "message.terminal" /\ t.of = n /\ t.upTo = 0
    <3> HIDE DEF n
    <3> QED
      BY <2>2, EvIs DEF Kinds, Hows
  <2>4. ~SameId(t, fold[Len(fold)])
    <3> HIDE DEF n, t
    <3> QED
      BY <2>2, <2>3 DEF SameId
  <2>5. orphans = <<t>>
    BY <1>5
  <2> HIDE DEF n, t, orphans
  <2>6. after \in Seq(Event) /\ Len(after) = Len(fold) + 1
    BY <1>2, <2>3, <2>5
  <2> HIDE DEF after
  <2>7. OutputSuits([append |-> <<t>>], fold)
    BY <1>2, <2>3, OneSuits DEF OutputSuits
  <2>8. more.append = <<>> => Writes(<<t>> \o more.append) /\ Suits(<<t>> \o more.append, fold)
    BY <2>3, <2>7 DEF OutputSuits
  <2>9. ASSUME NEW ev \in Event, ev.upTo <= Len(after),
               ev.kind \in {"message.started", "turn.closed"}
        PROVE  Writes(<<t>> \o <<ev>>) /\ Suits(<<t>> \o <<ev>>, fold)
    <3> DEFINE two == <<t>> \o <<ev>>
    <3>1. two \in Seq(Event) /\ Len(two) = 2 /\ two[1] = t /\ two[2] = ev
      BY <2>3
    <3>2. \A k \in 1 .. 2 : k = 1 \/ k = 2
      OBVIOUS
    <3> HIDE DEF two
    <3>3. Writes(two)
      BY <2>3, <2>9, <3>1, <3>2 DEF Writes, SameId
    <3>4. PairCounts(two, fold, 2)
      BY <2>4, <2>6, <2>9, <3>1 DEF PairCounts
    <3>5. Suits(two, fold)
      BY <1>2, <2>3, <2>9, <3>1, <3>2, <3>4 DEF Suits, InertKinds
    <3> QED
      BY <3>3, <3>5 DEF two
  <2>10. ASSUME Expands(more.append)
         PROVE  Writes(<<t>> \o more.append) /\ Suits(<<t>> \o more.append, fold)
    <3> DEFINE rest == more.append
               all == <<t>> \o rest
    <3>1. rest \in Seq(Event)
      BY <2>10 DEF Expands
    <3> HIDE DEF rest
    <3>2. /\ all \in Seq(Event) /\ Len(all) = Len(rest) + 1 /\ all[1] = t
          /\ \A k \in 1 .. Len(all) : k = 1 \/ (k - 1 \in 1 .. Len(rest) /\ all[k] = rest[k - 1])
      BY <2>3, <3>1
    <3> HIDE DEF all
    <3>3. \A k \in 1 .. Len(rest) : /\ rest[k].kind \in {"invocation.started", "approval.requested"}
                                   /\ rest[k].upTo = 0
      BY <2>10 DEF Expands, rest
    <3>4. \A i, j \in 1 .. Len(rest) : SameId(rest[i], rest[j]) => i = j
      BY <2>10 DEF Expands, rest
    <3>5. Writes(all)
      <4>1. \A k \in 1 .. Len(all) : all[k].kind # "foreign"
        BY <2>3, <3>2, <3>3
      <4>2. ASSUME NEW i \in 1 .. Len(all), NEW j \in 1 .. Len(all), SameId(all[i], all[j])
            PROVE  i = j
        <5>1. CASE i = 1 /\ j = 1
          BY <5>1
        <5>2. \A k \in 1 .. Len(all) : k # 1 => ~SameId(t, all[k]) /\ ~SameId(all[k], t)
          <6>1. \A k \in 1 .. Len(all) :
                  k # 1 => all[k].kind \in {"invocation.started", "approval.requested"}
            BY <3>2, <3>3
          <6> QED
            BY <2>3, <6>1 DEF SameId
        <5>3. CASE (i = 1 /\ j # 1) \/ (i # 1 /\ j = 1)
          BY <3>2, <4>2, <5>2, <5>3
        <5>4. CASE i # 1 /\ j # 1
          <6>1. /\ i - 1 \in 1 .. Len(rest) /\ all[i] = rest[i - 1]
                /\ j - 1 \in 1 .. Len(rest) /\ all[j] = rest[j - 1]
            BY <3>2, <5>4
          <6>2. i - 1 = j - 1
            BY <3>4, <4>2, <6>1
          <6> QED
            BY <6>2
        <5> QED
          BY <5>1, <5>3, <5>4
      <4> QED
        BY <3>2, <4>1, <4>2 DEF Writes
    <3>6. Suits(all, fold)
      BY <1>2, <2>3, <3>2, <3>3 DEF Suits, InertKinds
    <3> QED
      BY <3>5, <3>6 DEF all, rest
  <2>11. NextIs(more.append, Len(after)) =>
           Writes(<<t>> \o more.append) /\ Suits(<<t>> \o more.append, fold)
    BY <2>8, <2>9 DEF NextIs
  <2>12. Writes(<<t>> \o more.append) /\ Suits(<<t>> \o more.append, fold)
    BY <1>3, <2>6, <2>10, <2>11
  <2> QED
    BY <1>1, <2>5, <2>7, <2>12 DEF OutputSuits
<1> QED
  BY <1>4, <1>5

\* The commands of a job, beside the events of the log.
CommandEvent == [kind : {"wake", "steer", "effect-failed"}, of : Ofs, how : Hows, upTo : Nat]

Incoming == Event \cup CommandEvent

LEMMA IncomingIs ==
  ASSUME NEW ev \in Incoming
  PROVE  /\ ev.of \in Ofs
         /\ ev.kind \in {"wake", "steer", "effect-failed"} \/ ev \in Event
BY DEF Incoming, Event, CommandEvent

LEMMA StepSuits ==
  ASSUME NEW fold, TurnLog(fold), NEW ev \in Incoming
  PROVE  OutputSuits(StepOutput(fold, ev), fold)
<1>1. ev.of \in Ofs
  BY IncomingIs
<1> QED
  BY <1>1, WakeSuits, SteerSuits, FailureSuits, EventStepSuits DEF StepOutput

\* Nothing comes of an inert event.
LEMMA InertIsInert ==
  ASSUME NEW fold, NEW ev, ev.kind \in InertKinds
  PROVE  StepOutput(fold, ev).append = <<>> /\ StepOutput(fold, ev).effects = {}
<1>1. StepOutput(fold, ev) = EventStep(fold, ev)
  BY DEF StepOutput, InertKinds
<1>2. EventStep(fold, ev) = Nothing
  BY DEF EventStep, InertKinds
<1> QED
  BY <1>1, <1>2 DEF Nothing, Output

LEMMA EffectIs ==
  ASSUME NEW e \in Effects
  PROVE  e[1] \in {"model", "call", "form", "prep"} /\ e[2] \in Ofs
<1>1. CASE \E n \in 1 .. ModelLimit : e = Model(n)
  BY <1>1, TurnAssumption DEF Model, Ofs
<1>2. CASE \E c \in Tools : e = Call(c)
  BY <1>2 DEF Call, Ofs
<1>3. CASE \E c \in Gated : e = Form(c)
  BY <1>3, TurnAssumption DEF Form, Ofs
<1>4. CASE \E s \in Steers : e = Prep(s)
  BY <1>4 DEF Prep, Ofs
<1> QED
  BY <1>1, <1>2, <1>3, <1>4 DEF Effects

LEMMA OutcomesAre ==
  ASSUME NEW e \in Effects
  PROVE  Outcomes(e) \subseteq Hows
BY EffectIs, TurnAssumption DEF Outcomes, Hows

LEMMA OutcomeSuits ==
  ASSUME NEW e \in Effects, NEW how \in Hows, NEW fold, TurnLog(fold)
  PROVE  Writes(OutcomeEvents(e, how)) /\ Suits(OutcomeEvents(e, how), fold)
<1>1. e[2] \in Ofs /\ 0 <= Len(fold)
  BY EffectIs DEF TurnLog
<1>2. PICK kind \in {"message.terminal", "invocation.terminal", "approval.resolved",
                     "artifacts.ready"} :
        OutcomeEvents(e, how) = <<Ev(kind, e[2], how)>>
  BY EffectIs DEF OutcomeEvents
<1>3. kind \in Kinds /\ kind # "foreign"
  BY DEF Kinds
<1> QED
  BY <1>1, <1>2, <1>3, EvIs, OneSuits

\* The ends of what is pending, in some order.
PendingItems(S, kind, how) ==
  CHOOSE seq \in [1 .. Cardinality(S) -> {Ev(kind, c, how) : c \in S}] :
    {seq[i].of : i \in DOMAIN seq} = S

\* Events of a kind, each of something else.
EachOnce(items, kind) ==
  /\ items \in Seq(Event)
  /\ \A k \in 1 .. Len(items) : items[k].kind = kind /\ items[k].upTo = 0
  /\ \A i, j \in 1 .. Len(items) : SameId(items[i], items[j]) => i = j

LEMMA PendingItemsAre ==
  ASSUME NEW S, IsFiniteSet(S), S \subseteq Ofs, NEW kind \in Kinds, NEW how \in Hows
  PROVE  /\ EachOnce(PendingItems(S, kind, how), kind)
         /\ \A x : x \in S <=> \E i \in 1 .. Len(PendingItems(S, kind, how)) :
                                  PendingItems(S, kind, how)[i].of = x
<1> DEFINE n == Cardinality(S)
           E == {Ev(kind, c, how) : c \in S}
           seq == PendingItems(S, kind, how)
<1>1. n \in Nat /\ ExistsBijection(1 .. n, S)
  BY FS_CardinalityType
<1>2. PICK b \in Bijection(1 .. n, S) : TRUE
  BY <1>1 DEF ExistsBijection
<1>3. b \in [1 .. n -> S] /\ \A c \in S : \E i \in 1 .. n : b[i] = c
  BY <1>2 DEF Bijection, Surjection
<1>4. \A c \in S : /\ Ev(kind, c, how) \in Event /\ Ev(kind, c, how).of = c
                  /\ Ev(kind, c, how).kind = kind /\ Ev(kind, c, how).upTo = 0
  BY EvIs
<1>5. \E q \in [1 .. n -> E] : {q[i].of : i \in DOMAIN q} = S
  <2> DEFINE q == [i \in 1 .. n |-> Ev(kind, b[i], how)]
  <2>1. q \in [1 .. n -> E]
    BY <1>3
  <2>2. DOMAIN q = 1 .. n /\ \A i \in 1 .. n : q[i].of = b[i]
    BY <1>3, <1>4
  <2> HIDE DEF q
  <2>3. {q[i].of : i \in DOMAIN q} = S
    BY <1>3, <2>2
  <2> QED
    BY <2>1, <2>3
<1>6. seq \in [1 .. n -> E] /\ {seq[i].of : i \in DOMAIN seq} = S
  BY <1>5 DEF PendingItems
<1> HIDE DEF seq
<1>7. DOMAIN seq = 1 .. n /\ \A i \in 1 .. n : seq[i] \in E
  BY <1>6
<1>8. \A i \in 1 .. n : seq[i] \in Event /\ seq[i].kind = kind /\ seq[i].upTo = 0
  BY <1>4, <1>7
<1>9. seq \in Seq(Event) /\ Len(seq) = n
  <2>1. seq \in [1 .. n -> Event]
    BY <1>6, <1>8
  <2> HIDE DEF n
  <2> QED
    BY <1>1, <2>1
<1>10. ASSUME NEW i \in 1 .. n, NEW j \in 1 .. n, seq[i].of = seq[j].of
       PROVE  i = j
  <2> DEFINE ofs == [k \in 1 .. n |-> seq[k].of]
  <2>1. ofs \in Surjection(1 .. n, S)
    BY <1>6, <1>7 DEF Surjection
  <2>2. IsFiniteSet(1 .. n) /\ Cardinality(1 .. n) = n
    BY <1>1, FS_Interval
  <2>3. ofs \in Injection(1 .. n, S)
    <3> HIDE DEF ofs
    <3> QED
      BY <2>1, <2>2, FS_SurjSameCardinalityImpliesInj
  <2>4. ofs[i] = ofs[j]
    BY <1>10
  <2> HIDE DEF ofs
  <2> QED
    BY <2>3, <2>4 DEF Injection, IsInjective
<1>11. \A x : x \in S <=> \E i \in 1 .. n : seq[i].of = x
  BY <1>6, <1>7
<1> QED
  BY <1>8, <1>9, <1>10, <1>11 DEF SameId, seq, EachOnce

LEMMA LoggedIsFinite ==
  ASSUME NEW L \in Seq(Event), NEW kind
  PROVE  IsFiniteSet(Logged(L, kind))
<1> DEFINE I == At(L, {kind})
           f == [i \in I |-> L[i].of]
<1>1. IsFiniteSet(1 .. Len(L)) /\ I \subseteq 1 .. Len(L)
  BY FS_Interval DEF At
<1>2. IsFiniteSet(I)
  BY <1>1, FS_Subset
<1>3. f \in Surjection(I, Logged(L, kind))
  BY DEF Surjection, Logged
<1> HIDE DEF I, f
<1> QED
  BY <1>2, <1>3, FS_Surjection

LEMMA StrandedWrites ==
  ASSUME log \in Seq(Event)
  PROVE  /\ Writes(StrandedFailure(log))
         /\ \A k \in 1 .. Len(StrandedFailure(log)) : StrandedFailure(log)[k].upTo = 0
<1> DEFINE one == PendingItems(PendingInvocations(log), "invocation.terminal", "abandoned")
           two == PendingItems(PendingApprovals(log), "approval.resolved", "denied")
           end == Ev("turn.closed", 0, "stranded")
           all == one \o two \o <<end>>
<1>1. /\ IsFiniteSet(PendingInvocations(log)) /\ PendingInvocations(log) \subseteq Ofs
      /\ IsFiniteSet(PendingApprovals(log)) /\ PendingApprovals(log) \subseteq Ofs
  <2>1. /\ PendingInvocations(log) \subseteq Logged(log, "invocation.started")
        /\ PendingApprovals(log) \subseteq Logged(log, "approval.requested")
    BY DEF PendingInvocations, PendingApprovals
  <2> QED
    BY <2>1, LoggedIs, LoggedIsFinite, FS_Subset
<1>2. StrandedFailure(log) = all
  BY DEF StrandedFailure, PendingItems
<1> HIDE DEF all
<1>3. EachOnce(one, "invocation.terminal")
  <2>1. "invocation.terminal" \in Kinds /\ "abandoned" \in Hows
    BY DEF Kinds, Hows
  <2> QED
    BY <1>1, <2>1, PendingItemsAre
<1>4. EachOnce(two, "approval.resolved")
  <2>1. "approval.resolved" \in Kinds /\ "denied" \in Hows
    BY DEF Kinds, Hows
  <2> QED
    BY <1>1, <2>1, PendingItemsAre
<1> USE DEF all
<1>5. end \in Event /\ end.kind = "turn.closed" /\ end.upTo = 0
  <2>1. "turn.closed" \in Kinds /\ "stranded" \in Hows /\ 0 \in Ofs
    BY DEF Kinds, Hows, Ofs
  <2> QED
    BY <2>1, EvIs
<1> HIDE DEF one, two, end
<1>6. PICK m \in Nat, n \in Nat : m = Len(one) /\ n = Len(two)
  BY <1>3, <1>4 DEF EachOnce
<1>7. /\ all \in Seq(Event) /\ Len(all) = m + n + 1
      /\ \A k \in 1 .. m : all[k] = one[k]
      /\ \A k \in 1 .. n : all[m + k] = two[k]
      /\ all[m + n + 1] = end
  BY <1>3, <1>4, <1>5, <1>6 DEF EachOnce
<1> HIDE DEF all
<1> DEFINE First(k) == k \in 1 .. m
           Second(k) == k \in 1 .. (m + n) /\ k > m
           Last_(k) == k = m + n + 1
<1>8. ASSUME NEW k \in 1 .. (m + n + 1)
      PROVE  /\ First(k) \/ Second(k) \/ Last_(k)
             /\ Second(k) => k - m \in 1 .. n /\ all[k] = two[k - m]
  <2>1. First(k) \/ Second(k) \/ Last_(k)
    OBVIOUS
  <2>2. ASSUME Second(k)
        PROVE  k - m \in 1 .. n /\ all[k] = two[k - m]
    <3>1. k - m \in 1 .. n /\ k = m + (k - m)
      BY <2>2
    <3>2. PICK l \in 1 .. n : l = k - m
      BY <3>1
    <3> QED
      BY <1>7, <3>1, <3>2
  <2> QED
    BY <2>1, <2>2
<1>9. ASSUME NEW k \in 1 .. (m + n + 1)
      PROVE  /\ all[k].upTo = 0
             /\ First(k) => all[k].kind = "invocation.terminal"
             /\ Second(k) => all[k].kind = "approval.resolved"
             /\ Last_(k) => all[k].kind = "turn.closed"
  <2>1. First(k) => all[k].upTo = 0 /\ all[k].kind = "invocation.terminal"
    BY <1>3, <1>6, <1>7 DEF EachOnce
  <2>2. Second(k) => all[k].upTo = 0 /\ all[k].kind = "approval.resolved"
    BY <1>4, <1>6, <1>8 DEF EachOnce
  <2>3. Last_(k) => all[k].upTo = 0 /\ all[k].kind = "turn.closed"
    BY <1>5, <1>7
  <2> QED
    BY <1>8, <2>1, <2>2, <2>3
<1>10. ASSUME NEW i \in 1 .. (m + n + 1), NEW j \in 1 .. (m + n + 1),
              SameId(all[i], all[j])
       PROVE  i = j
  <2>1. all[i].kind = all[j].kind
    BY <1>10 DEF SameId
  <2>2. CASE First(i) /\ First(j)
    BY <1>3, <1>6, <1>7, <1>10, <2>2 DEF EachOnce
  <2>3. CASE Second(i) /\ Second(j)
    <3>1. i - m = j - m
      BY <1>4, <1>6, <1>8, <1>10, <2>3 DEF EachOnce
    <3> QED
      BY <3>1
  <2>4. CASE Last_(i) /\ Last_(j)
    BY <2>4
  <2> HIDE DEF First, Second, Last_
  <2>5. /\ First(i) \/ Second(i) \/ Last_(i)
        /\ First(j) \/ Second(j) \/ Last_(j)
    BY <1>8
  <2>6. /\ First(i) => all[i].kind = "invocation.terminal"
        /\ Second(i) => all[i].kind = "approval.resolved"
        /\ Last_(i) => all[i].kind = "turn.closed"
        /\ First(j) => all[j].kind = "invocation.terminal"
        /\ Second(j) => all[j].kind = "approval.resolved"
        /\ Last_(j) => all[j].kind = "turn.closed"
    BY <1>9
  <2> QED
    BY <2>1, <2>2, <2>3, <2>4, <2>5, <2>6
<1>11. \A k \in 1 .. Len(all) : all[k].kind # "foreign" /\ all[k].upTo = 0
  BY <1>7, <1>8, <1>9
<1> QED
  BY <1>2, <1>7, <1>10, <1>11 DEF Writes

(***************************************************************************)
(* The invariant: the log, the loop in use, and the loop objects of the    *)
(* running step.                                                           *)
(***************************************************************************)

FrameType == [fold : Seq(Event), todo : Seq(Incoming), tries : Nat, live : BOOLEAN]

Job ==
  [op : {"none", "outcome", "push", "wake", "adoption", "steer", "failed"},
   at : Phases, effect : Effects \cup {NoEffect}, how : Hows \cup Steers,
   tries : 0 .. HeadConflictRetries, due : BOOLEAN, frames : Seq(FrameType)]

Types ==
  /\ rows \in [Effects -> Dispositions] /\ executing \subseteq Effects
  /\ wakes \in [Effects -> {"none", "ready", "leased"}]
  /\ steered \subseteq Steers /\ recovered \in BOOLEAN /\ crashes \in 0 .. FaultLimit
  /\ job \in Job
  /\ job.at = "append" => job.effect \in Effects /\ job.how \in Hows
  /\ job.op = "steer" => job.how \in Steers

\* The loop in use is current.
LoopOK(fold) == fold = <<>> \/ Current(fold)

InertFrom(todo, n) == \A k \in 1 .. Len(todo) : k > n => todo[k].kind \in InertKinds

\* One activation of runStep, the i-th of n.  Only the innermost works on the loop in
\* use; the others have nothing left that would append.
FrameOK(f, i, n) ==
  /\ f \in FrameType /\ Folds(f.fold)
  /\ InertFrom(f.todo, 1)
  /\ f.live => i = n /\ Current(f.fold)
  /\ ~f.live => InertFrom(f.todo, 0)
  /\ f.tries + i <= AppendRetries + 1

FramesOK(frames) ==
  /\ frames \in Seq(FrameType)
  /\ \A i \in 1 .. Len(frames) : FrameOK(frames[i], i, Len(frames))

\* An outcome that is journalled and not folded yet.
CommitOK(fold, frames) ==
  /\ Folds(fold)
  /\ frames \in Seq(FrameType) /\ Len(frames) = 1 /\ Folds(frames[1].fold)
  /\ frames[1].todo \in Seq(Event) /\ InertFrom(frames[1].todo, 1)
  /\ Current(fold \o frames[1].todo)

RunningAt(phase) == phase \in {"run", "refeed"}

JobOK ==
  \A fold, frames :
    cached = fold /\ job.frames = frames =>
      /\ job.at = "commit" => CommitOK(fold, frames)
      /\ job.at # "commit" => LoopOK(fold)
      /\ RunningAt(job.at) =>
           FramesOK(frames) /\ \A i \in 1 .. Len(frames) : frames[i].todo # <<>>
      /\ job.at # "commit" /\ ~RunningAt(job.at) => frames = <<>>

SettlementInv == LogOK /\ Types /\ JobOK

\* Between two steps of a job, other writers append at most.
OthersAppend ==
  /\ Len(log) \in Nat /\ Len(log') \in Nat /\ Len(log) <= Len(log')
  /\ \A i \in 1 .. Len(log) : log'[i] = log[i]
  /\ \A i \in 1 .. Len(log') : i > Len(log) => log'[i].kind = "foreign"

LEMMA LogRests ==
  ASSUME LogOK, UNCHANGED log
  PROVE  OthersAppend /\ LogOK'
<1>1. OthersAppend
  BY DEF OthersAppend, LogOK
<1>2. LogOK'
  BY DEF LogOK, IdsAreUnique, SameId, ForeignersCount, ContextsAreBehind, Foreigns, At
<1> QED
  BY <1>1, <1>2

LEMMA FoldsStay ==
  ASSUME OthersAppend, NEW fold
  PROVE  /\ Folds(fold) => Folds(fold)'
         /\ Current(fold) => Current(fold)'
         /\ LoopOK(fold) => LoopOK(fold)'
<1>1. Folds(fold) => Folds(fold)'
  BY DEF OthersAppend, Folds
<1>2. Current(fold) => Current(fold)'
  BY <1>1 DEF OthersAppend, Current
<1> QED
  BY <1>1, <1>2 DEF LoopOK

LEMMA FramesStay ==
  ASSUME OthersAppend, NEW frames
  PROVE  FramesOK(frames) => FramesOK(frames)'
BY FoldsStay DEF FramesOK, FrameOK

LEMMA CommitStays ==
  ASSUME OthersAppend, NEW fold, NEW frames
  PROVE  CommitOK(fold, frames) => CommitOK(fold, frames)'
BY FoldsStay DEF CommitOK

LEMMA JobStays ==
  ASSUME JobOK, OthersAppend, UNCHANGED <<cached, job>>
  PROVE  JobOK'
BY FoldsStay, FramesStay, CommitStays DEF JobOK

\* The whole log is a current fold, and so is what loop() returns.
LEMMA LogIsCurrent ==
  ASSUME LogOK
  PROVE  Current(log) /\ LoopOK(log)
BY DEF LogOK, Current, Folds, LoopOK

LEMMA LoopIs ==
  ASSUME LogOK, LoopOK(cached)
  PROVE  Current(Loop) /\ LoopOK(Loop)
BY LogIsCurrent DEF Loop, LoopOK, Current, Folds

\* A job that is over, or at a step without activations.
LEMMA QuietJob ==
  ASSUME NEW fold, LoopOK(fold)', cached' = fold, job'.frames = <<>>, job'.at # "commit"
  PROVE  JobOK'
<1>1. FramesOK(<<>>)'
  BY DEF FramesOK
<1> QED
  BY <1>1 DEF JobOK

\* A job that starts an activation on a current fold.
LEMMA FirstFrame ==
  ASSUME NEW fold, Current(fold)', NEW todo \in Seq(Incoming), InertFrom(todo, 1)
  PROVE  /\ Frame(fold, todo, AppendRetries, TRUE) \in FrameType
         /\ FramesOK(<<Frame(fold, todo, AppendRetries, TRUE)>>)'
<1> DEFINE f == Frame(fold, todo, AppendRetries, TRUE)
<1>1. f \in FrameType
  BY SettlementAssumption DEF Frame, FrameType, Current, Folds
<1>2. /\ f.fold = fold /\ f.todo = todo /\ f.tries = AppendRetries /\ f.live = TRUE
  BY DEF Frame
<1> HIDE DEF f
<1>3. <<f>> \in Seq(FrameType) /\ Len(<<f>>) = 1 /\ <<f>>[1] = f
  BY <1>1
<1>4. FrameOK(f, 1, 1)'
  BY <1>1, <1>2, SettlementAssumption DEF FrameOK, Current
<1>5. \A i \in 1 .. 1 : i = 1
  OBVIOUS
<1>6. FramesOK(<<f>>)'
  BY <1>3, <1>4, <1>5 DEF FramesOK
<1> QED
  BY <1>1, <1>6 DEF f

LEMMA NewActivation ==
  ASSUME NEW fold, Current(fold)', NEW todo \in Seq(Incoming), InertFrom(todo, 1),
         todo # <<>>, NEW loop, LoopOK(loop)', cached' = loop,
         RunningAt(job'.at), job'.frames = <<Frame(fold, todo, AppendRetries, TRUE)>>
  PROVE  JobOK' /\ job'.frames \in Seq(FrameType)
<1> DEFINE f == Frame(fold, todo, AppendRetries, TRUE)
<1>1. f \in FrameType /\ FramesOK(<<f>>)'
  BY FirstFrame
<1>2. f.todo = todo
  BY DEF Frame
<1> HIDE DEF f
<1>3. <<f>> \in Seq(FrameType) /\ Len(<<f>>) = 1 /\ <<f>>[1] = f
  BY <1>1
<1>4. job'.frames = <<f>>
  BY DEF f
<1>5. \A i \in 1 .. Len(<<f>>) : <<f>>[i].todo # <<>>
  BY <1>2, <1>3
<1>6. JobOK'
  <2> SUFFICES ASSUME NEW c, NEW frames, cached' = c, job'.frames = frames
               PROVE  /\ job'.at = "commit" => CommitOK(c, frames)'
                      /\ job'.at # "commit" => LoopOK(c)'
                      /\ RunningAt(job'.at) =>
                           FramesOK(frames)' /\ \A i \in 1 .. Len(frames) : frames[i].todo # <<>>
                      /\ job'.at # "commit" /\ ~RunningAt(job'.at) => frames = <<>>
    BY DEF JobOK, RunningAt
  <2> QED
    BY <1>1, <1>4, <1>5 DEF RunningAt
<1> QED
  BY <1>3, <1>4, <1>6

\* What is kept is no longer, and nothing moves up by more than what has gone.
LEMMA SelectsBound ==
  ASSUME NEW S, NEW t \in Seq(S), NEW s, NEW I, NEW n \in Nat, NEW f, Selects(f, t, s, I, n)
  PROVE  \A k \in 1 .. Len(t) : k <= f[k]
<1> DEFINE P == {k \in 0 .. Len(t) : k = 0 \/ k <= f[k]}
<1>1. Len(t) \in Nat
  OBVIOUS
<1>2. 0 \in P
  BY <1>1
<1>3. ASSUME NEW k \in 0 .. Len(t), k < Len(t), k \in P
      PROVE  k + 1 \in P
  <2>1. k + 1 \in 1 .. Len(t) /\ k + 1 \in 0 .. Len(t) /\ f[k + 1] \in Nat /\ 1 <= f[k + 1]
    BY <1>1, <1>3 DEF Selects
  <2>2. CASE k = 0
    BY <2>1, <2>2
  <2>3. CASE k # 0
    <3>1. k \in 1 .. Len(t) /\ k < k + 1
      BY <1>3, <2>3
    <3>2. f[k] < f[k + 1] /\ f[k] \in Nat
      BY <2>1, <3>1 DEF Selects
    <3>3. k <= f[k]
      BY <1>3, <2>3
    <3>4. k + 1 <= f[k + 1]
      BY <2>1, <3>1, <3>2, <3>3
    <3> QED
      BY <2>1, <3>4
  <2> QED
    BY <2>2, <2>3
<1>4. \A k \in 0 .. Len(t) : k \in P
  <2> HIDE DEF P
  <2> QED
    BY <1>1, <1>2, <1>3, Induct
<1> QED
  BY <1>4

LEMMA ReturnedOK ==
  ASSUME NEW frames, FramesOK(frames)'
  PROVE  /\ FramesOK(Returned(frames))'
         /\ Returned(frames) \in Seq(FrameType)
         /\ \A i \in 1 .. Len(Returned(frames)) : Returned(frames)[i].todo # <<>>
         /\ Len(Returned(frames)) <= Len(frames)
<1> DEFINE I == {i \in DOMAIN frames : frames[i].todo # <<>>}
           rest == Returned(frames)
<1>1. frames \in Seq(FrameType) /\ rest = Kept(frames, I)
  BY DEF Returned, FramesOK
<1>2. rest \in Seq(FrameType)
  <2> HIDE DEF I, rest
  <2> QED
    BY <1>1, KeptSelects
<1>3. PICK f : Selects(f, rest, frames, I, Len(frames))
  <2> HIDE DEF I, rest
  <2> QED
    BY <1>1, KeptSelects
<1> HIDE DEF rest
<1>4. PICK m \in Nat, n \in Nat : m = Len(rest) /\ n = Len(frames)
  <2>1. Len(rest) \in Nat /\ Len(frames) \in Nat
    BY <1>1, <1>2
  <2> HIDE DEF I
  <2> QED
    BY <2>1
<1>5. \A k \in 1 .. m : k <= f[k]
  BY <1>1, <1>2, <1>3, <1>4, SelectsBound
<1>6. ASSUME NEW k \in 1 .. m
      PROVE  FrameOK(rest[k], k, m)'
  <2>1. /\ f[k] \in 1 .. n /\ rest[k] = frames[f[k]] /\ k <= f[k]
    BY <1>3, <1>4, <1>5 DEF Selects
  <2>2. FrameOK(frames[f[k]], f[k], n)'
    BY <1>4, <2>1 DEF FramesOK
  <2>3. f[k] = n => k = m
    <3> SUFFICES ASSUME f[k] = n, k # m
                 PROVE  FALSE
      OBVIOUS
    <3>1. k < m /\ m \in 1 .. m
      OBVIOUS
    <3>2. f[k] < f[m] /\ f[m] \in 1 .. n
      BY <1>3, <1>4, <3>1 DEF Selects
    <3> QED
      BY <3>2
  <2>4. PICK t \in Nat : t = rest[k].tries
    <3>1. rest[k] \in FrameType
      BY <1>2, <1>4
    <3> QED
      BY <3>1 DEF FrameType
  <2>5. t + k <= AppendRetries + 1
    <3>1. t + f[k] <= AppendRetries + 1 /\ f[k] \in Nat
      BY <2>1, <2>2, <2>4 DEF FrameOK
    <3> QED
      BY <2>1, <3>1, SettlementAssumption
  <2> QED
    BY <2>1, <2>2, <2>3, <2>4, <2>5 DEF FrameOK
<1>7. \A k \in 1 .. m : rest[k].todo # <<>>
  BY <1>1, <1>3, <1>4 DEF Selects
<1>8. m <= n
  <2>1. CASE m = 0
    BY <2>1
  <2>2. CASE m # 0
    <3>1. m \in 1 .. m /\ m <= f[m] /\ f[m] \in 1 .. n
      BY <1>3, <1>4, <1>5, <2>2 DEF Selects
    <3> QED
      BY <3>1
  <2> QED
    BY <2>1, <2>2
<1>9. FramesOK(rest)'
  BY <1>2, <1>4, <1>6 DEF FramesOK
<1> QED
  BY <1>2, <1>4, <1>7, <1>8, <1>9 DEF rest

\* A step of the activations that are running.
LEMMA NextFrames ==
  ASSUME NEW frames, FramesOK(frames)', NEW loop, LoopOK(loop)', cached' = loop,
         RunningAt(job'.at), job'.frames = Returned(frames)
  PROVE  JobOK' /\ job'.frames \in Seq(FrameType)
<1>1. /\ FramesOK(Returned(frames))' /\ Returned(frames) \in Seq(FrameType)
      /\ \A i \in 1 .. Len(Returned(frames)) : Returned(frames)[i].todo # <<>>
  BY ReturnedOK
<1>2. JobOK'
  <2> SUFFICES ASSUME NEW c, NEW fs, cached' = c, job'.frames = fs
               PROVE  /\ job'.at = "commit" => CommitOK(c, fs)'
                      /\ job'.at # "commit" => LoopOK(c)'
                      /\ RunningAt(job'.at) =>
                           FramesOK(fs)' /\ \A i \in 1 .. Len(fs) : fs[i].todo # <<>>
                      /\ job'.at # "commit" /\ ~RunningAt(job'.at) => fs = <<>>
    BY DEF JobOK, RunningAt
  <2> QED
    BY <1>1 DEF RunningAt
<1> QED
  BY <1>1, <1>2

(***************************************************************************)
(* The types of what the steps write.                                      *)
(***************************************************************************)

JobTypes ==
  /\ job \in Job
  /\ job.at = "append" => job.effect \in Effects /\ job.how \in Hows
  /\ job.op = "steer" => job.how \in Steers

RestTypes ==
  /\ executing \subseteq Effects
  /\ wakes \in [Effects -> {"none", "ready", "leased"}]
  /\ steered \subseteq Steers /\ recovered \in BOOLEAN

RowTypes == rows \in [Effects -> Dispositions]

LEMMA TypesAre == Types <=> JobTypes /\ RestTypes /\ RowTypes /\ crashes \in 0 .. FaultLimit
BY DEF Types, JobTypes, RestTypes, RowTypes

LEMMA TypesAreNext ==
  Types' <=> JobTypes' /\ RestTypes' /\ RowTypes' /\ crashes' \in 0 .. FaultLimit
BY DEF Types, JobTypes, RestTypes, RowTypes

LEMMA TablesAre ==
  ASSUME NEW table \in [Effects -> Dispositions]
  PROVE  /\ \A e : Deleted(table, e) \in [Effects -> Dispositions]
         /\ \A S : Inserted(table, S) \in [Effects -> Dispositions]
         /\ \A L : Reconciled(L, table) \in [Effects -> Dispositions]
<1>1. "none" \in Dispositions /\ "ready" \in Dispositions
  BY DEF Dispositions
<1>2. \A e : Deleted(table, e) \in [Effects -> Dispositions]
  BY <1>1 DEF Deleted
<1>3. \A S : Inserted(table, S) \in [Effects -> Dispositions]
  BY <1>1 DEF Inserted
<1>4. ASSUME NEW L
      PROVE  Reconciled(L, table) \in [Effects -> Dispositions]
  <2>1. \A e \in Effects : Inserted(table, {e})[e] \in Dispositions
    BY <1>3
  <2> HIDE DEF Inserted
  <2> QED
    BY <1>1, <2>1 DEF Reconciled
<1> QED
  BY <1>2, <1>3, <1>4

LEMMA NoJobIs ==
  NoJob \in Job /\ NoJob.at = "free" /\ NoJob.op = "none" /\ NoJob.frames = <<>>
<1>1. <<>> \in Seq(FrameType) /\ 0 \in 0 .. HeadConflictRetries
  BY SettlementAssumption
<1> QED
  BY <1>1 DEF NoJob, Job, Phases, Hows

LEMMA GotoIs ==
  ASSUME JobTypes, NEW phase \in Phases, phase # "append", Goto(phase)
  PROVE  JobTypes' /\ job'.at = phase /\ job'.frames = <<>>
<1>1. <<>> \in Seq(FrameType)
  OBVIOUS
<1> QED
  BY <1>1 DEF JobTypes, Job, Goto

LEMMA RunAtIs ==
  ASSUME JobTypes, NEW phase \in Phases, phase # "append", NEW fold, NEW todo,
         RunAt(phase, fold, todo), Frame(fold, todo, AppendRetries, TRUE) \in FrameType
  PROVE  JobTypes' /\ job'.at = phase
         /\ job'.frames = <<Frame(fold, todo, AppendRetries, TRUE)>>
<1> DEFINE f == Frame(fold, todo, AppendRetries, TRUE)
<1>2. f \in FrameType /\ job' = [job EXCEPT !.at = phase, !.frames = <<f>>]
  BY DEF RunAt
<1> HIDE DEF f
<1>1. <<f>> \in Seq(FrameType)
  BY <1>2
<1>3. JobTypes' /\ job'.at = phase /\ job'.frames = <<f>>
  BY <1>1, <1>2 DEF JobTypes, Job
<1> QED
  BY <1>3 DEF f

LEMMA RunEndedIs ==
  ASSUME RestTypes
  PROVE  RunEnded \subseteq Effects
BY DEF RestTypes, RunEnded

LEMMA EndedIs ==
  ASSUME job' = NoJob
  PROVE  JobTypes' /\ job'.at = "free" /\ job'.frames = <<>>
BY NoJobIs DEF JobTypes

LEMMA DoneIs ==
  ASSUME JobTypes, RestTypes, JobDone
  PROVE  JobTypes' /\ RestTypes' /\ job'.at = "free" /\ job'.frames = <<>>
<1>1. JobTypes' /\ job'.at = "free" /\ job'.frames = <<>>
  BY EndedIs DEF JobDone
<1>2. executing' \subseteq Effects
  BY RunEndedIs DEF JobDone
<1>3. wakes' \in [Effects -> {"none", "ready", "leased"}]
  BY DEF JobDone, RestTypes, Deleted
<1>4. steered' \subseteq Steers
  BY DEF JobDone, RestTypes, JobTypes
<1>5. recovered' \in BOOLEAN
  BY DEF JobDone, RestTypes
<1> QED
  BY <1>1, <1>2, <1>3, <1>4, <1>5 DEF RestTypes

LEMMA ThrownIs ==
  ASSUME RestTypes, JobThrown
  PROVE  JobTypes' /\ RestTypes' /\ job'.at = "free" /\ job'.frames = <<>>
<1>1. JobTypes' /\ job'.at = "free" /\ job'.frames = <<>>
  BY EndedIs DEF JobThrown
<1>2. executing' \subseteq Effects
  BY RunEndedIs DEF JobThrown
<1>3. wakes' \in [Effects -> {"none", "ready", "leased"}]
  BY DEF JobThrown, RestTypes
<1> QED
  BY <1>1, <1>2, <1>3 DEF RestTypes, JobThrown

LEMMA RestIs ==
  ASSUME RestTypes, UNCHANGED <<executing, wakes, steered, recovered>>
  PROVE  RestTypes'
BY DEF RestTypes

LEMMA CurrentLog ==
  ASSUME LogOK, UNCHANGED log
  PROVE  \A fold : fold = log => Current(fold)' /\ LoopOK(fold)'
BY LogIsCurrent DEF Current, Folds, LoopOK

LEMMA Assemble ==
  ASSUME LogOK', JobOK', JobTypes', RestTypes', RowTypes', crashes' \in 0 .. FaultLimit
  PROVE  SettlementInv'
BY TypesAreNext DEF SettlementInv

LEMMA Parts ==
  ASSUME SettlementInv
  PROVE  /\ LogOK /\ JobOK /\ JobTypes /\ RestTypes /\ RowTypes
         /\ crashes \in 0 .. FaultLimit
BY TypesAre DEF SettlementInv

(***************************************************************************)
(* Executors, the host, other writers, and the starts of jobs.             *)
(***************************************************************************)

LEMMA QuietSteps ==
  ASSUME SettlementInv, NEW e \in Effects,
         Claim(e) \/ Park(e) \/ Discard(e) \/ FreeLease(e) \/ ClaimWake(e)
  PROVE  SettlementInv'
<1>1. /\ LogOK /\ JobOK /\ JobTypes /\ RestTypes /\ RowTypes
      /\ crashes \in 0 .. FaultLimit
  BY Parts
<1>2. UNCHANGED <<log, cached, job, steered, recovered, crashes>>
  BY DEF Claim, Park, Discard, FreeLease, ClaimWake, durable, volatile
<1>3. LogOK' /\ JobOK'
  BY <1>1, <1>2, LogRests, JobStays
<1>4. JobTypes'
  BY <1>1, <1>2 DEF JobTypes
<1>5. RowTypes'
  BY <1>1 DEF Claim, Park, Discard, FreeLease, ClaimWake, RowTypes, Dispositions, durable
<1>6. RestTypes'
  <2>1. executing' \subseteq Effects
    BY <1>1 DEF Claim, Park, Discard, FreeLease, ClaimWake, RestTypes, volatile
  <2>2. wakes' \in [Effects -> {"none", "ready", "leased"}]
    BY <1>1 DEF Claim, Park, Discard, FreeLease, ClaimWake, RestTypes, durable
  <2> QED
    BY <1>1, <1>2, <2>1, <2>2 DEF RestTypes
<1> QED
  BY <1>1, <1>2, <1>3, <1>4, <1>5, <1>6, Assemble

\* The events of other writers are numbered by their count.
LEMMA ForeignSteps ==
  ASSUME SettlementInv, Foreign
  PROVE  SettlementInv'
<1>1. /\ LogOK /\ JobOK /\ JobTypes /\ RestTypes /\ RowTypes
      /\ crashes \in 0 .. FaultLimit
  BY Parts
<1>2. UNCHANGED <<rows, executing, wakes, steered, recovered, cached, job, crashes>>
  BY DEF Foreign, volatile
<1>3. Foreigns \in Nat /\ IsFiniteSet(At(log, {"foreign"}))
  BY <1>1, ForeignsIs DEF LogOK
<1>4. PICK n \in Nat : n = Len(log) /\ 0 < n
  BY <1>1 DEF LogOK
<1> DEFINE ev == Ev("foreign", Foreigns + 1, "foreign")
<1>5. /\ ev \in Event /\ ev.kind = "foreign" /\ ev.of = Foreigns + 1 /\ ev.upTo = 0
  <2>1. "foreign" \in Kinds /\ "foreign" \in Hows /\ Foreigns + 1 \in Ofs
    BY <1>3 DEF Kinds, Hows, Ofs
  <2> QED
    BY <2>1, EvIs
<1>6. log' = Append(log, ev)
  BY DEF Foreign
<1> HIDE DEF ev
<1>7. /\ log' \in Seq(Event) /\ Len(log') = n + 1
      /\ \A i \in 1 .. n : log'[i] = log[i]
      /\ log'[n + 1] = ev
  BY <1>1, <1>4, <1>5, <1>6 DEF LogOK
<1>8. OthersAppend
  BY <1>4, <1>5, <1>7 DEF OthersAppend
<1>9. Foreigns' = Foreigns + 1
  <2>1. At(log, {"foreign"})' = At(log, {"foreign"}) \cup {n + 1}
    BY <1>1, <1>4, <1>5, <1>7 DEF At, LogOK
  <2>2. n + 1 \notin At(log, {"foreign"})
    BY <1>1, <1>4 DEF At, LogOK
  <2> QED
    BY <1>3, <2>1, <2>2, FS_AddElement DEF Foreigns
<1>10. LogOK'
  <2>1. IdsAreUnique'
    <3> SUFFICES ASSUME NEW i \in 1 .. n + 1, NEW j \in 1 .. n + 1,
                        SameId(log'[i], log'[j]), i # j
                 PROVE  FALSE
      BY <1>7 DEF IdsAreUnique, SameId
    <3>1. \A k \in 1 .. n : ~SameId(log[k], ev) /\ ~SameId(ev, log[k])
      BY <1>1, <1>3, <1>4, <1>5 DEF LogOK, ForeignersCount, SameId
    <3>2. CASE i = n + 1
      BY <1>7, <3>1, <3>2
    <3>3. CASE j = n + 1
      BY <1>7, <3>1, <3>3
    <3>4. CASE i # n + 1 /\ j # n + 1
      BY <1>1, <1>4, <1>7, <3>4 DEF LogOK, IdsAreUnique
    <3> QED
      BY <3>2, <3>3, <3>4
  <2>2. ForeignersCount'
    <3> SUFFICES ASSUME NEW i \in 1 .. n + 1, log'[i].kind = "foreign"
                 PROVE  log'[i].of \in Nat /\ log'[i].of <= Foreigns + 1
      BY <1>7, <1>9 DEF ForeignersCount
    <3>1. CASE i = n + 1
      BY <1>3, <1>5, <1>7, <3>1
    <3>2. CASE i # n + 1
      <4>1. i \in 1 .. n /\ log'[i] = log[i]
        BY <1>7, <3>2
      <4>2. log[i].of \in Nat /\ log[i].of <= Foreigns
        BY <1>1, <1>4, <4>1 DEF LogOK, ForeignersCount
      <4> QED
        BY <1>3, <4>1, <4>2
    <3> QED
      BY <3>1, <3>2
  <2>3. ContextsAreBehind'
    BY <1>1, <1>4, <1>5, <1>7 DEF LogOK, ContextsAreBehind
  <2> QED
    BY <1>1, <1>4, <1>7, <2>1, <2>2, <2>3 DEF LogOK
<1>11. JobOK'
  BY <1>1, <1>2, <1>8, JobStays
<1>12. JobTypes' /\ RestTypes' /\ RowTypes'
  BY <1>1, <1>2 DEF JobTypes, RestTypes, RowTypes
<1> QED
  BY <1>1, <1>2, <1>10, <1>11, <1>12, Assemble

LEMMA BeginSteps ==
  ASSUME SettlementInv, NEW op, NEW at \in {"append", "recover", "reload"},
         op \in {"outcome", "push", "wake", "adoption", "steer", "failed"},
         NEW e \in Effects \cup {NoEffect}, NEW how \in Hows \cup Steers,
         at = "append" => e \in Effects /\ how \in Hows,
         op = "steer" => how \in Steers,
         Begin(op, at, e, how)
  PROVE  SettlementInv'
<1>1. /\ LogOK /\ JobOK /\ JobTypes /\ RestTypes /\ RowTypes
      /\ crashes \in 0 .. FaultLimit
  BY Parts
<1>2. UNCHANGED <<log, rows, wakes, steered, cached, executing, recovered, crashes>>
  BY DEF Begin, durable
<1>3. /\ job'.op = op /\ job'.at = at /\ job'.effect = e /\ job'.how = how
      /\ job'.frames = <<>> /\ job' \in Job
  <2>1. NoJob \in Job /\ NoJob.frames = <<>> /\ at \in Phases
    BY NoJobIs DEF Phases
  <2>2. NoJob.tries = 0 /\ 0 \in 0 .. HeadConflictRetries
    BY SettlementAssumption DEF NoJob
  <2> DEFINE due == op \in {"steer", "failed"}
  <2>3. due \in BOOLEAN
    OBVIOUS
  <2>4. job' = [NoJob EXCEPT !.op = op, !.at = at, !.effect = e, !.how = how, !.due = due]
    BY DEF Begin
  <2> HIDE DEF NoJob, due
  <2> QED
    BY <2>1, <2>2, <2>3, <2>4 DEF Job
<1>4. JobTypes'
  BY <1>3 DEF JobTypes
<1>5. LogOK' /\ OthersAppend
  BY <1>1, <1>2, LogRests
<1>6. PICK fold : fold = cached
  OBVIOUS
<1>7. LoopOK(fold)'
  <2>1. LoopOK(fold)
    BY <1>1, <1>6 DEF Begin, Free, JobOK
  <2> QED
    BY <1>5, <2>1, FoldsStay
<1>8. JobOK'
  BY <1>2, <1>3, <1>6, <1>7, QuietJob
<1>9. RestTypes' /\ RowTypes'
  BY <1>1, <1>2 DEF RestTypes, RowTypes
<1> QED
  BY <1>1, <1>2, <1>4, <1>5, <1>8, <1>9, Assemble

LEMMA StartSteps ==
  ASSUME SettlementInv,
         \/ \E e \in Effects : Answer(e) \/ Push(e) \/ StartFailed(e) \/ StartWake(e)
         \/ \E s \in Steers : StartSteer(s)
         \/ StartAdoption
  PROVE  SettlementInv'
<1>1. "failed" \in Hows /\ "wake" \in Hows
  BY DEF Hows
<1>2. ASSUME NEW op \in {"outcome", "push"}, NEW e \in Effects, NEW how \in Outcomes(e),
             Settling(op, e, how)
      PROVE  SettlementInv'
  <2>1. how \in Hows
    BY <1>2, OutcomesAre
  <2>2. PICK at \in {"append", "recover"} : Begin(op, at, e, how)
    BY <1>2 DEF Settling
  <2> QED
    BY <1>2, <2>1, <2>2, BeginSteps
<1>3. ASSUME NEW e \in Effects, Answer(e) \/ Push(e)
      PROVE  SettlementInv'
  <2>1. PICK how \in Outcomes(e) : Settling("outcome", e, how) \/ Settling("push", e, how)
    BY <1>3 DEF Answer, Push, StartOutcome, StartPush
  <2> QED
    BY <1>2, <2>1
<1>4. ASSUME NEW e \in Effects, StartFailed(e)
      PROVE  SettlementInv'
  <2>1. Begin("failed", "recover", e, "failed")
    BY <1>4 DEF StartFailed
  <2> QED
    BY <1>1, <2>1, BeginSteps
<1>5. ASSUME NEW e \in Effects, StartWake(e)
      PROVE  SettlementInv'
  <2>1. Begin("wake", "reload", e, "wake")
    BY <1>5 DEF StartWake
  <2> QED
    BY <1>1, <2>1, BeginSteps
<1>6. ASSUME NEW s \in Steers, StartSteer(s)
      PROVE  SettlementInv'
  <2>1. Begin("steer", "recover", NoEffect, s)
    BY <1>6 DEF StartSteer
  <2> QED
    BY <2>1, BeginSteps
<1>7. ASSUME StartAdoption
      PROVE  SettlementInv'
  <2>1. Begin("adoption", "reload", NoEffect, "wake")
    BY <1>7 DEF StartAdoption
  <2> QED
    BY <1>1, <2>1, BeginSteps
<1> QED
  BY <1>3, <1>4, <1>5, <1>6, <1>7

(***************************************************************************)
(* Steps of a job without activations.                                     *)
(***************************************************************************)

\* The loops a job may go on with when the log has not changed.
LEMMA LoopNow ==
  ASSUME LogOK, JobOK, job.at # "commit", UNCHANGED log
  PROVE  /\ \A fold : fold \in {Loop, log, cached} => LoopOK(fold)'
         /\ \A fold : fold = log => Current(fold)'
<1>1. OthersAppend
  BY LogRests
<1>2. ASSUME NEW fold, fold = cached
      PROVE  LoopOK(fold)
  BY <1>2 DEF JobOK
<1>3. ASSUME NEW fold, fold = log
      PROVE  Current(fold) /\ LoopOK(fold)
  BY <1>3, LogIsCurrent
<1>4. \A fold : fold \in {Loop, log, cached} => LoopOK(fold)
  BY <1>2, <1>3 DEF Loop
<1> QED
  BY <1>1, <1>3, <1>4, FoldsStay

LEMMA QuietLoop ==
  ASSUME LogOK, JobOK, job.at # "commit", UNCHANGED log,
         cached' \in {Loop, log, cached}, job'.frames = <<>>, job'.at # "commit"
  PROVE  JobOK'
<1>1. PICK fold : fold = cached'
  OBVIOUS
<1>2. LoopOK(fold)'
  BY <1>1, LoopNow
<1> QED
  BY <1>1, <1>2, QuietJob

LEMMA StartsRun ==
  ASSUME LogOK, JobTypes, UNCHANGED log, NEW phase \in {"run", "refeed"},
         NEW ev \in Incoming, cached' = log, RunAt(phase, log, <<ev>>)
  PROVE  JobTypes' /\ JobOK'
<1>1. PICK fold : fold = log
  OBVIOUS
<1>2. Current(fold)' /\ LoopOK(fold)'
  BY <1>1, CurrentLog
<1> DEFINE todo == <<ev>>
<1>3. todo \in Seq(Incoming) /\ InertFrom(todo, 1) /\ todo # <<>>
  BY DEF InertFrom
<1>4. RunAt(phase, fold, todo)
  BY <1>1
<1> HIDE DEF todo
<1>5. Frame(fold, todo, AppendRetries, TRUE) \in FrameType
  BY <1>2, <1>3, FirstFrame
<1>6. phase \in Phases /\ phase # "append" /\ RunningAt(phase)
  BY DEF Phases, RunningAt
<1>7. /\ JobTypes' /\ job'.at = phase
      /\ job'.frames = <<Frame(fold, todo, AppendRetries, TRUE)>>
  BY <1>4, <1>5, <1>6, RunAtIs
<1>8. JobOK'
  BY <1>1, <1>2, <1>3, <1>6, <1>7, NewActivation
<1> QED
  BY <1>7, <1>8

LEMMA ClearSteps ==
  ASSUME SettlementInv, ClearOutcome
  PROVE  SettlementInv'
<1>1. /\ LogOK /\ JobOK /\ JobTypes /\ RestTypes /\ RowTypes
      /\ crashes \in 0 .. FaultLimit
  BY Parts
<1>2. UNCHANGED <<log, rows, cached, steered, recovered, crashes>> /\ job.at = "clear"
  BY DEF ClearOutcome
<1>3. JobTypes' /\ job'.at = "free" /\ job'.frames = <<>>
  BY EndedIs DEF ClearOutcome
<1>4. JobOK'
  BY <1>1, <1>2, <1>3, QuietLoop
<1>5. wakes' \in [Effects -> {"none", "ready", "leased"}]
  BY <1>1 DEF ClearOutcome, RestTypes, Deleted
<1>6. executing' \subseteq Effects
  BY <1>1, RunEndedIs DEF ClearOutcome
<1>7. RestTypes' /\ RowTypes' /\ LogOK'
  BY <1>1, <1>2, <1>5, <1>6, LogRests DEF RestTypes, RowTypes
<1> QED
  BY <1>1, <1>2, <1>3, <1>4, <1>7, Assemble

LEMMA DropSteps ==
  ASSUME SettlementInv, DropOutcome
  PROVE  SettlementInv'
<1>1. /\ LogOK /\ JobOK /\ JobTypes /\ RestTypes /\ RowTypes
      /\ crashes \in 0 .. FaultLimit
  BY Parts
<1>2. /\ UNCHANGED <<log, executing, wakes, steered, recovered, crashes>>
      /\ job.at = "drop" /\ cached' = Loop /\ Goto("recover")
  BY DEF DropOutcome, Rest
<1>3. "recover" \in Phases
  BY DEF Phases
<1>4. JobTypes' /\ job'.at = "recover" /\ job'.frames = <<>>
  BY <1>1, <1>2, <1>3, GotoIs
<1>5. JobOK'
  BY <1>1, <1>2, <1>4, QuietLoop
<1>6. RowTypes'
  <2>1. PICK table : table = Deleted(rows, job.effect) /\ table \in [Effects -> Dispositions]
    BY <1>1, TablesAre DEF RowTypes
  <2> QED
    BY <2>1, TablesAre DEF DropOutcome, RowTypes
<1>7. RestTypes' /\ LogOK'
  BY <1>1, <1>2, LogRests, RestIs
<1> QED
  BY <1>1, <1>2, <1>4, <1>5, <1>6, <1>7, Assemble

LEMMA SettleSteps ==
  ASSUME SettlementInv, Settle
  PROVE  SettlementInv'
<1>1. /\ LogOK /\ JobOK /\ JobTypes /\ RestTypes /\ RowTypes
      /\ crashes \in 0 .. FaultLimit
  BY Parts
<1>2. /\ UNCHANGED <<log, executing, wakes, steered, recovered, crashes>>
      /\ job.at # "commit" /\ cached' = Loop
  BY DEF Settle, Rest
<1>3. PICK phase \in {"clear", "recover", "giveup"} : Goto(phase)
  BY DEF Settle
<1>4. JobTypes' /\ job'.at = phase /\ job'.frames = <<>>
  BY <1>1, <1>3, GotoIs DEF Phases
<1>5. JobOK'
  BY <1>1, <1>2, <1>4, QuietLoop
<1>6. RowTypes'
  BY <1>1, TablesAre DEF Settle, RowTypes
<1>7. RestTypes' /\ LogOK'
  BY <1>1, <1>2, LogRests, RestIs
<1> QED
  BY <1>1, <1>2, <1>4, <1>5, <1>6, <1>7, Assemble

LEMMA ReloadSteps ==
  ASSUME SettlementInv, ReloadForWake
  PROVE  SettlementInv'
<1>1. /\ LogOK /\ JobOK /\ JobTypes /\ RestTypes /\ RowTypes
      /\ crashes \in 0 .. FaultLimit
  BY Parts
<1>2. /\ UNCHANGED <<log, rows, executing, wakes, steered, recovered, crashes>>
      /\ job.at = "reload" /\ cached' = log
  BY DEF ReloadForWake, Rest
<1>3. CASE Goto("settle")
  <2>1. JobTypes' /\ job'.at = "settle" /\ job'.frames = <<>>
    BY <1>1, <1>3, GotoIs DEF Phases
  <2>2. JobOK'
    BY <1>1, <1>2, <2>1, QuietLoop
  <2>3. RestTypes' /\ LogOK' /\ RowTypes'
    BY <1>1, <1>2, LogRests, RestIs DEF RowTypes
  <2> QED
    BY <1>1, <1>2, <2>1, <2>2, <2>3, Assemble
<1>4. CASE RunAt("run", log, <<Ev("wake", 0, "wake")>>)
  <2>1. Ev("wake", 0, "wake") \in Incoming
    BY DEF Ev, Incoming, CommandEvent, Ofs, Hows
  <2>2. JobTypes' /\ JobOK'
    BY <1>1, <1>2, <1>4, <2>1, StartsRun
  <2>3. RestTypes' /\ LogOK' /\ RowTypes'
    BY <1>1, <1>2, LogRests, RestIs DEF RowTypes
  <2> QED
    BY <1>1, <1>2, <2>2, <2>3, Assemble
<1> QED
  BY <1>3, <1>4 DEF ReloadForWake

LEMMA ReturnSteps ==
  ASSUME SettlementInv, RunReturns
  PROVE  SettlementInv'
<1>1. /\ LogOK /\ JobOK /\ JobTypes /\ RestTypes /\ RowTypes
      /\ crashes \in 0 .. FaultLimit
  BY Parts
<1>2. /\ UNCHANGED <<log, rows, cached, executing, wakes, steered, recovered, crashes>>
      /\ job.at # "commit"
  BY DEF RunReturns, Rest, Running
<1>3. PICK phase \in {"settle", "resettle"} : Goto(phase)
  BY DEF RunReturns
<1>4. JobTypes' /\ job'.at = phase /\ job'.frames = <<>>
  BY <1>1, <1>3, GotoIs DEF Phases
<1>5. JobOK'
  BY <1>1, <1>2, <1>4, QuietLoop
<1>6. RestTypes' /\ LogOK' /\ RowTypes'
  BY <1>1, <1>2, LogRests, RestIs DEF RowTypes
<1> QED
  BY <1>1, <1>2, <1>4, <1>5, <1>6, Assemble

\* The command a recovery was the prelude to.
LEMMA CommandIs ==
  ASSUME JobTypes
  PROVE  Command \in Incoming
<1>1. CASE job.op = "steer"
  <2>1. job.how \in Ofs
    BY <1>1 DEF JobTypes, Ofs
  <2> QED
    BY <1>1, <2>1 DEF Command, Ev, Incoming, CommandEvent, Hows
<1>2. CASE job.op # "steer"
  BY <1>2 DEF Command, Ev, Incoming, CommandEvent, Ofs, Hows
<1> QED
  BY <1>1, <1>2

LEMMA AfterRecoverySteps ==
  ASSUME SettlementInv, job.at # "commit", UNCHANGED <<log, crashes>>,
         cached' \in {log, Loop}, AfterRecovery
  PROVE  SettlementInv'
<1>1. /\ LogOK /\ JobOK /\ JobTypes /\ RestTypes /\ RowTypes
      /\ crashes \in 0 .. FaultLimit
  BY Parts
<1>2. LogOK'
  BY <1>1, LogRests
<1>3. CASE job.due
  <2>1. PICK ev, fold, loop :
           ev = Command /\ ev \in Incoming /\ fold = log /\ loop = cached'
    BY <1>1, CommandIs
  <2>2. Current(fold)' /\ LoopOK(loop)'
    <3>1. Current(fold)'
      BY <1>1, <2>1, LoopNow
    <3>2. loop \in {Loop, log, cached}
      BY <2>1
    <3> QED
      BY <1>1, <3>1, <3>2, LoopNow
  <2> DEFINE todo == <<ev>>
             frame == Frame(fold, todo, AppendRetries, TRUE)
  <2>3. todo \in Seq(Incoming) /\ InertFrom(todo, 1) /\ todo # <<>>
    BY <2>1 DEF InertFrom
  <2>4. /\ job' = [job EXCEPT !.at = "run", !.due = FALSE, !.frames = <<frame>>]
        /\ UNCHANGED <<rows, executing, wakes, steered, recovered>>
    BY <1>3, <2>1 DEF AfterRecovery
  <2> HIDE DEF todo
  <2>5. frame \in FrameType
    BY <2>2, <2>3, FirstFrame
  <2>6. JobTypes' /\ job'.at = "run" /\ job'.frames = <<frame>>
    <3> HIDE DEF frame
    <3>1. <<frame>> \in Seq(FrameType)
      BY <2>5
    <3> QED
      BY <1>1, <2>4, <3>1 DEF JobTypes, Job, Phases
  <2>7. JobOK'
    BY <2>1, <2>2, <2>3, <2>6, NewActivation DEF RunningAt
  <2>8. RestTypes' /\ RowTypes'
    BY <1>1, <2>4, RestIs DEF RowTypes
  <2> QED
    BY <1>1, <1>2, <2>6, <2>7, <2>8, Assemble
<1>4. CASE ~job.due
  <2>1. /\ JobDone
        /\ rows' = IF job.op = "failed" THEN Deleted(rows, job.effect) ELSE rows
    BY <1>4 DEF AfterRecovery
  <2>2. JobTypes' /\ RestTypes' /\ job'.at = "free" /\ job'.frames = <<>>
    BY <1>1, <2>1, DoneIs
  <2>3. RowTypes'
    BY <1>1, <2>1, TablesAre DEF RowTypes
  <2>4. JobOK'
    BY <1>1, <2>2, QuietLoop
  <2> QED
    BY <1>1, <1>2, <2>2, <2>3, <2>4, Assemble
<1> QED
  BY <1>3, <1>4

LEMMA RecoverSteps ==
  ASSUME SettlementInv, Recover
  PROVE  SettlementInv'
<1>1. /\ LogOK /\ JobOK /\ JobTypes /\ RestTypes /\ RowTypes
      /\ crashes \in 0 .. FaultLimit
  BY Parts
<1>2. /\ UNCHANGED <<log, crashes>> /\ job.at = "recover" /\ cached' = log
  BY DEF Recover
<1>3. LogOK'
  BY <1>1, <1>2, LogRests
<1>4. CASE ~Stranded(log, rows)
  BY <1>2, <1>4, AfterRecoverySteps DEF Recover
<1>5. CASE Stranded(log, rows)
  <2>1. UNCHANGED <<rows, executing, wakes, steered, recovered>>
    BY <1>5 DEF Recover
  <2>2. RestTypes' /\ RowTypes'
    BY <1>1, <2>1, RestIs DEF RowTypes
  <2>3. CASE LatestCascade(log) # <<>>
    <3>1. PICK ev \in Incoming : LatestCascade(log) = <<ev>>
      <4>1. At(log, CascadeKinds) # {}
        BY <2>3 DEF LatestCascade
      <4>2. LastAt(log, CascadeKinds) \in 1 .. Len(log) /\ log \in Seq(Event)
        BY <1>1, <4>1, LastAtIs DEF LogOK
      <4>3. log[LastAt(log, CascadeKinds)] \in Event
        BY <4>2
      <4> QED
        BY <4>1, <4>3 DEF LatestCascade, Incoming
    <3>2. RunAt("refeed", log, <<ev>>)
      BY <1>5, <2>3, <3>1 DEF Recover
    <3>3. JobTypes' /\ JobOK'
      BY <1>1, <1>2, <3>2, StartsRun
    <3> QED
      BY <1>1, <1>2, <1>3, <2>2, <3>3, Assemble
  <2>4. CASE LatestCascade(log) = <<>>
    <3>1. Goto("giveup")
      BY <1>5, <2>4 DEF Recover
    <3>2. JobTypes' /\ job'.at = "giveup" /\ job'.frames = <<>>
      BY <1>1, <3>1, GotoIs DEF Phases
    <3>3. JobOK'
      BY <1>1, <1>2, <3>2, QuietLoop
    <3> QED
      BY <1>1, <1>2, <1>3, <2>2, <3>2, <3>3, Assemble
  <2> QED
    BY <2>3, <2>4
<1> QED
  BY <1>4, <1>5

LEMMA WholeLogIsCurrent ==
  ASSUME LogOK', NEW fold, fold = log'
  PROVE  LoopOK(fold)'
BY DEF LogOK, LoopOK, Current, Folds

LEMMA GiveUpSteps ==
  ASSUME SettlementInv, GiveUp
  PROVE  SettlementInv'
<1>1. /\ LogOK /\ JobOK /\ JobTypes /\ RestTypes /\ RowTypes
      /\ crashes \in 0 .. FaultLimit
  BY Parts
<1>2. job.at = "giveup"
  BY DEF GiveUp
<1>3. CASE Stranded(Loop, rows)
  <2>1. /\ UNCHANGED <<rows, executing, wakes, steered, recovered, crashes>>
        /\ Goto("giveupsettle") /\ cached' = log'
        /\ log' = Appended(StrandedFailure(log)) \/ UNCHANGED log
    BY <1>3 DEF GiveUp, Rest
  <2>2. LogOK'
    <3>1. CASE UNCHANGED log
      BY <1>1, <3>1, LogRests
    <3>2. CASE log' = Appended(StrandedFailure(log))
      <4>1. log \in Seq(Event) /\ Len(log) \in Nat
        BY <1>1 DEF LogOK
      <4>2. PICK items : items = StrandedFailure(log)
        OBVIOUS
      <4>3. Writes(items) /\ \A k \in 1 .. Len(items) : items[k].upTo = 0
        BY <4>1, <4>2, StrandedWrites
      <4>4. ASSUME NEW j \in 1 .. Len(New(items))
            PROVE  New(items)[j].upTo < Len(log) + j
        <5>1. items \in Seq(Event)
          BY <4>3 DEF Writes
        <5>2. PICK f : Picks(f, items)
          BY <5>1, NewEvents
        <5>3. f[j] \in 1 .. Len(items) /\ New(items)[j] = items[f[j]]
          BY <5>2 DEF Picks
        <5>4. Len(New(items)) \in Nat
          BY <5>1, NewEvents
        <5>5. New(items)[j].upTo = 0
          BY <4>3, <5>3
        <5> QED
          BY <4>1, <5>4, <5>5
      <4> QED
        BY <1>1, <3>2, <4>2, <4>3, <4>4, BatchKeepsLog
    <3> QED
      BY <2>1, <3>1, <3>2
  <2>3. PICK fold : fold = log'
    OBVIOUS
  <2>4. LoopOK(fold)'
    BY <2>2, <2>3, WholeLogIsCurrent
  <2>5. JobTypes' /\ job'.at = "giveupsettle" /\ job'.frames = <<>>
    BY <1>1, <2>1, GotoIs DEF Phases
  <2>6. JobOK'
    BY <2>1, <2>3, <2>4, <2>5, QuietJob
  <2>7. RestTypes' /\ RowTypes'
    BY <1>1, <2>1, RestIs DEF RowTypes
  <2> QED
    BY <1>1, <2>1, <2>2, <2>5, <2>6, <2>7, Assemble
<1>4. CASE ~Stranded(Loop, rows)
  BY <1>2, <1>4, AfterRecoverySteps DEF GiveUp
<1> QED
  BY <1>3, <1>4

(***************************************************************************)
(* Steps that append, and the activations of runStep.                      *)
(***************************************************************************)

\* What a batch appends leaves every loop object as far as it was.
LEMMA FoldsGrow ==
  ASSUME log \in Seq(Event), NEW items \in Seq(Event), log' = Appended(items),
         NEW fold, Folds(fold)
  PROVE  Folds(fold)'
<1>1. /\ \A i \in 1 .. Len(log) : log'[i] = log[i]
      /\ Len(log') = Len(log) + Len(New(items)) /\ Len(New(items)) \in Nat
      /\ Len(log) \in Nat
  BY AppendedIs, NewEvents
<1> HIDE DEF New
<1> QED
  BY <1>1 DEF Folds

LEMMA FoldIsTurnLog ==
  ASSUME LogOK, NEW fold, Folds(fold)
  PROVE  TurnLog(fold)
BY DEF LogOK, Folds, TurnLog

LEMMA AppendSteps ==
  ASSUME SettlementInv, AppendOutcome
  PROVE  SettlementInv'
<1>1. /\ LogOK /\ JobOK /\ JobTypes /\ RestTypes /\ RowTypes
      /\ crashes \in 0 .. FaultLimit
  BY Parts
<1>2. /\ UNCHANGED <<rows, crashes>> /\ job.at = "append"
      /\ job.effect \in Effects /\ job.how \in Hows /\ log \in Seq(Event)
  BY <1>1 DEF AppendOutcome, Rest, JobTypes, LogOK
<1>3. RowTypes'
  BY <1>1, <1>2 DEF RowTypes
<1>4. PICK items, fold : items = OutcomeEvents(job.effect, job.how) /\ fold = Loop
  OBVIOUS
<1>5. Current(fold) /\ Folds(fold) /\ Folds(Loop)
  <2>1. LoopOK(cached)
    BY <1>1, <1>2 DEF JobOK
  <2> QED
    BY <1>1, <1>4, <2>1, LoopIs DEF Current
<1>6. Writes(items) /\ Suits(items, fold) /\ items \in Seq(Event)
  <2>1. TurnLog(fold)
    BY <1>1, <1>5, FoldIsTurnLog
  <2> QED
    BY <1>2, <1>4, <2>1, OutcomeSuits DEF Writes
<1>7. CASE /\ Refusal(items, fold) = "none" /\ log' = Appended(items) /\ cached' = fold
           /\ RunAt("commit", fold, Envelopes(items, fold)) /\ Rest
  <2>1. PICK todo : todo = Envelopes(items, fold)
    OBVIOUS
  <2>2. todo = New(items) /\ todo \in Seq(Event)
    BY <1>1, <1>5, <1>6, <2>1, EnvelopesAreNew, NewEvents
  <2>3. LogOK' /\ Current(fold \o todo)'
    <3>1. PICK next : next = fold \o Envelopes(items, fold)
      OBVIOUS
    <3>2. LogOK' /\ Current(next)'
      BY <1>1, <1>5, <1>6, <1>7, <3>1, AcceptedBatch
    <3>3. next = fold \o todo
      BY <2>1, <3>1
    <3> QED
      BY <3>2, <3>3
  <2>4. Folds(fold)'
    BY <1>2, <1>5, <1>6, <1>7, FoldsGrow
  <2>5. InertFrom(todo, 1)
    BY <1>6, <2>2, NewIsInert DEF InertFrom
  <2> DEFINE frame == Frame(fold, todo, AppendRetries, TRUE)
  <2>6. frame.fold = fold /\ frame.todo = todo /\ frame \in FrameType
    <3>1. todo \in Seq(Incoming) /\ fold \in Seq(Event)
      BY <1>5, <2>2 DEF Incoming, Folds
    <3> QED
      BY <3>1, SettlementAssumption DEF Frame, FrameType
  <2>7. RunAt("commit", fold, todo)
    BY <1>7, <2>1
  <2>8. JobTypes' /\ job'.at = "commit" /\ job'.frames = <<frame>>
    BY <1>1, <2>6, <2>7, RunAtIs DEF Phases
  <2> HIDE DEF frame
  <2>9. CommitOK(fold, <<frame>>)'
    <3>1. <<frame>> \in Seq(FrameType) /\ Len(<<frame>>) = 1 /\ <<frame>>[1] = frame
      BY <2>6
    <3> QED
      BY <2>2, <2>3, <2>4, <2>5, <2>6, <3>1 DEF CommitOK
  <2>10. JobOK'
    BY <1>7, <2>8, <2>9 DEF JobOK, RunningAt
  <2>11. RestTypes'
    BY <1>1, <1>7, RestIs DEF Rest
  <2> QED
    BY <1>1, <1>2, <1>3, <2>3, <2>8, <2>10, <2>11, Assemble
<1>8. CASE /\ job.tries < HeadConflictRetries /\ cached' = log
           /\ job' = [job EXCEPT !.tries = @ + 1] /\ UNCHANGED log /\ Rest
  <2>1. job.tries + 1 \in 0 .. HeadConflictRetries
    BY <1>1, <1>8, SettlementAssumption DEF JobTypes, Job
  <2>2. JobTypes' /\ job'.at = "append" /\ job'.frames = job.frames
    BY <1>1, <1>2, <1>8, <2>1 DEF JobTypes, Job
  <2>3. job'.frames = <<>>
    BY <1>1, <1>2, <2>2 DEF JobOK, RunningAt
  <2>4. JobOK'
    BY <1>1, <1>2, <1>8, <2>2, <2>3, QuietLoop
  <2>5. LogOK' /\ RestTypes'
    BY <1>1, <1>8, LogRests, RestIs DEF Rest
  <2> QED
    BY <1>1, <1>2, <1>3, <2>2, <2>4, <2>5, Assemble
<1>9. CASE cached' \in {Loop, log} /\ JobThrown /\ UNCHANGED log
  <2>1. JobTypes' /\ RestTypes' /\ job'.at = "free" /\ job'.frames = <<>>
    BY <1>1, <1>9, ThrownIs
  <2>2. JobOK'
    BY <1>1, <1>2, <1>9, <2>1, QuietLoop
  <2>3. LogOK'
    BY <1>1, <1>9, LogRests
  <2> QED
    BY <1>1, <1>2, <1>3, <2>1, <2>2, <2>3, Assemble
<1>10. CASE /\ cached' = log /\ Goto("drop") /\ UNCHANGED log
            /\ UNCHANGED <<executing, wakes, steered, recovered>>
  <2>1. JobTypes' /\ job'.at = "drop" /\ job'.frames = <<>>
    BY <1>1, <1>10, GotoIs DEF Phases
  <2>2. JobOK'
    BY <1>1, <1>2, <1>10, <2>1, QuietLoop
  <2>3. LogOK' /\ RestTypes'
    BY <1>1, <1>10, LogRests, RestIs
  <2> QED
    BY <1>1, <1>2, <1>3, <2>1, <2>2, <2>3, Assemble
<1> QED
  BY <1>4, <1>7, <1>8, <1>9, <1>10 DEF AppendOutcome

LEMMA CommitSteps ==
  ASSUME SettlementInv, CommitOutcome
  PROVE  SettlementInv'
<1>1. /\ LogOK /\ JobOK /\ JobTypes /\ RestTypes /\ RowTypes
      /\ crashes \in 0 .. FaultLimit
  BY Parts
<1>2. UNCHANGED <<log, executing, steered, recovered, crashes>> /\ job.at = "commit"
  BY DEF CommitOutcome
<1>3. PICK fold, frames, todo :
         cached = fold /\ job.frames = frames /\ todo = frames[1].todo
  OBVIOUS
<1>4. /\ Folds(fold) /\ todo \in Seq(Event) /\ InertFrom(todo, 1)
      /\ Current(fold \o todo)
  BY <1>1, <1>2, <1>3 DEF JobOK, CommitOK
<1>5. Loop = fold
  BY <1>3, <1>4 DEF Loop, Folds
<1>6. PICK next : next = fold \o todo
  OBVIOUS
<1>7. LogOK' /\ OthersAppend
  BY <1>1, <1>2, LogRests
<1>8. Current(next)' /\ LoopOK(next)'
  BY <1>4, <1>6, <1>7, FoldsStay DEF LoopOK
<1>9. todo \in Seq(Incoming)
  BY <1>4 DEF Incoming
<1> DEFINE first == <<Frame(next, todo, AppendRetries, TRUE)>>
<1>10. FramesOK(first)'
  BY <1>4, <1>8, <1>9, FirstFrame
<1>11. /\ cached' = next
       /\ job' = [job EXCEPT !.at = "run", !.frames = Returned(first)]
  BY <1>3, <1>5, <1>6 DEF CommitOutcome
<1> HIDE DEF first
<1>12. Returned(first) \in Seq(FrameType)
  BY <1>10, ReturnedOK
<1>13. JobTypes' /\ job'.at = "run" /\ job'.frames = Returned(first)
  BY <1>1, <1>2, <1>11, <1>12 DEF JobTypes, Job, Phases
<1>14. JobOK'
  BY <1>8, <1>10, <1>11, <1>13, NextFrames DEF RunningAt
<1>15. RowTypes'
  BY <1>1, TablesAre DEF RowTypes, CommitOutcome
<1>16. RestTypes'
  <2>1. wakes' \in [Effects -> {"none", "ready", "leased"}]
    BY <1>1 DEF CommitOutcome, RestTypes
  <2> QED
    BY <1>1, <1>2, <2>1 DEF RestTypes
<1> QED
  BY <1>1, <1>2, <1>7, <1>13, <1>14, <1>15, <1>16, Assemble

\* What the innermost activation is about to step.
LEMMA TopIs ==
  ASSUME JobOK, Running, job.frames # <<>>
  PROVE  /\ FramesOK(job.frames) /\ job.frames \in Seq(FrameType)
         /\ Len(job.frames) \in Nat \ {0}
         /\ Top \in FrameType /\ FrameOK(Top, Len(job.frames), Len(job.frames))
         /\ Top.todo \in Seq(Incoming) /\ 0 < Len(Top.todo)
         /\ Head(Top.todo) \in Incoming /\ Head(Top.todo) = Top.todo[1]
         /\ LoopOK(cached) /\ job.at # "commit" /\ RunningAt(job.at)
<1>1. PICK frames, c : frames = job.frames /\ c = cached
  OBVIOUS
<1>2. RunningAt(job.at) /\ job.at # "commit"
  BY DEF Running, RunningAt
<1>3. /\ FramesOK(frames) /\ LoopOK(c)
      /\ \A i \in 1 .. Len(frames) : frames[i].todo # <<>>
  BY <1>1, <1>2 DEF JobOK
<1>4. frames \in Seq(FrameType) /\ frames # <<>>
  BY <1>1, <1>3 DEF FramesOK
<1>5. PICK n \in Nat \ {0} : n = Len(frames)
  BY <1>4
<1>6. PICK top \in FrameType : top = frames[n]
  BY <1>4, <1>5
<1>7. FrameOK(top, n, n) /\ top.todo # <<>>
  BY <1>3, <1>5, <1>6 DEF FramesOK
<1>8. top.todo \in Seq(Incoming)
  BY <1>6 DEF FrameType
<1>9. PICK todo \in Seq(Incoming) : todo = top.todo /\ todo # <<>>
  BY <1>7, <1>8
<1>10. 0 < Len(todo) /\ Head(todo) \in Incoming /\ Head(todo) = todo[1]
  BY <1>9
<1>11. Top = top
  BY <1>1, <1>5, <1>6 DEF Top
<1> QED
  BY <1>1, <1>2, <1>3, <1>4, <1>5, <1>6, <1>7, <1>9, <1>10, <1>11

\* An activation that has nothing to append or is not the innermost of the loop in
\* use leaves the log as it is; a step of the innermost one keeps it current.
LEMMA TopSteps ==
  ASSUME JobTypes, JobOK, Running, job.frames # <<>>, NEW frames, frames = job.frames,
         \A i \in 1 .. Len(frames) : i # Len(frames) => FrameOK(frames[i], i, Len(frames))',
         NEW top \in FrameType, FrameOK(top, Len(frames), Len(frames))',
         job' = WithTop(top), NEW loop, LoopOK(loop)', cached' = loop
  PROVE  JobTypes' /\ JobOK'
<1>1. /\ frames \in Seq(FrameType) /\ Len(frames) \in Nat \ {0} /\ RunningAt(job.at)
      /\ job.at # "commit"
  BY TopIs
<1> DEFINE new == [frames EXCEPT ![Len(frames)] = top]
<1>2. /\ new \in Seq(FrameType) /\ Len(new) = Len(frames) /\ new[Len(frames)] = top
      /\ \A i \in 1 .. Len(frames) : i # Len(frames) => new[i] = frames[i]
  BY <1>1
<1>3. job' = [job EXCEPT !.frames = Returned(new)]
  BY DEF WithTop
<1> HIDE DEF new
<1>4. FramesOK(new)'
  BY <1>2 DEF FramesOK
<1>5. Returned(new) \in Seq(FrameType)
  BY <1>4, ReturnedOK
<1>6. JobTypes' /\ job'.at = job.at /\ job'.frames = Returned(new)
  BY <1>3, <1>5 DEF JobTypes, Job
<1>7. JobOK'
  BY <1>1, <1>4, <1>6, NextFrames
<1> QED
  BY <1>6, <1>7

\* The activation after a step: its loop object has folded the new events, and steps
\* their cascades next.
Stepped(top, next, env) == [top EXCEPT !.fold = next, !.todo = env \o Tail(@)]

LEMMA TailIsInert ==
  ASSUME NEW todo \in Seq(Incoming), InertFrom(todo, 1), 0 < Len(todo)
  PROVE  Tail(todo) \in Seq(Incoming) /\ InertFrom(Tail(todo), 0)
<1>1. Tail(todo) \in Seq(Incoming) /\ Len(Tail(todo)) = Len(todo) - 1
  OBVIOUS
<1>2. \A k \in 1 .. Len(Tail(todo)) : Tail(todo)[k] = todo[k + 1]
  OBVIOUS
<1>3. \A k \in 1 .. Len(todo) - 1 : k + 1 \in 1 .. Len(todo) /\ k + 1 > 1
  OBVIOUS
<1> QED
  BY <1>1, <1>2, <1>3 DEF InertFrom

LEMMA CascadesAreInert ==
  ASSUME NEW env \in Seq(Incoming), InertFrom(env, 1),
         NEW rest \in Seq(Incoming), InertFrom(rest, 0)
  PROVE  env \o rest \in Seq(Incoming) /\ InertFrom(env \o rest, 1)
<1>1. PICK m \in Nat, n \in Nat : m = Len(env) /\ n = Len(rest)
  OBVIOUS
<1>2. PICK more : more = env \o rest
  OBVIOUS
<1>3. more \in Seq(Incoming) /\ Len(more) = m + n
  BY <1>1, <1>2
<1>4. \A k \in 1 .. m : more[k] = env[k]
  BY <1>1, <1>2
<1>5. \A k \in m + 1 .. m + n : more[k] = rest[k - m]
  BY <1>1, <1>2
<1>6. \A k \in 1 .. m : k > 1 => env[k].kind \in InertKinds
  BY <1>1 DEF InertFrom
<1>7. \A k \in m + 1 .. m + n : rest[k - m].kind \in InertKinds
  BY <1>1 DEF InertFrom
<1>8. ASSUME NEW k \in 1 .. m + n, k > 1
      PROVE  more[k].kind \in InertKinds
  <2>1. CASE k \in 1 .. m
    BY <1>4, <1>6, <1>8, <2>1
  <2>2. CASE k \in m + 1 .. m + n
    BY <1>5, <1>7, <2>2
  <2> QED
    BY <1>1, <2>1, <2>2
<1>9. InertFrom(more, 1)
  BY <1>3, <1>8 DEF InertFrom
<1> QED
  BY <1>2, <1>3, <1>9

\* A step that the log accepts, on the loop in use.
LEMMA LiveStep ==
  ASSUME LogOK, NEW fold, Current(fold), NEW ev \in Incoming,
         NEW items, items = StepOutput(fold, ev).append,
         Refusal(items, fold) = "none", log' = Appended(items)
  PROVE  /\ LogOK' /\ items \in Seq(Event)
         /\ \A next : next = fold \o Envelopes(items, fold) => Current(next)'
         /\ Envelopes(items, fold) \in Seq(Incoming)
         /\ InertFrom(Envelopes(items, fold), 1)
<1>1. Writes(items) /\ Suits(items, fold) /\ items \in Seq(Event)
  <2>1. TurnLog(fold)
    BY FoldIsTurnLog DEF Current
  <2> QED
    BY <2>1, StepSuits DEF OutputSuits, Writes
<1>2. PICK env, next : env = Envelopes(items, fold) /\ next = fold \o Envelopes(items, fold)
  OBVIOUS
<1>3. LogOK' /\ Current(next)'
  BY <1>1, <1>2, AcceptedBatch
<1>4. env = New(items) /\ env \in Seq(Event)
  BY <1>1, <1>2, EnvelopesAreNew, NewEvents
<1>5. InertFrom(env, 1)
  BY <1>1, <1>4, NewIsInert DEF InertFrom
<1>6. env \in Seq(Incoming)
  BY <1>4 DEF Incoming
<1> QED
  BY <1>1, <1>2, <1>3, <1>5, <1>6

LEMMA SteppedOK ==
  ASSUME NEW top \in FrameType, NEW n \in Nat \ {0}, FrameOK(top, n, n), top.live,
         0 < Len(top.todo), NEW env \in Seq(Incoming), InertFrom(env, 1),
         NEW next, Current(next)', NEW after, after = Stepped(top, next, env)
  PROVE  after \in FrameType /\ FrameOK(after, n, n)'
<1>1. PICK todo \in Seq(Incoming) : todo = top.todo
  BY DEF FrameType
<1>2. Tail(todo) \in Seq(Incoming) /\ InertFrom(Tail(todo), 0)
  BY <1>1, TailIsInert DEF FrameOK
<1>3. PICK more \in Seq(Incoming) : more = env \o Tail(todo) /\ InertFrom(more, 1)
  BY <1>2, CascadesAreInert
<1>4. after = [top EXCEPT !.fold = next, !.todo = more]
  BY <1>1, <1>3 DEF Stepped
<1>5. next \in Seq(Event) /\ Folds(next)'
  BY DEF Current, Folds
<1>6. top.tries \in Nat /\ top.tries + n <= AppendRetries + 1
  BY DEF FrameOK, FrameType
<1>7. /\ after \in FrameType /\ after.fold = next /\ after.todo = more
      /\ after.tries = top.tries /\ after.live
  BY <1>3, <1>4, <1>5 DEF FrameType
<1>8. FrameOK(after, n, n)'
  BY <1>3, <1>5, <1>6, <1>7 DEF FrameOK
<1> QED
  BY <1>7, <1>8

\* An activation whose loop object has been replaced steps inert events only.
LEMMA StaleStep ==
  ASSUME NEW top \in FrameType, NEW n \in Nat \ {0}, FrameOK(top, n, n), ~top.live,
         0 < Len(top.todo)
  PROVE  /\ StepOutput(top.fold, Head(top.todo)).append = <<>>
         /\ StepOutput(top.fold, Head(top.todo)).effects = {}
<1>1. PICK todo \in Seq(Incoming) : todo = top.todo
  BY DEF FrameType
<1>2. todo[1].kind \in InertKinds /\ Head(todo) = todo[1]
  BY <1>1 DEF FrameOK, InertFrom
<1> QED
  BY <1>1, <1>2, InertIsInert

\* The activations under the innermost one are no longer those of the loop in use.
LEMMA OthersAreStale ==
  ASSUME NEW frames, FramesOK(frames), NEW i \in 1 .. Len(frames), i # Len(frames),
         Folds(frames[i].fold)'
  PROVE  FrameOK(frames[i], i, Len(frames))'
BY DEF FramesOK, FrameOK

LEMMA AcceptedSteps ==
  ASSUME SettlementInv, StepAccepted
  PROVE  SettlementInv'
<1>1. /\ LogOK /\ JobOK /\ JobTypes /\ RestTypes /\ RowTypes
      /\ crashes \in 0 .. FaultLimit
  BY Parts
<1>2. /\ UNCHANGED <<executing, wakes, steered, recovered, crashes>>
      /\ Running /\ job.frames # <<>>
  BY DEF StepAccepted, Rest
<1>3. PICK top, frames, n, c :
         top = Top /\ frames = job.frames /\ n = Len(frames) /\ c = cached
  OBVIOUS
<1>4. /\ FramesOK(frames) /\ frames \in Seq(FrameType) /\ n \in Nat \ {0}
      /\ top \in FrameType /\ FrameOK(top, n, n)
      /\ top.todo \in Seq(Incoming) /\ 0 < Len(top.todo) /\ LoopOK(c)
  BY <1>1, <1>2, <1>3, TopIs
<1>5. PICK fold, ev, items, env, effects :
         /\ fold = top.fold /\ ev = Head(top.todo)
         /\ items = StepOutput(fold, ev).append
         /\ effects = StepOutput(fold, ev).effects
         /\ env = Envelopes(items, fold)
  OBVIOUS
<1>6. PICK next, after :
         /\ next = fold \o Envelopes(items, fold)
         /\ after = Stepped(top, next, env)
  OBVIOUS
<1>7. /\ Refusal(items, fold) = "none" /\ log' = Appended(items)
      /\ rows' = Inserted(rows, effects)
      /\ cached' = IF top.live THEN next ELSE cached
      /\ job' = WithTop(after)
  BY <1>3, <1>5, <1>6 DEF StepAccepted, Stepped
<1>8. RowTypes' /\ RestTypes'
  BY <1>1, <1>2, <1>7, TablesAre, RestIs DEF RowTypes
<1>9. CASE top.live
  <2>1. /\ LogOK' /\ Current(next)' /\ after \in FrameType /\ FrameOK(after, n, n)'
        /\ items \in Seq(Event)
    <3>1. Current(fold) /\ ev \in Incoming
      BY <1>1, <1>2, <1>3, <1>4, <1>5, <1>9, TopIs DEF FrameOK
    <3>2. /\ LogOK' /\ Current(next)' /\ items \in Seq(Event)
          /\ env \in Seq(Incoming) /\ InertFrom(env, 1)
      BY <1>1, <1>5, <1>6, <1>7, <3>1, LiveStep
    <3> QED
      BY <1>4, <1>6, <1>9, <3>2, SteppedOK
  <2>2. ASSUME NEW i \in 1 .. n, i # n
        PROVE  FrameOK(frames[i], i, n)'
    <3>1. Folds(frames[i].fold)
      BY <1>3, <1>4, <2>2 DEF FramesOK, FrameOK
    <3>2. Folds(frames[i].fold)'
      <4>1. PICK f : f = frames[i].fold
        OBVIOUS
      <4>2. Folds(f)'
        BY <1>1, <1>7, <2>1, <3>1, <4>1, FoldsGrow DEF LogOK
      <4> QED
        BY <4>1, <4>2
    <3> QED
      BY <1>3, <1>4, <2>2, <3>2, OthersAreStale
  <2>3. LoopOK(next)' /\ cached' = next
    BY <1>7, <1>9, <2>1 DEF LoopOK
  <2>4. JobTypes' /\ JobOK'
    BY <1>1, <1>2, <1>3, <1>7, <2>1, <2>2, <2>3, TopSteps
  <2> QED
    BY <1>1, <1>2, <1>8, <2>1, <2>4, Assemble
<1>10. CASE ~top.live
  <2>1. items = <<>>
    BY <1>4, <1>5, <1>10, StaleStep
  <2>2. env = <<>> /\ New(items) = <<>>
    BY <1>5, <2>1, NothingIsNew
  <2>3. UNCHANGED log
    <3>1. log \in Seq(Event) /\ log' = log \o <<>>
      BY <1>1, <1>7, <2>2 DEF Appended, LogOK
    <3> QED
      BY <3>1
  <2>4. LogOK' /\ OthersAppend
    BY <1>1, <2>3, LogRests
  <2>5. FramesOK(frames)' /\ LoopOK(c)'
    BY <1>4, <2>4, FramesStay, FoldsStay
  <2>6. PICK todo : todo = top.todo
    OBVIOUS
  <2>7. Tail(todo) \in Seq(Incoming) /\ InertFrom(Tail(todo), 0) /\ InertFrom(Tail(todo), 1)
    BY <1>4, <2>6, TailIsInert DEF FrameOK, InertFrom
  <2>8. /\ after \in FrameType /\ after.fold = top.fold /\ after.todo = Tail(todo)
        /\ after.tries = top.tries /\ after.live = top.live
    <3>1. fold \in Seq(Event) /\ next = fold \o <<>>
      BY <1>4, <1>5, <1>6, <2>2 DEF FrameType
    <3>2. next = top.fold
      BY <1>5, <3>1
    <3>3. PICK rest : rest = Tail(todo) /\ rest \in Seq(Incoming)
      BY <2>7
    <3>4. <<>> \o rest = rest
      BY <3>3
    <3>5. after = [top EXCEPT !.fold = top.fold, !.todo = rest]
      BY <1>6, <2>2, <2>6, <3>2, <3>3, <3>4 DEF Stepped
    <3> QED
      BY <1>4, <3>3, <3>5 DEF FrameType
  <2>9. FrameOK(after, n, n)'
    <3>1. FrameOK(top, n, n)'
      <4>1. frames[n] = top
        BY <1>3 DEF Top
      <4> QED
        BY <1>3, <1>4, <2>5, <4>1 DEF FramesOK
    <3> QED
      BY <1>10, <2>7, <2>8, <3>1 DEF FrameOK
  <2>10. \A i \in 1 .. n : FrameOK(frames[i], i, n)'
    BY <1>3, <2>5 DEF FramesOK
  <2>11. cached' = c
    BY <1>3, <1>7, <1>10
  <2>12. JobTypes' /\ JobOK'
    BY <1>1, <1>2, <1>3, <1>7, <2>5, <2>8, <2>9, <2>10, <2>11, TopSteps
  <2> QED
    BY <1>1, <1>2, <1>8, <2>4, <2>12, Assemble
<1> QED
  BY <1>9, <1>10

LEMMA CrashSteps ==
  ASSUME SettlementInv, Crash \/ CrashAfterAppend
  PROVE  SettlementInv'
<1>1. /\ LogOK /\ JobOK /\ JobTypes /\ RestTypes /\ RowTypes
      /\ crashes \in 0 .. FaultLimit
  BY Parts
<1>2. Die
  BY DEF Crash, CrashAfterAppend
<1>3. crashes' \in 0 .. FaultLimit
  <2>1. Foreigns \in Nat /\ crashes + Foreigns < FaultLimit /\ crashes' = crashes + 1
    BY <1>1, <1>2, ForeignsIs DEF LogOK, Die
  <2> QED
    BY <1>1, <2>1, SettlementAssumption
<1>4. JobTypes' /\ job'.at = "free" /\ job'.frames = <<>>
  BY <1>2, EndedIs DEF Die
<1>5. RestTypes'
  <2>1. wakes' \in [Effects -> {"none", "ready", "leased"}]
    BY <1>1, <1>2 DEF Die, RestTypes
  <2> QED
    BY <1>1, <1>2, <2>1 DEF Die, RestTypes
<1>6. RowTypes'
  BY <1>1, <1>2 DEF Die, RowTypes
<1>7. LogOK'
  <2>1. CASE Crash
    BY <1>1, <2>1, LogRests DEF Crash
  <2>2. CASE CrashAfterAppend
    <3>1. PICK top, n : top = Top /\ n = Len(job.frames)
      OBVIOUS
    <3>2. /\ n \in Nat \ {0} /\ top \in FrameType /\ FrameOK(top, n, n)
          /\ top.todo \in Seq(Incoming) /\ 0 < Len(top.todo)
      BY <1>1, <2>2, <3>1, TopIs DEF CrashAfterAppend
    <3>3. PICK fold, ev, items : /\ fold = top.fold /\ ev = Head(top.todo)
                                 /\ items = StepOutput(fold, ev).append
      OBVIOUS
    <3>4. /\ items # <<>> /\ Refusal(items, fold) = "none" /\ log' = Appended(items)
      BY <2>2, <3>1, <3>3 DEF CrashAfterAppend
    <3>5. top.live
      BY <3>2, <3>3, <3>4, StaleStep
    <3>6. Current(fold) /\ ev \in Incoming
      BY <1>1, <2>2, <3>1, <3>2, <3>3, <3>5, TopIs DEF FrameOK, CrashAfterAppend
    <3> QED
      BY <1>1, <3>3, <3>4, <3>6, LiveStep
  <2> QED
    BY <2>1, <2>2
<1>8. JobOK'
  <2>1. LoopOK(<<>>)' /\ cached' = <<>>
    BY <1>2 DEF LoopOK, Die
  <2> QED
    BY <1>4, <2>1, QuietJob
<1> QED
  BY <1>3, <1>4, <1>5, <1>6, <1>7, <1>8, Assemble

\* A retired activation, the i-th of n, has inert events only.
RetiredFrom(f, i, n) ==
  [f EXCEPT !.live = FALSE, !.todo = IF i = n THEN Tail(@) ELSE @]

LEMMA RetiredFrame ==
  ASSUME NEW top \in FrameType, NEW n \in Nat \ {0}, NEW i \in 1 .. n,
         FrameOK(top, i, n), i = n => 0 < Len(top.todo),
         NEW after, after = RetiredFrom(top, i, n)
  PROVE  after \in FrameType /\ FrameOK(after, i, n) /\ ~after.live
<1>1. PICK todo \in Seq(Incoming) : todo = top.todo
  BY DEF FrameType
<1>2. PICK rest \in Seq(Incoming) : rest = IF i = n THEN Tail(todo) ELSE todo
  BY <1>1, TailIsInert DEF FrameOK
<1>3. InertFrom(rest, 0)
  <2>1. CASE i = n
    BY <1>1, <1>2, <2>1, TailIsInert DEF FrameOK
  <2>2. CASE i # n
    BY <1>1, <1>2, <2>2 DEF FrameOK
  <2> QED
    BY <2>1, <2>2
<1>4. InertFrom(rest, 1)
  BY <1>3 DEF InertFrom
<1>5. after = [top EXCEPT !.live = FALSE, !.todo = rest]
  BY <1>1, <1>2 DEF RetiredFrom
<1>6. /\ after \in FrameType /\ after.fold = top.fold /\ after.todo = rest
      /\ after.tries = top.tries /\ ~after.live
  BY <1>5 DEF FrameType
<1> QED
  BY <1>3, <1>4, <1>6 DEF FrameOK

LEMMA RetiredOK ==
  ASSUME NEW frames, FramesOK(frames), 0 < Len(frames), 0 < Len(frames[Len(frames)].todo)
  PROVE  /\ FramesOK(Retired(frames)) /\ Len(Retired(frames)) = Len(frames)
         /\ \A i \in 1 .. Len(frames) : ~Retired(frames)[i].live
<1>1. frames \in Seq(FrameType)
  BY DEF FramesOK
<1>2. PICK n \in Nat \ {0} : n = Len(frames) /\ DOMAIN frames = 1 .. n
  BY <1>1
<1> DEFINE after(i) == RetiredFrom(frames[i], i, n)
<1>3. Retired(frames) = [i \in 1 .. n |-> after(i)]
  BY <1>2 DEF Retired, RetiredFrom
<1>4. ASSUME NEW i \in 1 .. n
      PROVE  after(i) \in FrameType /\ FrameOK(after(i), i, n) /\ ~after(i).live
  <2>1. frames[i] \in FrameType /\ FrameOK(frames[i], i, n)
    BY <1>1, <1>2 DEF FramesOK
  <2>2. PICK top, new : top = frames[i] /\ new = after(i)
    OBVIOUS
  <2>3. i = n => 0 < Len(top.todo)
    BY <1>2, <2>2
  <2>4. new = RetiredFrom(top, i, n)
    BY <2>2
  <2> HIDE DEF after
  <2>5. new \in FrameType /\ FrameOK(new, i, n) /\ ~new.live
    BY <2>1, <2>2, <2>3, <2>4, RetiredFrame
  <2> QED
    BY <2>2, <2>5
<1> HIDE DEF after
<1>5. PICK new : new = Retired(frames)
  OBVIOUS
<1>6. new \in Seq(FrameType) /\ Len(new) = n /\ \A i \in 1 .. n : new[i] = after(i)
  BY <1>3, <1>4, <1>5
<1>7. FramesOK(new) /\ \A i \in 1 .. n : ~new[i].live
  BY <1>4, <1>6 DEF FramesOK
<1> QED
  BY <1>2, <1>5, <1>6, <1>7

\* The activation pushed on what is left of the retired ones.
LEMMA PushedOK ==
  ASSUME NEW frames, FramesOK(frames), FramesOK(frames)',
         \A i \in 1 .. Len(frames) : ~frames[i].live,
         NEW f \in FrameType, f.todo # <<>>, InertFrom(f.todo, 1), Current(f.fold)',
         f.live, f.tries + Len(frames) + 1 <= AppendRetries + 1,
         NEW all, all = Returned(frames) \o <<f>>
  PROVE  /\ FramesOK(all)' /\ all \in Seq(FrameType)
         /\ \A i \in 1 .. Len(all) : all[i].todo # <<>>
<1> DEFINE I == {i \in DOMAIN frames : frames[i].todo # <<>>}
<1>1. frames \in Seq(FrameType) /\ Returned(frames) = Kept(frames, I)
  BY DEF Returned, FramesOK
<1>2. PICK rest, g :
         /\ rest = Returned(frames)
         /\ Selects(g, rest, frames, I, Len(frames))
  <2> HIDE DEF I
  <2> QED
    BY <1>1, KeptSelects
<1>3. /\ FramesOK(rest)' /\ rest \in Seq(FrameType)
      /\ \A i \in 1 .. Len(rest) : rest[i].todo # <<>>
      /\ Len(rest) <= Len(frames)
  BY <1>2, ReturnedOK
<1>4. \A i \in 1 .. Len(rest) : ~rest[i].live
  BY <1>2 DEF Selects
<1> HIDE DEF I
<1>5. PICK m \in Nat : m = Len(rest) /\ m <= Len(frames)
  BY <1>3
<1>6. /\ all \in Seq(FrameType) /\ Len(all) = m + 1
      /\ \A i \in 1 .. m : all[i] = rest[i]
      /\ all[m + 1] = f
  BY <1>2, <1>3, <1>5
<1>7. ASSUME NEW i \in 1 .. m
      PROVE  FrameOK(all[i], i, m + 1)'
  BY <1>3, <1>4, <1>5, <1>6 DEF FramesOK, FrameOK
<1>8. FrameOK(f, m + 1, m + 1)'
  <2>1. f.tries \in Nat /\ Len(frames) \in Nat /\ AppendRetries \in Nat
    BY <1>1, SettlementAssumption DEF FrameType
  <2>2. f.tries + (m + 1) <= AppendRetries + 1
    <3>1. PICK a \in Nat, b \in Nat : a = f.tries /\ b = Len(frames)
      BY <2>1
    <3>2. a + b + 1 <= AppendRetries + 1 /\ m <= b
      BY <1>5, <3>1
    <3>3. a + (m + 1) <= AppendRetries + 1
      BY <3>2, SettlementAssumption
    <3> QED
      BY <3>1, <3>3
  <2>3. Folds(f.fold)'
    BY DEF Current
  <2> QED
    BY <2>2, <2>3 DEF FrameOK
<1>9. \A i \in 1 .. m + 1 : i \in 1 .. m \/ i = m + 1
  BY <1>5
<1>10. FramesOK(all)'
  BY <1>6, <1>7, <1>8, <1>9 DEF FramesOK
<1>11. \A i \in 1 .. m + 1 : all[i].todo # <<>>
  BY <1>3, <1>5, <1>6, <1>9
<1> QED
  BY <1>6, <1>10, <1>11

LEMMA RefusedIs ==
  ASSUME StepRefused
  PROVE  /\ UNCHANGED <<log, rows, crashes>> /\ Running /\ job.frames # <<>>
         /\ \/ /\ Top.tries > 0 /\ cached' = log
               /\ UNCHANGED <<executing, wakes, steered, recovered>>
               /\ job' = [job EXCEPT !.frames =
                            Returned(Retired(job.frames))
                              \o <<Frame(log, <<Head(Top.todo)>>, Top.tries - 1, TRUE)>>]
            \/ /\ UNCHANGED cached /\ job' = WithTop([Top EXCEPT !.todo = Tail(@)])
               /\ UNCHANGED <<executing, wakes, steered, recovered>>
            \/ UNCHANGED cached /\ JobThrown
<1>1. UNCHANGED <<log, rows, crashes>>
  BY Zenon DEF StepRefused
<1>2. Running /\ job.frames # <<>>
  BY Zenon DEF StepRefused
<1> QED
  BY Zenon, <1>1, <1>2 DEF StepRefused

LEMMA RefusedSteps ==
  ASSUME SettlementInv, StepRefused
  PROVE  SettlementInv'
<1>1. /\ LogOK /\ JobOK /\ JobTypes /\ RestTypes /\ RowTypes
      /\ crashes \in 0 .. FaultLimit
  BY Parts
<1>2. /\ UNCHANGED <<log, rows, crashes>> /\ Running /\ job.frames # <<>>
  BY RefusedIs
<1>3. LogOK' /\ OthersAppend /\ RowTypes'
  BY <1>1, <1>2, LogRests DEF RowTypes
<1>4. PICK top, frames, n, c, todo :
         /\ top = Top /\ frames = job.frames /\ n = Len(frames) /\ c = cached
         /\ todo = top.todo
  OBVIOUS
<1>5. /\ FramesOK(frames) /\ frames \in Seq(FrameType) /\ n \in Nat \ {0}
      /\ top \in FrameType /\ FrameOK(top, n, n) /\ top = frames[n]
      /\ todo \in Seq(Incoming) /\ 0 < Len(todo) /\ LoopOK(c)
      /\ Head(todo) \in Incoming /\ RunningAt(job.at) /\ job.at # "commit"
  BY <1>1, <1>2, <1>4, TopIs DEF Top
<1>6. FramesOK(frames)' /\ LoopOK(c)'
  BY <1>3, <1>5, FramesStay, FoldsStay
<1>7. PICK ev : ev = Head(todo) /\ ev \in Incoming
  BY <1>5
<1>8. CASE /\ top.tries > 0 /\ cached' = log
           /\ UNCHANGED <<executing, wakes, steered, recovered>>
           /\ job' = [job EXCEPT !.frames =
                        Returned(Retired(frames)) \o <<Frame(log, <<ev>>, top.tries - 1, TRUE)>>]
  <2>1. PICK fold, f : fold = log /\ f = Frame(fold, <<ev>>, top.tries - 1, TRUE)
    OBVIOUS
  <2>2. Current(fold)' /\ LoopOK(fold)'
    BY <1>1, <1>2, <2>1, CurrentLog
  <2>3. top.tries \in Nat /\ top.tries + n <= AppendRetries + 1
    BY <1>5 DEF FrameOK, FrameType
  <2>4. /\ f.fold = fold /\ f.todo = <<ev>> /\ f.tries = top.tries - 1 /\ f.live
        /\ f \in FrameType
    <3>1. <<ev>> \in Seq(Incoming) /\ top.tries - 1 \in Nat /\ fold \in Seq(Event)
      BY <1>7, <1>8, <2>2, <2>3 DEF Current, Folds
    <3> HIDE DEF Incoming
    <3> QED
      BY <2>1, <3>1 DEF Frame, FrameType
  <2>5. f.todo # <<>> /\ InertFrom(f.todo, 1)
    BY <2>4 DEF InertFrom
  <2>6. PICK old : old = Retired(frames)
    OBVIOUS
  <2>7. FramesOK(old) /\ Len(old) = n /\ \A i \in 1 .. n : ~old[i].live
    BY <1>4, <1>5, <2>6, RetiredOK
  <2>8. FramesOK(old)'
    BY <1>3, <2>7, FramesStay
  <2>9. PICK all : all = Returned(old) \o <<f>>
    OBVIOUS
  <2>10. f.tries + Len(old) + 1 <= AppendRetries + 1
    BY <1>5, <2>3, <2>4, <2>7, SettlementAssumption
  <2>11. /\ FramesOK(all)' /\ all \in Seq(FrameType)
         /\ \A i \in 1 .. Len(all) : all[i].todo # <<>>
    BY <2>2, <2>4, <2>5, <2>7, <2>8, <2>9, <2>10, PushedOK
  <2>12. job' = [job EXCEPT !.frames = all]
    BY <1>8, <2>1, <2>6, <2>9
  <2>13. JobTypes' /\ job'.at = job.at /\ job'.frames = all
    BY <1>1, <2>11, <2>12 DEF JobTypes, Job
  <2>14. cached' = fold
    BY <1>8, <2>1
  <2>15. JobOK'
    BY <1>5, <2>2, <2>11, <2>13, <2>14 DEF JobOK, RunningAt
  <2>16. RestTypes'
    BY <1>1, <1>8, RestIs
  <2> QED
    BY <1>1, <1>2, <1>3, <2>13, <2>15, <2>16, Assemble
<1>9. CASE /\ UNCHANGED cached /\ job' = WithTop([top EXCEPT !.todo = Tail(@)])
           /\ UNCHANGED <<executing, wakes, steered, recovered>>
  <2>1. PICK rest : rest = Tail(todo) /\ rest \in Seq(Incoming) /\ InertFrom(rest, 0)
    BY <1>4, <1>5, TailIsInert DEF FrameOK
  <2>2. PICK after : after = [top EXCEPT !.todo = rest]
    OBVIOUS
  <2>3. /\ after \in FrameType /\ after.fold = top.fold /\ after.todo = rest
        /\ after.tries = top.tries /\ (after.live <=> top.live)
    BY <1>5, <2>1, <2>2 DEF FrameType
  <2>4. FrameOK(after, n, n)'
    <3>1. FrameOK(top, n, n)' /\ InertFrom(rest, 1)
      BY <1>4, <1>5, <1>6, <2>1 DEF FramesOK, InertFrom
    <3> QED
      BY <2>1, <2>3, <3>1 DEF FrameOK
  <2>5. \A i \in 1 .. n : FrameOK(frames[i], i, n)'
    BY <1>4, <1>6 DEF FramesOK
  <2>6. job' = WithTop(after) /\ cached' = c
    BY <1>4, <1>9, <2>1, <2>2
  <2>7. JobTypes' /\ JobOK'
    BY <1>1, <1>2, <1>4, <1>6, <2>3, <2>4, <2>5, <2>6, TopSteps
  <2>8. RestTypes'
    BY <1>1, <1>9, RestIs
  <2> QED
    BY <1>1, <1>2, <1>3, <2>7, <2>8, Assemble
<1>10. CASE UNCHANGED cached /\ JobThrown
  <2>1. JobTypes' /\ RestTypes' /\ job'.at = "free" /\ job'.frames = <<>>
    BY <1>1, <1>10, ThrownIs
  <2>2. JobOK'
    BY <1>1, <1>2, <1>5, <1>10, <2>1, QuietLoop
  <2> QED
    BY <1>1, <1>2, <1>3, <2>1, <2>2, Assemble
<1> QED
  BY <1>4, <1>7, <1>8, <1>9, <1>10, RefusedIs

(***************************************************************************)
(* The theorems.                                                           *)
(***************************************************************************)

LEMMA SettlementStarts ==
  ASSUME Init
  PROVE  SettlementInv
<1> DEFINE ev == Ev("message.started", 1, "request")
<1>1. ev \in Event /\ ev.kind = "message.started" /\ ev.upTo = 0
  BY EvIs DEF Kinds, Hows, Ofs
<1>2. log = <<ev>> /\ cached = log /\ job = NoJob
  BY DEF Init
<1> HIDE DEF ev
<1>3. /\ log \in Seq(Event) /\ Len(log) = 1 /\ log[1] = ev
      /\ \A i \in 1 .. Len(log) : i = 1
  BY <1>1, <1>2
<1>4. LogOK
  BY <1>1, <1>3 DEF LogOK, IdsAreUnique, ForeignersCount, ContextsAreBehind
<1>5. NoJob \in Job /\ job.at = "free" /\ job.op = "none" /\ job.frames = <<>>
  BY <1>2, NoJobIs
<1>6. JobOK
  <2>1. LoopOK(log)
    BY <1>4, LogIsCurrent
  <2> QED
    BY <1>2, <1>5, <2>1 DEF JobOK, RunningAt
<1>7. JobTypes
  BY <1>2, <1>5 DEF JobTypes
<1>8. RestTypes /\ RowTypes /\ crashes \in 0 .. FaultLimit
  BY SettlementAssumption DEF Init, RestTypes, RowTypes, Dispositions
<1> QED
  BY <1>4, <1>6, <1>7, <1>8, TypesAre DEF SettlementInv

LEMMA SettlementSteps ==
  ASSUME SettlementInv, [Next]_vars
  PROVE  SettlementInv'
<1>1. CASE JobStep
  BY <1>1, AppendSteps, CommitSteps, DropSteps, ClearSteps, AcceptedSteps, RefusedSteps,
     ReturnSteps, SettleSteps, ReloadSteps, RecoverSteps, GiveUpSteps DEF JobStep
<1>2. ASSUME NEW e \in Effects, EffectStep(e)
      PROVE  SettlementInv'
  BY <1>2, QuietSteps, StartSteps DEF EffectStep
<1>3. CASE (\E s \in Steers : StartSteer(s)) \/ StartAdoption
  BY <1>3, StartSteps
<1>4. CASE Foreign
  BY <1>4, ForeignSteps
<1>5. CASE Crash \/ CrashAfterAppend
  BY <1>5, CrashSteps
<1>6. CASE UNCHANGED vars
  <2>1. /\ LogOK /\ JobOK /\ JobTypes /\ RestTypes /\ RowTypes
        /\ crashes \in 0 .. FaultLimit
    BY Parts
  <2>2. UNCHANGED <<log, rows, wakes, steered, cached, executing, recovered, job, crashes>>
    BY <1>6 DEF vars, durable, volatile
  <2>3. LogOK' /\ JobOK'
    BY <2>1, <2>2, LogRests, JobStays
  <2>4. JobTypes' /\ RestTypes' /\ RowTypes'
    BY <2>1, <2>2 DEF JobTypes, RestTypes, RowTypes
  <2> QED
    BY <2>1, <2>2, <2>3, <2>4, Assemble
<1> QED
  BY <1>1, <1>2, <1>3, <1>4, <1>5, <1>6 DEF Next

LEMMA SettlementHolds == Spec => []SettlementInv
<1>1. Init => SettlementInv
  BY SettlementStarts
<1>2. SettlementInv /\ [Next]_vars => SettlementInv'
  BY SettlementSteps
<1> QED
  BY <1>1, <1>2, PTL DEF Spec

\* As many activations of runStep as the retries of a step allow.
LEMMA ActivationsAreFew ==
  ASSUME SettlementInv
  PROVE  Len(job.frames) <= AppendRetries + 1
<1>1. JobOK /\ JobTypes
  BY Parts
<1>2. PICK frames, c : frames = job.frames /\ c = cached
  OBVIOUS
<1>3. CASE job.at = "commit"
  <2>1. Len(frames) = 1
    BY <1>1, <1>2, <1>3 DEF JobOK, CommitOK
  <2> QED
    BY <1>2, <2>1, SettlementAssumption
<1>4. CASE RunningAt(job.at)
  <2>1. FramesOK(frames)
    BY <1>1, <1>2, <1>4 DEF JobOK
  <2>2. PICK n \in Nat : n = Len(frames)
    BY <2>1 DEF FramesOK
  <2>3. CASE n = 0
    BY <1>2, <2>2, <2>3, SettlementAssumption
  <2>4. CASE n # 0
    <3>1. FrameOK(frames[n], n, n)
      BY <2>1, <2>2, <2>4 DEF FramesOK
    <3>2. frames[n].tries \in Nat /\ frames[n].tries + n <= AppendRetries + 1
      BY <3>1 DEF FrameOK, FrameType
    <3> QED
      BY <1>2, <2>2, <3>2, SettlementAssumption
  <2> QED
    BY <2>3, <2>4
<1>5. CASE job.at # "commit" /\ ~RunningAt(job.at)
  <2>1. frames = <<>>
    BY <1>1, <1>2, <1>5 DEF JobOK
  <2> QED
    BY <1>2, <2>1, SettlementAssumption
<1> QED
  BY <1>3, <1>4, <1>5

\* The rows, the recovery rows, the executors and the job are what the code writes; a
\* request counts only events before it into its context; and no reload nests
\* activations of runStep deeper than a step may be retried.
THEOREM SettlementTypes == Spec => []TypeOK
<1>1. SettlementInv => TypeOK
  <2> SUFFICES ASSUME SettlementInv
               PROVE  TypeOK
    OBVIOUS
  <2>1. /\ LogOK /\ JobTypes /\ RestTypes /\ RowTypes /\ crashes \in 0 .. FaultLimit
    BY Parts
  <2>2. ASSUME NEW i \in DOMAIN log
        PROVE  log[i].upTo \in 0 .. i - 1
    <3>1. log \in Seq(Event) /\ i \in 1 .. Len(log) /\ log[i].upTo < i
      BY <2>1 DEF LogOK, ContextsAreBehind
    <3>2. log[i].upTo \in Nat
      BY <3>1, EventIs
    <3> QED
      BY <3>1, <3>2
  <2>3. Len(job.frames) <= AppendRetries + 1
    BY ActivationsAreFew
  <2> QED
    BY <2>1, <2>2, <2>3 DEF TypeOK, JobTypes, Job, RestTypes, RowTypes
<1> QED
  BY <1>1, SettlementHolds, PTL

LEMMA FoldIsThere ==
  ASSUME LogOK, NEW fold, Folds(fold)
  PROVE  IsPrefix(fold, log)
<1>1. /\ fold \in Seq(Event) /\ log \in Seq(Event) /\ Len(fold) <= Len(log)
      /\ Len(fold) \in Nat /\ Len(log) \in Nat
      /\ \A i \in 1 .. Len(fold) : fold[i] = log[i]
  BY DEF LogOK, Folds
<1>2. PICK n \in Nat, m \in Nat : n = Len(fold) /\ m = Len(log) /\ n <= m
  BY <1>1
<1>3. PICK s : s = SubSeq(log, 1, n)
  OBVIOUS
<1>4. s \in Seq(Event) /\ Len(s) = n /\ \A i \in 1 .. n : s[i] = log[i]
  BY <1>1, <1>2, <1>3
<1>5. s = fold
  <2>1. \A a, b \in Seq(Event) :
          Len(a) = Len(b) /\ (\A i \in 1 .. Len(a) : a[i] = b[i]) => a = b
    OBVIOUS
  <2> QED
    BY <1>1, <1>2, <1>4, <2>1
<1> QED
  BY <1>2, <1>3, <1>5 DEF IsPrefix

\* Every loop object, the one in use and those of the activations under it, is a prefix
\* of the log: whatever the retries, replays, nested cascades, reloads and deaths, and
\* whatever the other writers append, none skips an event or applies one twice.
THEOREM FoldsArePrefixes == Spec => []FoldIsPrefix
<1>1. SettlementInv => FoldIsPrefix
  <2> SUFFICES ASSUME SettlementInv
               PROVE  FoldIsPrefix
    OBVIOUS
  <2>1. LogOK /\ JobOK
    BY Parts
  <2>2. PICK frames, c : frames = job.frames /\ c = cached
    OBVIOUS
  <2>3. IsPrefix(<<>>, log)
    <3>1. \A s \in Seq(Event) : 0 <= Len(s) /\ SubSeq(s, 1, 0) = <<>>
      OBVIOUS
    <3> QED
      BY <2>1, <3>1 DEF LogOK, IsPrefix
  <2>4. c = <<>> \/ Folds(c)
    BY <2>1, <2>2 DEF JobOK, CommitOK, LoopOK, Current
  <2>5. \A i \in DOMAIN frames : Folds(frames[i].fold)
    <3>1. CASE job.at = "commit"
      BY <2>1, <2>2, <3>1 DEF JobOK, CommitOK
    <3>2. CASE RunningAt(job.at)
      BY <2>1, <2>2, <3>2 DEF JobOK, FramesOK, FrameOK
    <3>3. CASE job.at # "commit" /\ ~RunningAt(job.at)
      BY <2>1, <2>2, <3>3 DEF JobOK
    <3> QED
      BY <3>1, <3>2, <3>3
  <2> QED
    BY <2>1, <2>2, <2>3, <2>4, <2>5, FoldIsThere DEF FoldIsPrefix
<1> QED
  BY <1>1, SettlementHolds, PTL

(***************************************************************************)
(* The close of a turn and the steers before it.                           *)
(***************************************************************************)

Completes(ev) == ev.kind = "turn.closed" /\ ev.how = "completed"

\* A batch that does not end the turn as completed.
GoesOn(items) == \A k \in 1 .. Len(items) : ~Completes(items[k])

\* One that does is the close alone, on a fold without a queued steer.
Closes(items, fold) ==
  GoesOn(items) \/ (Len(items) = 1 /\ SteeringQueue(fold) = {})

LEMMA OneGoesOn ==
  ASSUME NEW ev, ~Completes(ev)
  PROVE  GoesOn(<<ev>>)
BY DEF GoesOn

LEMMA EvGoesOn ==
  ASSUME NEW kind, NEW of, NEW how, kind # "turn.closed" \/ how # "completed", NEW effects
  PROVE  GoesOn(Output(<<Ev(kind, of, how)>>, effects).append)
BY OneGoesOn DEF Ev, Completes, Output

LEMMA NothingGoesOn == GoesOn(Nothing.append) /\ GoesOn(<<>>)
BY DEF GoesOn, Nothing, Output

LEMMA NextGoesOn ==
  ASSUME NEW L
  PROVE  GoesOn(NextModelCall(L).append)
<1>1. GoesOn(CloseTurn("model_retry_limit_exceeded").append)
  BY EvGoesOn DEF CloseTurn
<1>2. GoesOn(Request(ModelCallCount(L) + 1, Len(L)).append)
  <2> DEFINE ev == [Ev("message.started", ModelCallCount(L) + 1, "request")
                      EXCEPT !.upTo = Len(L)]
  <2>1. ~Completes(ev)
    BY DEF Ev, Completes
  <2> HIDE DEF ev
  <2>2. GoesOn(<<ev>>)
    BY <2>1, OneGoesOn
  <2> QED
    BY <2>2 DEF Request, Output, ev
<1> QED
  BY <1>1, <1>2, NothingGoesOn DEF NextModelCall

LEMMA ExpandGoesOn ==
  ASSUME NEW items, Expands(items)
  PROVE  GoesOn(items)
BY DEF Expands, GoesOn, Completes

LEMMA AnswerCloses ==
  ASSUME NEW fold, NEW todo, CallList(todo)
  PROVE  Closes(AfterAnswer(fold, todo).append, fold)
<1>1. GoesOn(ExpandToolCalls(todo).append)
  BY ExpandIs, ExpandGoesOn
<1>2. Len(CloseTurn("completed").append) = 1
  BY DEF CloseTurn, Output
<1> QED
  BY <1>1, <1>2, NextGoesOn DEF AfterAnswer, Closes

LEMMA EventCloses ==
  ASSUME NEW fold, TurnLog(fold), NEW ev
  PROVE  Closes(EventStep(fold, ev).append, fold)
<1>1. CallList(IF ev.kind = "diagnostic" THEN <<>> ELSE CallsOf(fold, ev.of))
  <2>1. CallList(<<>>)
    BY DEF CallList
  <2> QED
    BY <2>1, CallsOfIs
<1>2. Closes(AfterAnswer(fold, IF ev.kind = "diagnostic" THEN <<>>
                               ELSE CallsOf(fold, ev.of)).append, fold)
  BY <1>1, AnswerCloses
<1>3. GoesOn(NextModelCall(fold).append) /\ GoesOn(Nothing.append)
  BY NextGoesOn, NothingGoesOn
<1>4. GoesOn(CloseTurn("work_failed").append)
  BY EvGoesOn DEF CloseTurn
<1>5. GoesOn(AfterInvocation(fold, ev.how).append)
  <2>1. GoesOn(CloseTurn("tool_terminated").append) /\ GoesOn(ParkTurn(fold).append)
    BY EvGoesOn DEF CloseTurn, ParkTurn
  <2>2. GoesOn(AfterBatch(fold, ev.how).append)
    BY <1>3, <1>4, <2>1, BatchLeads DEF BatchEnds
  <2> QED
    BY <1>3, <2>2 DEF AfterInvocation
<1>6. /\ GoesOn(Output(<<>>, {Call(ev.of)}).append)
      /\ GoesOn(Output(<<Ev("invocation.terminal", ev.of, "denied")>>, {}).append)
      /\ GoesOn(Output(<<Ev("diagnostic", 0, "completed")>>, {}).append)
  BY EvGoesOn, NothingGoesOn, AppendOf
<1> DEFINE Form1 == AfterAnswer(fold, IF ev.kind = "diagnostic" THEN <<>>
                                      ELSE CallsOf(fold, ev.of))
<1>7. EventStep(fold, ev) \in
        {Form1, Nothing, NextModelCall(fold), CloseTurn("work_failed"),
         AfterInvocation(fold, ev.how),
         Output(<<>>, {Call(ev.of)}),
         Output(<<Ev("invocation.terminal", ev.of, "denied")>>, {}),
         Output(<<Ev("diagnostic", 0, "completed")>>, {})}
  <2>1. CASE ~Open(fold)
    BY <2>1 DEF EventStep
  <2>2. CASE Open(fold) /\ ev.kind \in {"message.terminal", "diagnostic"}
    BY <2>2 DEF EventStep
  <2>3. CASE Open(fold) /\ ev.kind = "invocation.terminal"
    BY <2>3 DEF EventStep
  <2>4. CASE Open(fold) /\ ev.kind = "approval.resolved"
    BY <2>4 DEF EventStep
  <2>5. CASE Open(fold) /\ ev.kind = "artifacts.ready"
    BY <2>5 DEF EventStep
  <2>6. CASE Open(fold) /\ ev.kind = "artifacts.failed"
    BY <2>6 DEF EventStep
  <2>7. CASE ev.kind \notin {"message.terminal", "diagnostic", "invocation.terminal",
                             "approval.resolved", "artifacts.ready", "artifacts.failed"}
    BY <2>7 DEF EventStep
  <2> QED
    BY <2>1, <2>2, <2>3, <2>4, <2>5, <2>6, <2>7
<1> QED
  BY <1>2, <1>3, <1>4, <1>5, <1>6, <1>7 DEF Closes

LEMMA BothGoOn ==
  ASSUME NEW a \in Seq(Event), NEW b \in Seq(Event), GoesOn(a), GoesOn(b)
  PROVE  GoesOn(a \o b) /\ a \o b \in Seq(Event)
<1>1. PICK c : c = a \o b
  OBVIOUS
<1>2. /\ c \in Seq(Event)
      /\ \A k \in 1 .. Len(c) : \/ k \in 1 .. Len(a) /\ c[k] = a[k]
                                \/ k - Len(a) \in 1 .. Len(b) /\ c[k] = b[k - Len(a)]
  <2> HIDE DEF Event
  <2> QED
    BY <1>1
<1>3. GoesOn(c)
  BY <1>2 DEF GoesOn
<1> QED
  BY <1>1, <1>2, <1>3

\* A wake ends what it finds in flight and goes on; it never completes a turn.
LEMMA WakeGoesOn ==
  ASSUME NEW fold, TurnLog(fold)
  PROVE  GoesOn(Wake(fold).append)
<1> DEFINE orphans == IF InFlight(fold) = {} THEN <<>>
                      ELSE <<Ev("message.terminal", CHOOSE n \in InFlight(fold) : TRUE,
                                "interrupted")>>
           after == fold \o orphans
<1>1. PICK todo, more :
        /\ CallList(todo)
        /\ more \in {ExpandToolCalls(todo), NextModelCall(after), Nothing}
        /\ Wake(fold).append = orphans \o more.append \/ Wake(fold).append = orphans
  BY WakeGoes DEF OrphansOf
<1> HIDE DEF after
<1>2. GoesOn(more.append)
  BY <1>1, ExpandIs, ExpandGoesOn, NextGoesOn, NothingGoesOn
<1>3. GoesOn(orphans)
  BY NothingGoesOn, OneGoesOn DEF Ev, Completes
<1>4. orphans \in Seq(Event)
  <2> DEFINE n == CHOOSE n \in InFlight(fold) : TRUE
             t == Ev("message.terminal", n, "interrupted")
  <2>1. CASE InFlight(fold) = {}
    BY <2>1
  <2>2. CASE InFlight(fold) # {}
    <3>1. n \in InFlight(fold)
      BY <2>2
    <3> HIDE DEF n
    <3>2. n \in Ofs
      BY <3>1, InFlightIs
    <3>3. t \in Event
      BY <3>2, EvIs DEF Kinds, Hows
    <3>4. orphans = <<t>>
      BY <2>2 DEF n
    <3> HIDE DEF t, orphans
    <3> QED
      BY <3>3, <3>4
  <2> QED
    BY <2>1, <2>2
<1>5. more.append \in Seq(Event)
  <2>1. NextIs(NextModelCall(after).append, Len(after)) \/ after \notin Seq(Event)
    BY NextModelCallIs
  <2>2. after \in Seq(Event)
    BY <1>4 DEF after, TurnLog
  <2>3. \A ev \in Event : <<ev>> \in Seq(Event)
    OBVIOUS
  <2>4. <<>> \in Seq(Event) /\ Nothing.append = <<>>
    BY DEF Nothing, Output
  <2> QED
    BY <1>1, <2>1, <2>2, <2>3, <2>4, ExpandIs DEF Expands, NextIs
<1> HIDE DEF orphans
<1>6. GoesOn(orphans \o more.append)
  BY <1>2, <1>3, <1>4, <1>5, BothGoOn
<1> QED
  BY <1>1, <1>3, <1>6

LEMMA StepCloses ==
  ASSUME NEW fold, TurnLog(fold), NEW ev
  PROVE  Closes(StepOutput(fold, ev).append, fold)
<1>1. GoesOn(Steer(fold, ev.of).append)
  BY EvGoesOn, NothingGoesOn DEF Steer
<1>2. GoesOn(EffectFailed(fold, job.effect).append)
  BY EvGoesOn, NothingGoesOn DEF EffectFailed
<1> QED
  BY <1>1, <1>2, WakeGoesOn, EventCloses DEF StepOutput, Closes

LEMMA OutcomeGoesOn ==
  ASSUME NEW e \in Effects, NEW how
  PROVE  GoesOn(OutcomeEvents(e, how))
<1>1. PICK kind \in {"message.terminal", "invocation.terminal", "approval.resolved",
                     "artifacts.ready"} :
        OutcomeEvents(e, how) = <<Ev(kind, e[2], how)>>
  BY EffectIs DEF OutcomeEvents
<1> QED
  BY <1>1, OneGoesOn DEF Ev, Completes

LEMMA StrandedGoesOn ==
  ASSUME log \in Seq(Event)
  PROVE  GoesOn(StrandedFailure(log))
<1> DEFINE one == PendingItems(PendingInvocations(log), "invocation.terminal", "abandoned")
           two == PendingItems(PendingApprovals(log), "approval.resolved", "denied")
           end == Ev("turn.closed", 0, "stranded")
<1>1. /\ IsFiniteSet(PendingInvocations(log)) /\ PendingInvocations(log) \subseteq Ofs
      /\ IsFiniteSet(PendingApprovals(log)) /\ PendingApprovals(log) \subseteq Ofs
  <2>1. /\ PendingInvocations(log) \subseteq Logged(log, "invocation.started")
        /\ PendingApprovals(log) \subseteq Logged(log, "approval.requested")
    BY DEF PendingInvocations, PendingApprovals
  <2> QED
    BY <2>1, LoggedIs, LoggedIsFinite, FS_Subset
<1>2. EachOnce(one, "invocation.terminal") /\ EachOnce(two, "approval.resolved")
  <2>1. /\ "invocation.terminal" \in Kinds /\ "abandoned" \in Hows
        /\ "approval.resolved" \in Kinds /\ "denied" \in Hows
    BY DEF Kinds, Hows
  <2> QED
    BY <1>1, <2>1, PendingItemsAre
<1>3. StrandedFailure(log) = one \o two \o <<end>>
  BY DEF StrandedFailure, PendingItems
<1>4. end \in Event /\ ~Completes(end)
  <2>1. "turn.closed" \in Kinds /\ "stranded" \in Hows /\ 0 \in Ofs
    BY DEF Kinds, Hows, Ofs
  <2> QED
    BY <2>1, EvIs DEF Ev, Completes
<1> HIDE DEF one, two, end
<1>5. PICK a \in Seq(Event), b \in Seq(Event), c \in Seq(Event) : a = one /\ b = two /\ c = <<end>>
  <2>1. one \in Seq(Event) /\ two \in Seq(Event)
    BY <1>2 DEF EachOnce
  <2>2. \A ev \in Event : <<ev>> \in Seq(Event)
    OBVIOUS
  <2>3. <<end>> \in Seq(Event)
    BY <1>4, <2>2
  <2> QED
    BY <2>1, <2>3
<1>6. GoesOn(a) /\ GoesOn(b)
  BY <1>2, <1>5 DEF EachOnce, GoesOn, Completes
<1>7. GoesOn(c)
  BY <1>4, <1>5, OneGoesOn
<1>8. GoesOn(a \o b) /\ a \o b \in Seq(Event)
  BY <1>6, BothGoOn
<1>9. GoesOn((a \o b) \o c)
  BY <1>7, <1>8, BothGoOn
<1> QED
  BY <1>3, <1>5, <1>9

\* What is said of a close stays said: the log before it does not change.
LEMMA OlderCloses ==
  ASSUME log \in Seq(Event), log' \in Seq(Event), NoSteerIsDropped,
         Len(log) <= Len(log'), \A i \in 1 .. Len(log) : log'[i] = log[i],
         \A i \in 1 .. Len(log') :
           i > Len(log) /\ Completes(log'[i]) => i = Len(log) + 1 /\ SteeringQueue(log) = {}
  PROVE  NoSteerIsDropped'
<1>1. PICK old \in Seq(Event), now \in Seq(Event), m \in Nat, n \in Nat :
        /\ old = log /\ now = log' /\ m = Len(log) /\ n = Len(log') /\ m <= n
        /\ m = Len(old) /\ n = Len(now) /\ DOMAIN old = 1 .. m /\ DOMAIN now = 1 .. n
        /\ \A i \in 1 .. m : now[i] = old[i]
  OBVIOUS
<1>2. \A k \in 0 .. m : SubSeq(now, 1, k) = SubSeq(old, 1, k)
  <2> SUFFICES ASSUME NEW k \in 0 .. m
               PROVE  SubSeq(now, 1, k) = SubSeq(old, 1, k)
    OBVIOUS
  <2>1. PICK a, b : a = SubSeq(now, 1, k) /\ b = SubSeq(old, 1, k)
    OBVIOUS
  <2>2. /\ a \in Seq(Event) /\ Len(a) = k /\ \A i \in 1 .. k : a[i] = now[i]
        /\ b \in Seq(Event) /\ Len(b) = k /\ \A i \in 1 .. k : b[i] = old[i]
    <3> HIDE DEF Event
    <3> QED
      BY <1>1, <2>1
  <2>3. ASSUME NEW i \in 1 .. k
        PROVE  a[i] = b[i]
    <3>1. i \in 1 .. m
      OBVIOUS
    <3> QED
      BY <1>1, <2>2, <3>1
  <2>4. \A s, t \in Seq(Event) :
          Len(s) = Len(t) /\ (\A i \in 1 .. Len(s) : s[i] = t[i]) => s = t
    OBVIOUS
  <2> QED
    BY <2>1, <2>2, <2>3, <2>4
<1>3. SubSeq(old, 1, m) = old
  BY <1>1
<1>4. \A i \in 1 .. m :
        Completes(old[i]) => SteeringQueue(SubSeq(old, 1, i - 1)) = {}
  BY <1>1 DEF NoSteerIsDropped, At, Completes
<1>5. ASSUME NEW i \in 1 .. n, Completes(now[i])
      PROVE  SteeringQueue(SubSeq(now, 1, i - 1)) = {}
  <2>1. CASE i \in 1 .. m
    <3>1. i - 1 \in 0 .. m /\ now[i] = old[i]
      BY <1>1, <2>1
    <3>2. SubSeq(now, 1, i - 1) = SubSeq(old, 1, i - 1)
      BY <1>2, <3>1
    <3> QED
      BY <1>4, <1>5, <2>1, <3>1, <3>2
  <2>2. CASE i > m
    <3>1. i = m + 1 /\ SteeringQueue(old) = {}
      BY <1>1, <1>5, <2>2
    <3>2. SubSeq(now, 1, i - 1) = old
      BY <1>2, <1>3, <3>1
    <3> QED
      BY <3>1, <3>2
  <2> QED
    BY <2>1, <2>2
<1>6. \A i \in At(now, {"turn.closed"}) :
        now[i].how = "completed" => SteeringQueue(SubSeq(now, 1, i - 1)) = {}
  BY <1>1, <1>5 DEF At, Completes
<1> QED
  BY <1>1, <1>6 DEF NoSteerIsDropped

LEMMA OthersClose ==
  ASSUME LogOK, LogOK', OthersAppend, NoSteerIsDropped
  PROVE  NoSteerIsDropped'
BY OlderCloses DEF LogOK, OthersAppend, Completes

\* A batch keeps the property when it goes on, or when it is the close alone and is
\* written on the whole log.
LEMMA BatchCloses ==
  ASSUME LogOK, NoSteerIsDropped, NEW items, Writes(items), log' = Appended(items),
         ~GoesOn(items) /\ New(items) # <<>> => Len(items) = 1 /\ SteeringQueue(log) = {}
  PROVE  NoSteerIsDropped'
<1>1. PICK fresh, m, n : /\ fresh = New(items) /\ m = Len(log) /\ n = Len(fresh)
                         /\ m \in Nat /\ n \in Nat
  <2>1. Len(New(items)) \in Nat /\ Len(log) \in Nat
    BY NewEvents DEF LogOK, Writes
  <2> QED
    BY <2>1
<1>2. PICK f : Picks(f, items)
  BY NewEvents DEF Writes
<1>3. /\ log' \in Seq(Event) /\ Len(log') = m + n
      /\ \A i \in 1 .. m : log'[i] = log[i]
      /\ \A j \in 1 .. n : log'[m + j] = fresh[j]
  BY <1>1, AppendedIs DEF LogOK, Writes
<1>4. ASSUME NEW i \in 1 .. (m + n), i > m, Completes(log'[i])
      PROVE  i = m + 1 /\ SteeringQueue(log) = {}
  <2>1. PICK j \in 1 .. n : i = m + j
    <3>1. i - m \in 1 .. n /\ i = m + (i - m)
      BY <1>1, <1>4
    <3> QED
      BY <3>1
  <2>2. f[j] \in 1 .. Len(items) /\ fresh[j] = items[f[j]]
    BY <1>1, <1>2, <2>1 DEF Picks
  <2>3. ~GoesOn(items)
    BY <1>3, <1>4, <2>1, <2>2 DEF GoesOn
  <2>4. Len(items) = 1 /\ SteeringQueue(log) = {}
    BY <1>1, <2>1, <2>3
  <2>5. j = 1
    <3>1. CASE j > 1
      <4>1. 1 \in 1 .. n
        BY <1>1, <2>1
      <4>2. f[1] \in 1 .. 1 /\ f[j] \in 1 .. 1 /\ f[1] < f[j]
        BY <1>1, <1>2, <2>1, <2>4, <3>1, <4>1 DEF Picks
      <4> QED
        BY <4>2
    <3> QED
      BY <2>1, <3>1
  <2> QED
    BY <2>1, <2>4, <2>5
<1>5. /\ log \in Seq(Event) /\ Len(log) <= Len(log')
      /\ \A i \in 1 .. Len(log) : log'[i] = log[i]
      /\ \A i \in 1 .. Len(log') :
           i > Len(log) /\ Completes(log'[i]) => i = Len(log) + 1 /\ SteeringQueue(log) = {}
  BY <1>1, <1>3, <1>4 DEF LogOK
<1> QED
  BY <1>3, <1>5, OlderCloses

\* An accepted step of the innermost activation.
LEMMA AcceptedCloses ==
  ASSUME LogOK, NoSteerIsDropped, NEW fold, Current(fold), NEW ev \in Incoming,
         NEW items, items = StepOutput(fold, ev).append,
         Refusal(items, fold) = "none", log' = Appended(items)
  PROVE  NoSteerIsDropped'
<1>1. TurnLog(fold)
  BY FoldIsTurnLog DEF Current
<1>2. Writes(items)
  BY <1>1, StepSuits DEF OutputSuits
<1>3. Closes(items, fold)
  BY <1>1, StepCloses
<1>4. New(items) # <<>> => fold = log
  <2>1. \A a, b \in Seq(Event) :
          Len(a) = Len(b) /\ (\A i \in 1 .. Len(a) : a[i] = b[i]) => a = b
    OBVIOUS
  <2> QED
    BY <1>2, <2>1, AcceptedMeets DEF Current, Folds, LogOK
<1>5. ~GoesOn(items) /\ New(items) # <<>> => Len(items) = 1 /\ SteeringQueue(log) = {}
  BY <1>3, <1>4 DEF Closes
<1> QED
  BY <1>2, <1>5, BatchCloses

\* The steps that append something of the turn.
LEMMA AppendCloses ==
  ASSUME SettlementInv, SettlementInv', NoSteerIsDropped, AppendOutcome
  PROVE  NoSteerIsDropped'
<1>1. LogOK /\ LogOK' /\ JobTypes /\ JobOK
  BY Parts DEF SettlementInv
<1>2. job.effect \in Effects /\ job.how \in Hows
  BY <1>1 DEF AppendOutcome, JobTypes
<1>3. PICK items : items = OutcomeEvents(job.effect, job.how)
  OBVIOUS
<1>4. Writes(items) /\ GoesOn(items)
  <2>1. TurnLog(log)
    BY <1>1 DEF LogOK, TurnLog
  <2> QED
    BY <1>2, <1>3, <2>1, OutcomeSuits, OutcomeGoesOn
<1>5. log' = Appended(items) \/ UNCHANGED log
  BY <1>3 DEF AppendOutcome
<1>6. CASE log' = Appended(items)
  BY <1>1, <1>4, <1>6, BatchCloses
<1>7. CASE UNCHANGED log
  BY <1>1, <1>7, LogRests, OthersClose
<1> QED
  BY <1>5, <1>6, <1>7

LEMMA RunCloses ==
  ASSUME SettlementInv, SettlementInv', NoSteerIsDropped, StepAccepted \/ CrashAfterAppend
  PROVE  NoSteerIsDropped'
<1>1. LogOK /\ LogOK' /\ JobOK /\ JobTypes
  BY Parts DEF SettlementInv
<1>2. Running /\ job.frames # <<>>
  BY DEF StepAccepted, CrashAfterAppend
<1>3. PICK top, n, fold, ev, items :
        /\ top = Top /\ n = Len(job.frames) /\ fold = top.fold /\ ev = Head(top.todo)
        /\ items = StepOutput(fold, ev).append
  OBVIOUS
<1>4. /\ n \in Nat \ {0} /\ top \in FrameType /\ FrameOK(top, n, n)
      /\ top.todo \in Seq(Incoming) /\ 0 < Len(top.todo) /\ ev \in Incoming
  BY <1>1, <1>2, <1>3, TopIs
<1>5. Refusal(items, fold) = "none" /\ log' = Appended(items)
  BY <1>3 DEF StepAccepted, CrashAfterAppend
<1>6. CASE top.live
  <2>1. Current(fold)
    BY <1>3, <1>4, <1>6 DEF FrameOK
  <2> QED
    BY <1>1, <1>3, <1>4, <1>5, <2>1, AcceptedCloses
<1>7. CASE ~top.live
  <2>1. items = <<>>
    BY <1>3, <1>4, <1>7, StaleStep
  <2>2. Writes(items) /\ GoesOn(items)
    BY <2>1, NoneSuits, NothingGoesOn
  <2> QED
    BY <1>1, <1>5, <2>2, BatchCloses
<1> QED
  BY <1>6, <1>7

LEMMA GiveUpCloses ==
  ASSUME SettlementInv, SettlementInv', NoSteerIsDropped, GiveUp
  PROVE  NoSteerIsDropped'
<1>1. LogOK /\ LogOK' /\ log \in Seq(Event)
  BY Parts DEF SettlementInv, LogOK
<1>2. PICK items : items = StrandedFailure(log)
  OBVIOUS
<1>3. Writes(items) /\ GoesOn(items)
  BY <1>1, <1>2, StrandedWrites, StrandedGoesOn
<1>4. log' = Appended(items) \/ UNCHANGED log
  BY <1>2 DEF GiveUp
<1>5. CASE log' = Appended(items)
  BY <1>1, <1>3, <1>5, BatchCloses
<1>6. CASE UNCHANGED log
  BY <1>1, <1>6, LogRests, OthersClose
<1> QED
  BY <1>4, <1>5, <1>6

LEMMA SteersAreKept ==
  ASSUME SettlementInv, SettlementInv', NoSteerIsDropped, [Next]_vars
  PROVE  NoSteerIsDropped'
<1>1. LogOK /\ LogOK'
  BY DEF SettlementInv
<1>2. CASE UNCHANGED log
  BY <1>1, <1>2, LogRests, OthersClose
<1>3. CASE Foreign
  <2>1. PICK ev : log' = Append(log, ev) /\ ev.kind = "foreign"
    <3>1. log' = Append(log, Ev("foreign", Foreigns + 1, "foreign"))
      BY <1>3 DEF Foreign
    <3>2. Ev("foreign", Foreigns + 1, "foreign").kind = "foreign"
      BY DEF Ev
    <3> QED
      BY <3>1, <3>2
  <2>2. OthersAppend
    <3>1. PICK old \in Seq(Event), now \in Seq(Event) : old = log /\ now = log'
      BY <1>1 DEF LogOK
    <3>2. now = Append(old, ev)
      BY <2>1, <3>1
    <3>3. /\ Len(now) = Len(old) + 1 /\ now[Len(old) + 1] = ev
          /\ \A i \in 1 .. Len(old) : now[i] = old[i]
      <4> HIDE DEF Event
      <4> QED
        BY <3>1, <3>2
    <3> QED
      BY <2>1, <3>1, <3>3 DEF OthersAppend
  <2> QED
    BY <1>1, <2>2, OthersClose
<1>4. CASE JobStep
  <2>1. \/ UNCHANGED log \/ AppendOutcome \/ StepAccepted \/ GiveUp
    BY <1>4, RefusedIs DEF JobStep, CommitOutcome, DropOutcome, ClearOutcome, RunReturns,
       Settle, ReloadForWake, Recover
  <2> QED
    BY <1>2, <2>1, AppendCloses, RunCloses, GiveUpCloses
<1>5. ASSUME NEW e \in Effects, EffectStep(e)
      PROVE  UNCHANGED log
  BY <1>5 DEF EffectStep, Claim, Park, Discard, FreeLease, ClaimWake, Answer, Push, StartOutcome,
     StartPush, StartFailed, StartWake, Settling, Begin, durable
<1>6. CASE (\E s \in Steers : StartSteer(s)) \/ StartAdoption
  BY <1>2, <1>6 DEF StartSteer, StartAdoption, Begin, durable
<1>7. CASE Crash
  BY <1>2, <1>7 DEF Crash
<1>8. CASE CrashAfterAppend
  BY <1>8, RunCloses
<1>9. CASE UNCHANGED vars
  BY <1>2, <1>9 DEF vars, durable
<1> QED
  BY <1>2, <1>3, <1>4, <1>5, <1>6, <1>7, <1>8, <1>9 DEF Next

\* Whatever steers arrive while jobs run, are retried after a reload or are run again by a
\* recovery: the close that completes a turn is decided on the whole log, so no steer of it
\* is left out of every model call's context.
THEOREM SteersAreHeard == Spec => []NoSteerIsDropped
<1>1. Init => NoSteerIsDropped
  <2> SUFFICES ASSUME Init, NEW i \in At(log, {"turn.closed"})
               PROVE  FALSE
    BY DEF NoSteerIsDropped
  <2>1. log = <<Ev("message.started", 1, "request")>>
    BY DEF Init
  <2>2. i \in 1 .. 1 /\ log[i].kind = "turn.closed"
    BY <2>1 DEF At
  <2>3. log[1].kind = "message.started"
    BY <2>1 DEF Ev
  <2> QED
    BY <2>2, <2>3
<1>2. SettlementInv /\ SettlementInv' /\ NoSteerIsDropped /\ [Next]_vars => NoSteerIsDropped'
  BY SteersAreKept
<1> QED
  BY <1>1, <1>2, SettlementHolds, PTL DEF Spec

=============================================================================
