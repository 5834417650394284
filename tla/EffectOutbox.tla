--------------------------- MODULE EffectOutbox ---------------------------
(***************************************************************************)
(* The effect_outbox table of an agent vessel and the SQL statements that  *)
(* change it (packages/agentic-do/src/effect-outbox.ts, with the three     *)
(* redrive statements of agent-loop-driver.ts and the lease release of     *)
(* agent-vessel.ts).  One module instance is the rows of ONE channel:      *)
(* claimReady treats the channels one by one, only its limit is shared.    *)
(*                                                                         *)
(* The module defines operators that change the table; the processes that  *)
(* call them are in EffectClaims.                                          *)
(***************************************************************************)
EXTENDS Naturals, FiniteSets

CONSTANTS
    Effects,      \* effect ids
    Workers,      \* host worker generations, ordered: 1 .. n
    Kind,         \* effect -> EffectKind
    Turn,         \* effect -> turn of an ordered invocation, or NoTurn
    NoTurn,
    Position,     \* effect -> log position of its intention (startedAtSeq)
    Parallel,     \* the invocations whose executionMode is "parallel"
    DeferredEval, \* the local_tool invocations of the eval tool
    Settle,       \* the local_tool invocations with cancellationMode "settle"
    ClaimLimit,   \* claimReady's input.limit
    AttemptCap    \* bound: the attempts counter saturates here

Kinds == {"prompt_artifacts", "model_call", "local_tool", "channel_call",
          "http_call", "credential_wait", "record_receipt"}

InvocationKinds == {"local_tool", "channel_call", "http_call"}

ASSUME OutboxAssumption ==
    /\ Workers \subseteq Nat \ {0}
    /\ Kind \in [Effects -> Kinds]
    /\ Position \in [Effects -> Nat]
    /\ \A e, f \in Effects : e # f => Position[e] # Position[f]
    /\ \A e \in Effects : Turn[e] # NoTurn => Kind[e] \in InvocationKinds
    /\ Parallel \subseteq {e \in Effects : Turn[e] # NoTurn}
    /\ DeferredEval \subseteq {e \in Effects : Kind[e] = "local_tool"}
    /\ Settle \subseteq {e \in Effects : Kind[e] = "local_tool"}
    /\ ClaimLimit \in Nat \ {0}
    /\ AttemptCap \in Nat \ {0}

VARIABLES
    row,    \* effect -> its outbox row, or NoRow
    clock   \* created_at of the last insertion: every insertion takes a new one

outboxVars == <<row, clock>>

---------------------------------------------------------------------------
(* Rows.  next abstracts next_attempt_at by how it compares with now:      *)
(* "null", "due" (<= now) or "later" (> now).                              *)

NoRow == [disposition |-> "none"]
NoOwner == 0

RowColumns ==
    [disposition : {"ready", "leased", "parked", "retrying"},
     next : {"null", "due", "later"},
     attempts : Nat,
     owner : Workers \cup {NoOwner},
     generation : Nat,
     born : Nat,
     ordered : BOOLEAN]

\* Every statement that ends a lease clears its owner, and only those do.
OutboxRow ==
    {r \in RowColumns : r.owner # NoOwner <=> r.disposition = "leased"}

Rows == {e \in Effects : row[e] # NoRow}

IsLeased(e) == row[e] # NoRow /\ row[e].disposition = "leased"

\* maxAttempts: 0 stands for Number.POSITIVE_INFINITY.
Budget(e) ==
    CASE Kind[e] = "prompt_artifacts" -> 3
      [] Kind[e] \in {"model_call", "credential_wait"} -> 0
      [] Kind[e] = "local_tool" -> IF e \in Settle THEN 1 ELSE 3
      [] Kind[e] \in {"channel_call", "http_call"} -> 5
      [] Kind[e] = "record_receipt" -> 3

\* The SQL of `insert` for a set of descriptors written together; live are
\* those whose descriptor carries the invocation order.  INSERT OR IGNORE.
InsertRows(S, ordered) ==
    /\ clock' = clock + 1
    /\ row' = [e \in Effects |->
                 IF e \in S /\ row[e] = NoRow
                 THEN [disposition |-> "ready", next |-> "null",
                       attempts |-> 0, owner |-> NoOwner, generation |-> 0,
                       born |-> clock + 1, ordered |-> e \in ordered]
                 ELSE row[e]]

DeleteRows(S) ==
    /\ row' = [e \in Effects |-> IF e \in S THEN NoRow ELSE row[e]]
    /\ UNCHANGED clock

---------------------------------------------------------------------------
(* Dispatch order.                                                         *)

Ordered(e) == row[e].ordered

\* record_receipt, and transport calls without an invocation order, wait for
\* nothing; every other row is semantic and queues in the channel's order.
Independent(e) ==
    \/ Kind[e] = "record_receipt"
    \/ Kind[e] \in {"channel_call", "http_call"} /\ ~Ordered(e)

\* Mutant: a row that waits for its retry does not hold its lane.
SemanticDue == {e \in Rows : ~Independent(e) /\ row[e].next # "later"}

Semantic == {e \in Rows : ~Independent(e)}

SameTurn(e, f) == Ordered(e) /\ Ordered(f) /\ Turn[e] = Turn[f]

\* compareDispatchOrder(e, f) < 0.
Before(e, f) ==
    IF SameTurn(e, f) \/ row[e].born = row[f].born
    THEN Position[e] < Position[f]
    ELSE row[e].born < row[f].born

\* The comparator is not transitive when an invocation is inserted after a
\* later one of its turn and a foreign row came in between.
Consistent(S) ==
    \A e, f, g \in S : Before(e, f) /\ Before(f, g) => Before(e, g)

Arrangements(S) ==
    {at \in [S -> 1 .. Cardinality(S)] :
        /\ \A e, f \in S : e # f => at[e] # at[f]
        /\ \A e, f \in S : at[f] = at[e] + 1 => Before(e, f)}

\* What `sort` may return, as the rows ahead of each row.  With an
\* inconsistent comparator ECMAScript leaves the result to the engine, whose
\* insertion sort only guarantees that neighbours are in order.
DispatchOrders(S) ==
    IF Consistent(S)
    THEN {[e \in S |-> {f \in S : Before(f, e)}]}
    ELSE {[e \in S |-> {f \in S : at[f] < at[e]}] : at \in Arrangements(S)}

\* Mutant: the prefix loop goes on where it should break at a barrier.
InWaveAcrossBarriers(ahead, e) ==
    \/ ahead[e] = {}
    \/ /\ Ordered(e) /\ e \in Parallel
       /\ \E f \in ahead[e] :
             ahead[f] = {} /\ Ordered(f) /\ f \in Parallel /\ Turn[f] = Turn[e]

\* The head of the order, or a member of the parallel prefix that starts there.
InWave(ahead, e) ==
    \/ ahead[e] = {}
    \/ \A f \in ahead[e] \cup {e} :
          Ordered(f) /\ f \in Parallel /\ Turn[f] = Turn[e]

Due(r) == r.disposition # "leased" /\ r.next # "later"

\* table is the rows after the lease release that precedes the selection.
Claimable(table, ahead) ==
    {e \in Rows : Due(table[e]) /\ (Independent(e) \/ InWave(ahead, e))}

\* selected.slice(0, limit): what the rows of the other channels leave.
Slices(S) == {P \in SUBSET S : Cardinality(P) <= ClaimLimit}

---------------------------------------------------------------------------
(* Statements on existing rows.                                            *)

\* Mutant: the replaced worker's leases are not released.
KeptBy(w, r) == r

ReleasedBy(w, r) ==
    IF r # NoRow /\ r.disposition = "leased" /\ w # NoOwner /\ r.owner = w
    THEN [r EXCEPT !.disposition = "ready", !.owner = NoOwner, !.next = "due"]
    ELSE r

\* Mutant: lease_generation is not advanced.
LeasedAgainTo(w, r) ==
    [r EXCEPT !.disposition = "leased", !.owner = w, !.next = "null"]

LeasedTo(w, r) ==
    [r EXCEPT !.disposition = "leased", !.owner = w, !.next = "null",
              !.generation = @ + 1]

IsClaim(e, generation) == IsLeased(e) /\ row[e].generation = generation

\* recordFailure; soon is a delay that has already elapsed (retryAfterMs 0).
Failed(r, soon) ==
    [r EXCEPT !.disposition = "retrying", !.owner = NoOwner,
              !.attempts = IF @ < AttemptCap THEN @ + 1 ELSE @,
              !.next = IF soon THEN "due" ELSE "later"]

\* Mutants: the backstop overwrites a wake; the lease owner is not cleared.
DeferredAnyway(r) ==
    [r EXCEPT !.disposition = "parked", !.owner = NoOwner, !.next = "later"]
DeferredOwned(r) ==
    [r EXCEPT !.disposition = "parked",
              !.next = IF @ = "due" THEN "due" ELSE "later"]

\* deferRedrive keeps a wake that was recorded while the claim was live.
Deferred(r) ==
    [r EXCEPT !.disposition = "parked", !.owner = NoOwner,
              !.next = IF @ = "due" THEN "due" ELSE "later"]

\* nudgeAuthorityRedrive.
AuthorityNudged(e) ==
    IF /\ row[e] # NoRow
       /\ Kind[e] \in {"model_call", "http_call"}
       /\ row[e].disposition \in {"parked", "leased"}
    THEN [row[e] EXCEPT !.next = "due"]
    ELSE row[e]

\* reconcileDeferredEvalRuns: nudgeRedrive for a parked row, the wake only for
\* a leased one.
EvalNudged(e) ==
    IF row[e] = NoRow \/ e \notin DeferredEval
    THEN row[e]
    ELSE CASE row[e].disposition = "parked" ->
                [row[e] EXCEPT !.disposition = "ready", !.owner = NoOwner,
                               !.next = "due"]
           [] row[e].disposition = "leased" -> [row[e] EXCEPT !.next = "due"]
           [] OTHER -> row[e]

=============================================================================
