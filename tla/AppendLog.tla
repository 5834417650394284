----------------------------- MODULE AppendLog -----------------------------
(***************************************************************************)
(* One log head of the workspace's append-only event log: appendLogEvent   *)
(* of workers/workspace-source/GadWorkspaceDO.ts under the intent "exact", *)
(* the one the agent loop driver uses, and the error codes of              *)
(* packages/agentic-protocol/src/append-errors.ts.                         *)
(*                                                                         *)
(* An event is a record: kind and of stand for its envelope id, the other  *)
(* fields for its semantic content.  A fold is the sequence of the events  *)
(* it has applied; its head is its last event.                             *)
(***************************************************************************)
EXTENDS Batches

VARIABLE log

SameId(ev, other) == ev.kind = other.kind /\ ev.of = other.of

Known(ev) == \E i \in DOMAIN log : SameId(log[i], ev)

SeqOf(ev) == CHOOSE i \in DOMAIN log : SameId(log[i], ev)

\* The id is taken by an event of another content.
Divergent(ev) == Known(ev) /\ log[SeqOf(ev)] # ev

\* state.lastSeq of a fold (a fold in use is never empty).
LastSeq(fold) == SeqOf(fold[Len(fold)])

\* The events of the batch that are not journalled yet.
New(items) == Kept(items, {i \in DOMAIN items : ~Known(items[i])})

\* The length of the longest prefix of the batch that is already applied.
Replayed(items) ==
    CHOOSE k \in 0 .. Len(items) :
        /\ \A i \in 1 .. k : Known(items[i])
        /\ k < Len(items) => ~Known(items[k + 1])

\* Why appendLogEvent refuses a batch written from the fold, or "none".
Refusal(items, fold) ==
    LET k == Replayed(items)
    IN
    IF \E i \in 1 .. k : Divergent(items[i]) THEN "id-collision"
    ELSE IF \E i \in k + 1 .. Len(items) : Divergent(items[i])
    THEN "replay-mismatch"
    ELSE IF k = 0 /\ items # <<>> /\ LastSeq(fold) # Len(log) THEN "head-conflict"
    ELSE IF k > 0 /\ New(items) # <<>> /\ SeqOf(items[k]) # Len(log)
    THEN "replay-mismatch"
    ELSE "none"

\* The statement: a replayed prefix is kept, the rest is appended.
Appended(items) == log \o New(items)

\* Mutant: the events the fold already has are returned again.
AllEnvelopes(items, fold) ==
    Kept(items, {i \in DOMAIN items : Known(items[i])}) \o New(items)

\* What the driver's `append` returns: the events that are new to its fold,
\* the already journalled ones first.
Envelopes(items, fold) ==
    Kept(items, {i \in DOMAIN items :
                    Known(items[i]) /\ SeqOf(items[i]) > LastSeq(fold)})
        \o New(items)

=============================================================================
