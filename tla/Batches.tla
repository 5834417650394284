------------------------------ MODULE Batches ------------------------------
(***************************************************************************)
(* What is kept of a batch: SelectSeq by position, written as a recursive  *)
(* function so that it can be proved about.                                *)
(***************************************************************************)
EXTENDS Naturals, Sequences

\* The elements of s at the positions I, in order.
Kept(s, I) ==
    LET kept[k \in 0 .. Len(s)] ==
            IF k = 0 THEN <<>>
            ELSE IF k \in I THEN Append(kept[k - 1], s[k]) ELSE kept[k - 1]
    IN kept[Len(s)]

=============================================================================
