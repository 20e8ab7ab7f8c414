------------------------------ MODULE Selection ------------------------------
(***************************************************************************)
(* What a query with a condition and an order returns.                     *)
(***************************************************************************)
EXTENDS Sequences, SequencesExt

\* The elements of s that are in T, in their order.
Selected(s, T) == FoldLeft(LAMBDA kept, x : IF x \in T THEN Append(kept, x) ELSE kept, <<>>, s)
==============================================================================
