----------------------------- MODULE Selections -----------------------------
(***************************************************************************)
(* Sequences made from others: the elements that pass a test, a set in     *)
(* order.  Written with FlattenSeq and recursive functions because the     *)
(* prover takes SelectSeq and SortSeq as primitives it knows nothing of.   *)
(***************************************************************************)
EXTENDS Integers, Sequences, FiniteSets, FiniteSetsExt, SequencesExt

\* The elements of s that pass the test, in their order.
Only(s, Test(_)) == FlattenSeq([i \in DOMAIN s |-> IF Test(s[i]) THEN <<s[i]>> ELSE <<>>])

\* The members of a finite set of numbers, the least first.
InOrder(S) ==
  LET first[n \in 0..Cardinality(S)] ==
        IF n = 0 THEN <<>> ELSE Append(first[n - 1], Min(S \ ToSet(first[n - 1])))
  IN  first[Cardinality(S)]
=============================================================================
