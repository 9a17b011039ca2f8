----------------------------- MODULE SequenceParts -----------------------------
(* The slices and filters of Python lists that the windows of messages are cut by. *)
EXTENDS Naturals, Sequences, FiniteSets

\* s[-n:]
Newest(s, n) == IF Len(s) <= n THEN s ELSE SubSeq(s, Len(s) - n + 1, Len(s))

\* [s[i] for i in range(len(s)) if i in I]: the members of s at the positions I, in
\* their order; the k-th of them is the one with k positions of I up to it.
At(s, I) == [k \in 1..Cardinality(I) |-> s[CHOOSE i \in I : Cardinality({j \in I : j <= i}) = k]]
=============================================================================
