------------------------------ MODULE TupleOrder ------------------------------
(* Python's order of tuples of numbers, which the code's sort keys rely on. *)
EXTENDS Integers, Sequences

\* The first component that differs decides; tuples of one length.
Precedes(a, b) == \E i \in DOMAIN a : a[i] < b[i] /\ \A j \in 1 .. i - 1 : a[j] = b[j]

\* min(S, key=Key) where no two keys are equal.
LeastBy(S, Key(_)) == CHOOSE x \in S : \A y \in S \ {x} : Precedes(Key(x), Key(y))
=============================================================================
