--------------------------------- MODULE Samples ---------------------------------
(***************************************************************************)
(* What is made of a sequence of samples.                                  *)
(***************************************************************************)
EXTENDS Integers, Sequences, FiniteSets, SequencesExt

\* Their sum, and their product.
Summed(values) == FoldLeft(+, 0, values)
Product(values) == FoldLeft( *, 1, values)

\* The values in ascending order: the k-th is greater than fewer than k of them,
\* and at least as great as k.
Ascending(values) ==
    [k \in DOMAIN values |-> CHOOSE v \in ToSet(values) :
        /\ Cardinality({i \in DOMAIN values : values[i] < v}) < k
        /\ Cardinality({i \in DOMAIN values : values[i] <= v}) >= k]
================================================================================
