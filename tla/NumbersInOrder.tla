--------------------------- MODULE NumbersInOrder ---------------------------
(***************************************************************************)
(* Finite sets of numbers as what a database makes of them: sequences in   *)
(* ascending order.                                                        *)
(***************************************************************************)
EXTENDS Naturals, FiniteSets

\* The place of k among the numbers of a set, the first is 1.
Place(set, k) == Cardinality({j \in set : j <= k})

\* ORDER BY.
Sorted(set) ==
    [i \in 1..Cardinality(set) |-> CHOOSE k \in set : Place(set, k) = i]
=============================================================================
