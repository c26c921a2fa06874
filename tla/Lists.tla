-------------------------------- MODULE Lists --------------------------------
(****************************************************************************)
(* Ranked lists: their order, their beginning, and what of them is left.    *)
(****************************************************************************)
EXTENDS Naturals, Sequences, SequencesExt, FiniteSets

\* None twice.
Distinct(list) == \A i, j \in DOMAIN list : i < j => list[i] # list[j]

First(n, list) == SubSeq(list, 1, IF n < Len(list) THEN n ELSE Len(list))

\* The members of a set in an order, given by its pairs.
Ordered(set, before) ==
    [n \in 1..Cardinality(set) |->
        CHOOSE a \in set : Cardinality({b \in set : <<b, a>> \in before}) = n - 1]

\* Numbers from the least to the greatest.
Ascending(numbers) == Ordered(numbers, {pair \in numbers \X numbers : pair[1] < pair[2]})

\* What a list has at some of its places.
At(list, places) ==
    LET order == Ascending(places) IN [n \in DOMAIN order |-> list[order[n]]]

\* What of a list is in a set.
Only(list, set) == At(list, {i \in DOMAIN list : list[i] \in set})
=============================================================================
