-------------------------------- MODULE Choosing -------------------------------
(***************************************************************************)
(* What a loop makes of a list that keeps some of its entries, and of a set   *)
(* that is taken in order.                                                  *)
(***************************************************************************)
EXTENDS Integers, Sequences, FiniteSets

\* The number of the places up to k.
Rank(places, k) == Cardinality({i \in places : i <= k})

\* The entries at some places, in order.
EntriesAt(list, places) ==
    [n \in 1..Cardinality(places) |-> list[CHOOSE k \in places : Rank(places, k) = n]]
=============================================================================
