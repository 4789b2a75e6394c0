-------------------------------- MODULE Places --------------------------------
(***************************************************************************)
(* Lists told by the places of their entries: the numbers of a set in      *)
(* order, and the entries of a list that stand at some of its places.      *)
(***************************************************************************)
EXTENDS Integers, Sequences, FiniteSets

\* How many numbers of a set are below x.
Rank(S, x) == Cardinality({u \in S : u < x})

\* The numbers of a finite set, ascending.
InOrder(S) == [i \in 1 .. Cardinality(S) |-> CHOOSE t \in S : Rank(S, t) = i - 1]

\* The entries of a list at some places, in their order.
Entries(s, places) ==
    LET order == InOrder(places) IN [i \in 1 .. Cardinality(places) |-> s[order[i]]]
=============================================================================
