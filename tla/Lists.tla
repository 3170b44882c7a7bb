--------------------------------- MODULE Lists ---------------------------------
(***************************************************************************)
(* What is left of a list when entries are taken out of it, as the recency *)
(* lists of the limiter and the reports in memory are: the entries at some *)
(* positions, each at its rank among them.                                 *)
(***************************************************************************)
EXTENDS Naturals, Sequences, FiniteSets

Rank(kept, i) == Cardinality({j \in kept : j <= i})

Keep(s, kept) == [n \in 1..Cardinality(kept) |-> s[CHOOSE i \in kept : Rank(kept, i) = n]]
=============================================================================
