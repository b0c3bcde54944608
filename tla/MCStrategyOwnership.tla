------------------------ MODULE MCStrategyOwnership ------------------------
(* Small instances of StrategyOwnership for TLC.                            *)
EXTENDS StrategyOwnership, TLC

CONSTANTS s1, s2, k1, k2, m1, m2

\* Both strategies and campaign k1 in one cabinet, campaign k2 in another.
MCCabinetOf == [x \in {s1, s2, k1} |-> m1] @@ [x \in {k2} |-> m2]

\* Clients, binding ids and products are interchangeable.
Symmetry == Permutations(Clients) \cup Permutations(BindingIds) \cup Permutations(Products)
=============================================================================
