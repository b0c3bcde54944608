------------------------- MODULE MCRecommendations -------------------------
(* A small instance of Recommendations for TLC.                            *)
EXTENDS Recommendations, TLC

CONSTANTS u1, u2, g1

Symmetry == Permutations(Users)
=============================================================================
