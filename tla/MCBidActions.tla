---------------------------- MODULE MCBidActions ----------------------------
(* Small instances of BidActions for TLC.                                  *)
EXTENDS BidActions, TLC

CONSTANTS p1, q1

Target(p, q) == [product |-> p, query |-> q]

\* The product-wide bid of a campaign and one search cluster below it.
NestedScopes == {Target(p1, None), Target(p1, q1)}

Auto(enabled, hold, cap) == [enabled |-> enabled, hold |-> hold, cap |-> cap]

CapOne    == {Auto(TRUE, FALSE, 1)}
CapTwo    == {Auto(TRUE, FALSE, 2)}
AllStops  == {Auto(TRUE, FALSE, 2), Auto(TRUE, FALSE, 1), Auto(TRUE, TRUE, 2),
              Auto(FALSE, FALSE, 2)}

Symmetry == Permutations(Workers) \cup Permutations(Bids)
=============================================================================
