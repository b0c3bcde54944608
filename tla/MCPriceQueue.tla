---------------------------- MODULE MCPriceQueue ----------------------------
(* Instances of PriceQueue for TLC. *)
EXTENDS PriceQueue

CONSTANTS p1, p2, s1, r1

MCRevertOf == [e \in Entries |-> IF e = r1 THEN s1 ELSE None]

Costs(c) == [known |-> TRUE, cost |-> c, percent |-> 50]

\* A margin floor of 8, and of 16 once the cost has risen; the second good has no
\* economics, and with them no floor and no strategy.
MCEconomics ==
    [p \in Products |-> IF p = p1 THEN {Costs(4), Costs(8)}
                       ELSE {[known |-> FALSE, cost |-> 0, percent |-> 0]}]

\* Costs that stay as they are.
MCSteady == [p \in Products |-> {Costs(4)}]

MCStrategy == [step |-> 10, min |-> 0, max |-> 14, uplift |-> 10, dead |-> 10,
               intensity |-> 0, competitor |-> 0, undercut |-> 2]

=============================================================================
