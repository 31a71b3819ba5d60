---------------------------- MODULE MCSolveEdits ----------------------------
EXTENDS SolveEdits, TLC

\* FedEx, UPS and USPS; the second date is a Saturday, which only USPS crosses.
MCCarriers == {1, 2, 3}
MCSaturdayCarriers == {3}
MCDates == {1, 2}
MCSaturdays == {2}

Symmetry == Permutations(Shipments)

At(carrier, date, cost, temp) ==
    [cost |-> cost, temp |-> temp, date |-> date, carrier |-> carrier, variant |-> carrier]

\* Ties on cost with and without a tie on temperature; every carrier on a
\* weekday; of the carriers that would go on the Saturday, those C2 lets.
Pool ==
    {At(1, 1, 1, 1), At(1, 1, 2, 0), At(2, 1, 1, 0), At(2, 1, 3, 1),
     At(3, 1, 2, 1), At(3, 2, 1, 1), At(3, 2, 2, 0), At(2, 2, 1, 1)} \cap Enumerable

MCOptionSets == {S \in SUBSET Pool : Cardinality(S) =< 2}
=============================================================================
