-------------------------- MODULE MCReviewSession --------------------------
EXTENDS ReviewSession, TLC

MCCarriers == {1, 2, 3}
MCSaturdayCarriers == {3}
MCDates == {1, 2}
MCSaturdays == {2}
MCShipDates == {1, 2}
MCEligible == {1, 2, 3, 4, 5}
MCSuppressed == <<9>>

At(carrier, date, cost) ==
    [cost |-> cost, temp |-> 0, date |-> date, carrier |-> carrier, variant |-> 0]

\* 3 and 4 need a carrier each, so the run uses FedEx and UPS; with 1 or 2
\* moved to the Saturday it needs USPS too and nothing covers it until 3 or 4
\* is excluded.  3 and 4 cannot make the Saturday.  The roster pins 5 to one,
\* which it cannot make, so it is in no plan until it is pinned to the other date.
MCInput == (1 :> {At(1, 1, 2), At(3, 2, 3)})
        @@ (2 :> {At(1, 1, 3), At(2, 1, 1), At(3, 2, 4)})
        @@ (3 :> {At(2, 1, 1)})
        @@ (4 :> {At(1, 1, 1)})
        @@ (5 :> {At(1, 1, 2)})

MCPinned == [r \in MCEligible |-> IF r = 5 THEN 2 ELSE None]
=============================================================================
