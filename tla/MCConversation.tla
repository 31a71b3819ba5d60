--------------------------- MODULE MCConversation ---------------------------
EXTENDS Conversation, TLC

MCCarriers == {1, 2, 3}
MCSaturdayCarriers == {3}
MCDates == {1, 2}
MCSaturdays == {2}
MCShipDates == {1, 2}
MCEligible == {1, 2, 3}
MCSuppressed == <<9>>

At(carrier, date, cost) ==
    [cost |-> cost, temp |-> 0, date |-> date, carrier |-> carrier, variant |-> 0]

\* 2 and 3 need a carrier each and cannot make the Saturday; 1 can, with a
\* third carrier, so pinning it there leaves no plan until 2 or 3 is excluded.
MCInput == (1 :> {At(1, 1, 2), At(3, 2, 3)})
        @@ (2 :> {At(2, 1, 1)})
        @@ (3 :> {At(1, 1, 1)})

MCPinned == [r \in MCEligible |-> None]
=============================================================================
