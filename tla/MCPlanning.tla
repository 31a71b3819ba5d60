----------------------------- MODULE MCPlanning -----------------------------
EXTENDS Planning, TLC

CONSTANTS ann, bob, cid, sat, mon, elm, elmTypo, elmPlus4, oak

MCKeys == {ann, bob, cid}
MCDates == {sat, mon}
MCAddresses == {elm, elmTypo, elmPlus4, oak}

\* Two ways to write one doorstep, one of them with another material field, and
\* the form the validator returns; and an address it does not know.
MCDoor == (elm :> 1) @@ (elmPlus4 :> 1) @@ (elmTypo :> 2) @@ (oak :> 3)
MCValid == {elm, elmTypo, elmPlus4}
MCCorrected == [a \in MCAddresses |-> IF a = oak THEN oak ELSE elmPlus4]

People(keys, addresses, pins) ==
    {<<[key |-> keys[1], address |-> a1, pin |-> p1],
       [key |-> keys[2], address |-> a2, pin |-> p2],
       [key |-> keys[3], address |-> a3, pin |-> p3]>> :
         a1, a2, a3 \in addresses, p1, p2, p3 \in pins}

\* Three on a roster, each with any pin; three from screenshots, two of them of
\* one name, and perhaps one who gave no address, a fourth or one of the three.
MCInputs ==
    {[people |-> p, unresolved |-> <<>>] :
        p \in People(<<ann, bob, cid>>, MCAddresses \ {elm}, MCDates \cup {None})}
    \cup {[people |-> p, unresolved |-> u] :
        p \in People(<<ann, bob, ann>>, MCAddresses, {None})
              \cup People(<<ann, ann, bob>>, MCAddresses, {None}),
        u \in {<<>>, <<bob>>, <<cid>>}}
=============================================================================
