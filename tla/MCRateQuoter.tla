---------------------------- MODULE MCRateQuoter ----------------------------
EXTENDS RateQuoter, TLC

CONSTANTS ups, usps, heavy, light

MCCarriers == {ups, usps}
MCParcels == {heavy, light}

Says(u, v, busy) == [services |-> (ups :> u) @@ (usps :> v), busy |-> busy]

\* Nobody, either or both; with one service or two; rate limited or in full;
\* and both quote while one is limited on another account.
MCAnswers == {
    Says(0, 0, {ups, usps}), Says(0, 0, {}),
    Says(0, 1, {ups}), Says(0, 1, {}),
    Says(1, 0, {usps}), Says(2, 0, {usps}),
    Says(1, 1, {}), Says(1, 1, {ups})}
=============================================================================
