------------------------------ MODULE MCLedger ------------------------------
EXTENDS Ledger, TLC

CONSTANTS a, b, k, l

\* Two appenders with an entity each.
MCAppenders == {a, b}
MCKeys == {k, l}
MCOwner == (k :> a) @@ (l :> b)
=============================================================================
