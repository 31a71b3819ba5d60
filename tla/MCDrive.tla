------------------------------- MODULE MCDrive -------------------------------
EXTENDS Drive

CONSTANTS d1, d2

MCDriverJobs == <<d1, d2>>

\* Runs of both depths in turn, each waited for; and the same without images,
\* not waited for, which breaks off at the second run.
MCSessions ==
    {[depth |-> "mixed", images |-> b, wait |-> b] : b \in BOOLEAN}
=============================================================================
