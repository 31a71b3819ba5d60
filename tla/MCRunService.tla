---------------------------- MODULE MCRunService ----------------------------
EXTENDS RunService, TLC

\* Sound for the run without liveness: no property names a job or a request.
Symmetry == Permutations(Jobs) \cup Permutations(Requests)
=============================================================================
