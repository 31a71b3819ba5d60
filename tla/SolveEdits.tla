----------------------------- MODULE SolveEdits -----------------------------
(***************************************************************************)
(* Re-solving under the two edits a review makes (review.py _apply): one   *)
(* shipment leaves the run, or is enumerated against one ship date alone.  *)
(* The state is the feasible options of each shipment, which is all that   *)
(* solve_carriers keeps of C1 to C3; every state is solved afresh.         *)
(***************************************************************************)
EXTENDS CarrierSolve

CONSTANTS
    Shipments,  \* the shipments a run starts from
    OptionSets  \* what the thermal gate may leave of one shipment's options

ASSUME EditsAssumption ==
    /\ IsFiniteSet(Shipments)
    /\ OptionSets \subseteq SUBSET Enumerable
    /\ None \notin PlanOver(Shipments)

VARIABLE options

Init == options \in [Shipments -> OptionSets]

Exclude(r) == options' = Restrict(options, DOMAIN options \ {r})

\* The first pin of a shipment; the thermal gate refuses one that leaves it
\* nothing.
Pin(r, d) ==
    /\ \E o \in options[r] : o.date = d
    /\ options' = [options EXCEPT ![r] = {o \in @ : o.date = d}]

Next == \E r \in DOMAIN options : Exclude(r) \/ \E d \in Dates : Pin(r, d)

Spec == Init /\ [][Next]_options
-----------------------------------------------------------------------------
(* The reference: every way to give each feasible shipment one of its own  *)
(* options while the run uses at most MaxCarriersPerRun carriers.          *)

Feasible == DOMAIN options \ Infeasible(options)

Choices ==
    {f \in [Feasible -> UNION {options[r] : r \in Feasible}] :
        /\ \A r \in Feasible : f[r] \in options[r]
        /\ Cardinality(CarriersUsed(f)) =< MaxCarriersPerRun}

\* The solver scores carrier subsets and lets each shipment choose greedily.
\* That never misses a plan and is never dearer than choosing for the whole
\* run at once: it has a plan exactly when some choice exists, and no choice
\* costs less (solve_carriers).
BestIsOptimal ==
    /\ Best(options) = None <=> (Feasible = {} \/ Choices = {})
    /\ Best(options) # None =>
         /\ Best(options).rows \in Choices
         /\ \A f \in Choices : Best(options).cost =< TotalCost(f)

\* The winning subset never holds a carrier that is given no packet: the subset
\* without it has the same plan and ranks before it (solve_carriers' ranking
\* key).  The docstring of carriers_used says that a subset can win while
\* using fewer carriers than it contains, which is so of no winner.
BestUsesAllItsCarriers ==
    Best(options) # None => Best(options).carriers = CarriersUsed(Best(options).rows)

\* A shipment that can only leave on a Saturday is the reason the winning
\* subset holds a Saturday carrier, and the manifest says so: the flag
\* computed from the carriers agrees with the rows (C2's Saturday rule and
\* forced_by_saturday).
SaturdayShipmentForcesTheFlag ==
    LET m == AssembleManifest(options, {})
    IN  m # None =>
          (m.forced <=> \E r \in DOMAIN m.rows :
                           /\ r \in SaturdayOnly(options)
                           /\ m.rows[r].date \in Saturdays)

\* What a manifest lists beside the plan is a real alternative: a runner-up
\* is no cheaper, and differs from the plan in some shipment's row or in
\* the carriers it asks for (Solve.runners_up).
RunnersUpAreAlternatives ==
    \A p \in RunnersUp(options) :
        p.cost >= Best(options).cost /\ p.rows # Best(options).rows

\* An edit takes choices away, so a re-solve after one more pin never gets
\* cheaper and never finds a plan where there was none, and an exclusion never
\* makes the run dearer or unplannable while someone is left to ship.
EditsMoveCostOneWay ==
    [][LET before == Best(options)
           after  == Best(options')
       IN  IF DOMAIN options' = DOMAIN options
           THEN after # None => before # None /\ before.cost =< after.cost
           ELSE before # None /\ DOMAIN options' # Infeasible(options')
                => after # None /\ after.cost =< before.cost]_options
=============================================================================
