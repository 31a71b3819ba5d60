---------------------------- MODULE CarrierSolve ----------------------------
(***************************************************************************)
(* C5 and C6, the pure part of planning (planning/solve.py and             *)
(* planning/manifest.py): given, for every shipment of a run, the          *)
(* configurations that passed the thermal gate, score every legal set of   *)
(* carriers, rank the sets that cover the run, and turn the winner into a  *)
(* manifest.                                                               *)
(*                                                                         *)
(* `options` is a function whose domain is the run's shipments.  An option *)
(* keeps what the solver reads of an EvaluatedConfiguration: cost, the     *)
(* predicted temperature (a lower one is a larger thermal margin), ship    *)
(* date, carrier, and `variant`, the position of (service, box, gel packs) *)
(* in their own order.  Dates and carriers are numbers in their sorting    *)
(* order.                                                                  *)
(*                                                                         *)
(* A definition introduced as a fault is what a plausible mistake in the   *)
(* next one would be.  No specification uses it; it is put in the place of *)
(* that definition to see that a property notices.                         *)
(***************************************************************************)
EXTENDS Integers, FiniteSets, Functions

CONSTANTS
    Carriers,          \* the carriers that may quote, numbered alphabetically
    Dates,             \* the ship dates of the run, numbered in order
    Saturdays,         \* those that are a Saturday
    SaturdayCarriers,  \* rates.SATURDAY_CARRIERS
    MaxCarriersPerRun, \* catalog.MAX_CARRIERS_PER_RUN
    None               \* Python's None: no plan covers, no date is pinned

ASSUME SolveAssumption ==
    /\ Carriers \subseteq Nat
    /\ IsFiniteSet(Carriers)
    /\ Dates \subseteq Nat
    /\ Saturdays \subseteq Dates
    /\ SaturdayCarriers \subseteq Carriers
    /\ MaxCarriersPerRun \in {1, 2}

Option == [cost : Nat, temp : Nat, date : Dates, carrier : Carriers, variant : Nat]

\* Fault: every carrier is crossed with every date.
EveryCarrierEveryDay == Option

\* C2 never crosses a Saturday with a carrier that does not ship on one.
Enumerable == {o \in Option : o.date \in Saturdays => o.carrier \in SaturdayCarriers}

-----------------------------------------------------------------------------
(* Deterministic cheapest-first choice.                                    *)

\* The members of S whose field k is the least.
Least(S, k) == {a \in S : \A b \in S : a[k] =< b[k]}

\* Fault: thermal margin decides before cost.
MarginFirst(S) ==
    Least(Least(Least(Least(Least(S, "temp"), "cost"), "date"), "carrier"), "variant")

\* solve._order: cost decides, then thermal margin, then date, carrier and
\* the rest of the configuration, which only make the choice deterministic.
InOrder(S) ==
    Least(Least(Least(Least(Least(S, "cost"), "temp"), "date"), "carrier"), "variant")

Cheapest(S) == CHOOSE o \in InOrder(S) : TRUE

-----------------------------------------------------------------------------
(* Scoring the carrier subsets.                                            *)

Infeasible(options) == {r \in DOMAIN options : options[r] = {}}

SaturdayOnly(options) ==
    {r \in DOMAIN options : /\ options[r] # {}
                            /\ \A o \in options[r] : o.date \in Saturdays}

Available(options) == UNION {{o.carrier : o \in options[r]} : r \in DOMAIN options}

\* solve.carrier_subsets
CarrierSubsets(carriers) ==
    {S \in SUBSET carriers : Cardinality(S) \in 1 .. MaxCarriersPerRun}

Under(options, r, S) == {o \in options[r] : o.carrier \in S}

Assigned(options, S) == {r \in DOMAIN options : Under(options, r, S) # {}}

Stranded(options, S) ==
    {r \in DOMAIN options : options[r] # {} /\ Under(options, r, S) = {}}

TotalCost(rows) == SumFunction([r \in DOMAIN rows |-> rows[r].cost])

CarriersUsed(rows) == {rows[r].carrier : r \in DOMAIN rows}

\* One CarrierPlan.  first and last spell the sorted tuple of at most two
\* carriers, which is the last tie-break of the ranking.
Plan(options, S) ==
    LET rows == [r \in Assigned(options, S) |-> Cheapest(Under(options, r, S))]
    IN  [carriers |-> S,
         rows     |-> rows,
         stranded |-> Stranded(options, S),
         forced   |-> SaturdayOnly(options) # {} /\ S \cap SaturdayCarriers # {},
         cost     |-> TotalCost(rows),
         size     |-> Cardinality(S),
         first    |-> CHOOSE c \in S : \A d \in S : c =< d,
         last     |-> CHOOSE c \in S : \A d \in S : d =< c]

\* A row for each of some of the shipments R, and a plan that scores them.
Rows(R) == UNION {[T -> Option] : T \in SUBSET R}

PlanOver(R) ==
    [carriers : SUBSET Carriers, rows : Rows(R), stranded : SUBSET R, forced : BOOLEAN,
     cost : Nat, size : Nat, first : Carriers, last : Carriers]

Plans(options) == {Plan(options, S) : S \in CarrierSubsets(Available(options))}

Covering(options) == {p \in Plans(options) : p.stranded = {}}

\* Faults: the number of carriers plays no part; it comes before the cost.
RankedByName(options) == Least(Least(Least(Covering(options), "cost"), "first"), "last")

RankedBySize(options) ==
    Least(Least(Least(Least(Covering(options), "size"), "cost"), "first"), "last")

\* Covering plans, cheapest first, then fewer carriers, then by name.
Ranked(options) ==
    Least(Least(Least(Least(Covering(options), "cost"), "size"), "first"), "last")

\* Solve.best
Best(options) ==
    LET ranked == Ranked(options)
    IN  IF ranked = {} THEN None ELSE CHOOSE p \in ranked : TRUE

\* Fault: every other covering subset is a runner-up.
AllOthers(options) ==
    IF Covering(options) = {} THEN {} ELSE Covering(options) \ {Best(options)}

\* Solve.runners_up: a subset that yields the winner's plan is no runner-up.
RunnersUp(options) ==
    LET best == Best(options)
    IN  IF best = None THEN {}
        ELSE {p \in Covering(options) \ {best} :
                \/ CarriersUsed(p.rows) # CarriersUsed(best.rows)
                \/ p.cost # best.cost}

-----------------------------------------------------------------------------
(* C6: the manifest, or nothing when no subset covers the run.             *)

AssembleManifest(options, suppressed) ==
    LET p == Best(options)
    IN  IF p = None THEN None
        ELSE [rows       |-> p.rows,
              carriers   |-> CarriersUsed(p.rows),
              cost       |-> p.cost,
              runnersUp  |-> {q.carriers : q \in RunnersUp(options)},
              stranded   |-> p.stranded,
              infeasible |-> Infeasible(options),
              forced     |-> p.forced,
              suppressed |-> suppressed]
=============================================================================
