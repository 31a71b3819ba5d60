--------------------------- MODULE SolveEditsProofs ---------------------------
(***************************************************************************)
(* The solver is right for any number of shipments, carriers within the    *)
(* cap, dates, costs and edits: every property of SolveEdits is a theorem. *)
(* They all rest on two facts of CarrierSolveProofs: the best plan is a    *)
(* covering one that no covering plan undercuts (BestIs), and the plan of  *)
(* the carriers a choice uses costs no more than the choice (ChoiceBeaten).*)
(***************************************************************************)
EXTENDS SolveEdits, CarrierSolveProofs

\* A run's options are ones C2 may enumerate, of shipments it started from.
IInv == DOMAIN options \subseteq Shipments /\ options \in [DOMAIN options -> SUBSET Enumerable]

Possible(opts) == DOMAIN opts \ Infeasible(opts)

\* The solver's input: finitely many shipments, and None is none of its plans.
Solvable(opts) == Run(opts) /\ None \notin PlanOver(DOMAIN opts)
-----------------------------------------------------------------------------
(* An edit leaves the options typed.                                       *)

\* What the two edits do to the options.
LEMMA PinEffect ==
  ASSUME IInv, NEW r \in DOMAIN options, NEW d, Pin(r, d)
  PROVE  /\ DOMAIN options' = DOMAIN options
         /\ \A s \in DOMAIN options : options'[s] \in SUBSET options[s]
         /\ options' \in [DOMAIN options -> SUBSET Enumerable]
         /\ options'[r] # {} /\ \A s \in DOMAIN options : s # r => options'[s] = options[s]
<1>1. options \in [DOMAIN options -> SUBSET Enumerable]
  BY DEF IInv
<1>2. options' = [options EXCEPT ![r] = {o \in options[r] : o.date = d}]
  BY DEF Pin
<1>3. \E o \in options[r] : o.date = d
  BY DEF Pin
<1> QED BY <1>1, <1>2, <1>3

LEMMA ExcludeEffect ==
  ASSUME IInv, NEW r \in DOMAIN options, Exclude(r)
  PROVE  /\ DOMAIN options' = DOMAIN options \ {r}
         /\ \A s \in DOMAIN options \ {r} : options'[s] = options[s]
         /\ options' \in [DOMAIN options \ {r} -> SUBSET Enumerable]
<1>1. options \in [DOMAIN options -> SUBSET Enumerable]
  BY DEF IInv
<1>2. options' = [s \in DOMAIN options \ {r} |-> options[s]]
  BY DEF Exclude, Restrict
<1> QED BY <1>1, <1>2

\* The solver's input stays what it can be given.
THEOREM Typing == Spec => []IInv
<1>1. Init => IInv
  BY EditsAssumption DEF Init, IInv
<1>2. IInv /\ [Next]_options => IInv'
  <2> SUFFICES ASSUME IInv, [Next]_options PROVE IInv'
    OBVIOUS
  <2>1. ASSUME NEW r \in DOMAIN options, Exclude(r) PROVE IInv'
    BY <2>1, ExcludeEffect DEF IInv
  <2>2. ASSUME NEW r \in DOMAIN options, NEW d \in Dates, Pin(r, d) PROVE IInv'
    BY <2>2, PinEffect DEF IInv
  <2>3. CASE UNCHANGED options
    BY <2>3 DEF IInv
  <2> QED BY <2>1, <2>2, <2>3 DEF Next
<1> QED BY <1>1, <1>2, PTL DEF Spec

LEMMA TypedSolvable ==
  ASSUME NEW opts, DOMAIN opts \subseteq Shipments, opts \in [DOMAIN opts -> SUBSET Enumerable]
  PROVE  Solvable(opts)
<1>1. DOMAIN opts \in SUBSET Shipments /\ IsFiniteSet(DOMAIN opts)
  BY EditsAssumption, FS_Subset
<1>2. opts \in [DOMAIN opts -> SUBSET Option]
  BY DEF Enumerable
<1>3. None \notin PlanOver(DOMAIN opts)
  BY <1>1, EditsAssumption, PlanOverMonotonic
<1> QED BY <1>1, <1>2, <1>3 DEF Solvable, Run

LEMMA InvSolvable == IInv => Solvable(options)
BY TypedSolvable DEF IInv
-----------------------------------------------------------------------------
(* One solve.                                                              *)

\* The best plan is the cheapest choice: if there is a choice there is a
\* plan, whose rows are a choice, and none costs less.
THEOREM SolverIsOptimal == Spec => []BestIsOptimal
<1>1. IInv => BestIsOptimal
  <2> SUFFICES ASSUME IInv PROVE BestIsOptimal
    OBVIOUS
  <2> DEFINE best == Best(options)
  <2>1. Run(options) /\ None \notin PlanOver(DOMAIN options)
    BY InvSolvable DEF Solvable
  <2>2. /\ best = None <=> Covering(options) = {}
        /\ best # None => /\ best \in Covering(options)
                          /\ \A q \in Covering(options) : best.cost =< q.cost
    BY <2>1, BestIs
  <2> HIDE DEF best
  <2>3. ASSUME best # None PROVE Feasible # {} /\ best.rows \in Choices /\ best.cost \in Nat
    <3>1. best \in Covering(options)
      BY <2>2, <2>3
    <3>2. /\ Feasible # {} /\ best.rows \in [Feasible -> Option] /\ best.cost \in Nat
          /\ \A r \in Feasible : best.rows[r] \in options[r]
          /\ Cardinality(CarriersUsed(best.rows)) =< MaxCarriersPerRun
      BY <2>1, <3>1, CoveringFacts DEF Feasible
    <3>3. best.rows \in [Feasible -> UNION {options[r] : r \in Feasible}]
      BY <3>2
    <3> QED BY <3>2, <3>3 DEF Choices
  <2>4. ASSUME NEW f \in Choices, Feasible # {}
        PROVE  \E p \in Covering(options) : p.cost =< TotalCost(f)
    <3>1. /\ f \in [Feasible -> UNION {options[r] : r \in Feasible}]
          /\ \A r \in Feasible : f[r] \in options[r]
          /\ Cardinality(CarriersUsed(f)) =< MaxCarriersPerRun
      BY DEF Choices
    <3>2. f \in [Feasible -> Option]
      BY <2>1, <3>1 DEF Feasible, Run
    <3> QED BY <2>1, <2>4, <3>1, <3>2, ChoiceBeaten DEF Feasible
  <2>5. ASSUME best # None, NEW f \in Choices PROVE best.cost =< TotalCost(f)
    <3>1. PICK p \in Covering(options) : p.cost =< TotalCost(f)
      BY <2>3, <2>4, <2>5
    <3>2. best.cost =< p.cost /\ p.cost \in Nat /\ best.cost \in Nat
      BY <2>1, <2>2, <2>3, <2>5, CoveringFacts
    <3>3. TotalCost(f) \in Nat
      <4>1. f \in [Feasible -> UNION {options[r] : r \in Feasible}]
        BY DEF Choices
      <4>2. f \in [Feasible -> Option] /\ IsFiniteSet(Feasible)
        BY <2>1, <4>1, FS_Subset DEF Feasible, Run
      <4> QED BY <4>2, TotalCostType
    <3> QED BY <3>1, <3>2, <3>3
  <2>6. best = None <=> (Feasible = {} \/ Choices = {})
    BY <2>2, <2>3, <2>4
  <2> QED BY <2>3, <2>5, <2>6 DEF BestIsOptimal, best
<1> QED BY <1>1, Typing, PTL

\* A carrier without a packet would make the subset larger than the one of
\* the carriers that have one, which costs no more and ranks before it.
THEOREM NoIdleCarrier == Spec => []BestUsesAllItsCarriers
<1>1. IInv => BestUsesAllItsCarriers
  <2> SUFFICES ASSUME IInv, Best(options) # None
               PROVE  Best(options).carriers = CarriersUsed(Best(options).rows)
    BY DEF BestUsesAllItsCarriers
  <2> DEFINE best == Best(options)
             U == CarriersUsed(best.rows)
  <2>1. Run(options) /\ None \notin PlanOver(DOMAIN options)
    BY InvSolvable DEF Solvable
  <2>2. /\ best \in Covering(options)
        /\ \A q \in Covering(options) :
             best.cost =< q.cost /\ (best.cost = q.cost => best.size =< q.size)
    BY <2>1, BestIs
  <2>3. /\ best.rows \in [Possible(options) -> Option] /\ Possible(options) # {}
        /\ \A r \in Possible(options) : best.rows[r] \in options[r]
        /\ U \in SUBSET best.carriers /\ Cardinality(U) =< MaxCarriersPerRun
        /\ best.cost = TotalCost(best.rows) /\ best.cost \in Nat
        /\ best.carriers \in CarrierSubsets(Available(options))
        /\ best = Plan(options, best.carriers)
    <3> HIDE DEF best
    <3> QED BY <2>1, <2>2, CoveringFacts DEF Possible
  <2> HIDE DEF best
  <2>4. PICK q \in Covering(options) : q.cost =< best.cost /\ q.carriers = U
    BY <2>1, <2>3, ChoiceBeaten DEF Possible
  <2>5. /\ q.carriers \in CarrierSubsets(Available(options))
        /\ q = Plan(options, q.carriers) /\ q.cost \in Nat
    BY <2>1, CoveringFacts
  <2>6. q.size = Cardinality(U) /\ best.size = Cardinality(best.carriers)
    BY <2>1, <2>3, <2>4, <2>5, PlanFacts
  <2>7. Cardinality(best.carriers) =< Cardinality(U)
    BY <2>2, <2>3, <2>4, <2>5, <2>6
  <2>8. IsFiniteSet(best.carriers)
    BY <2>1, <2>3, SubsetFacts
  <2>9. Cardinality(U) \in Nat /\ Cardinality(best.carriers) \in Nat
        /\ (Cardinality(U) = Cardinality(best.carriers) => U = best.carriers)
        /\ Cardinality(U) =< Cardinality(best.carriers)
    <3> DEFINE S == best.carriers
    <3>1. U \in SUBSET S /\ IsFiniteSet(S)
      BY <2>3, <2>8
    <3> HIDE DEF S, U
    <3>2. IsFiniteSet(U) /\ Cardinality(U) =< Cardinality(S)
          /\ (Cardinality(U) = Cardinality(S) => U = S)
      BY <3>1, FS_Subset
    <3> QED BY <3>1, <3>2, FS_CardinalityType DEF S
  <2>10. U = best.carriers
    BY <2>7, <2>9
  <2> QED BY <2>10 DEF best
<1> QED BY <1>1, Typing, PTL

\* The flag computed from the carriers says what the rows say: the shipment
\* that forces a Saturday has a Saturday row, whose carrier ships on one.
THEOREM SaturdayFlagIsTrue == Spec => []SaturdayShipmentForcesTheFlag
<1>1. IInv => SaturdayShipmentForcesTheFlag
  <2> DEFINE best == Best(options)
             m == AssembleManifest(options, {})
             Saturday(rows) == \E r \in DOMAIN rows :
                                 r \in SaturdayOnly(options) /\ rows[r].date \in Saturdays
  <2> SUFFICES ASSUME IInv, m # None PROVE m.forced <=> Saturday(m.rows)
    BY DEF SaturdayShipmentForcesTheFlag
  <2>1. best # None /\ m.forced = best.forced /\ m.rows = best.rows
    BY DEF AssembleManifest
  <2>2. Run(options) /\ None \notin PlanOver(DOMAIN options)
    BY InvSolvable DEF Solvable
  <2>3. best \in Covering(options)
    BY <2>1, <2>2, BestIs
  <2> HIDE DEF best
  <2> DEFINE S == best.carriers
  <2>4. /\ best.rows \in [Possible(options) -> Option]
        /\ \A r \in Possible(options) :
             best.rows[r] \in options[r] /\ best.rows[r].carrier \in S
        /\ S \in CarrierSubsets(Available(options)) /\ best = Plan(options, S)
    BY <2>2, <2>3, CoveringFacts DEF Possible
  <2>5. best.forced <=> SaturdayOnly(options) # {} /\ S \cap SaturdayCarriers # {}
    <3> HIDE DEF S
    <3> QED BY <2>2, <2>4, PlanFacts
  <2>6. ASSUME NEW r \in SaturdayOnly(options)
        PROVE  /\ r \in Possible(options) /\ best.rows[r].date \in Saturdays
               /\ best.rows[r].carrier \in SaturdayCarriers
    <3>1. r \in Possible(options) /\ best.rows[r].date \in Saturdays
      BY <2>4, <2>6 DEF SaturdayOnly, Possible, Infeasible
    <3>2. best.rows[r] \in Enumerable
      BY <2>4, <3>1 DEF IInv, Possible
    <3> QED BY <3>1, <3>2 DEF Enumerable
  <2>7. best.forced <=> Saturday(best.rows)
    BY <2>4, <2>5, <2>6
  <2> QED BY <2>1, <2>7
<1> QED BY <1>1, Typing, PTL

\* A runner-up covers, costs no less, and is another plan.
THEOREM RunnersUpDiffer == Spec => []RunnersUpAreAlternatives
<1>1. IInv => RunnersUpAreAlternatives
  <2> SUFFICES ASSUME IInv, NEW p \in RunnersUp(options)
               PROVE  p.cost >= Best(options).cost /\ p.rows # Best(options).rows
    BY DEF RunnersUpAreAlternatives
  <2> DEFINE best == Best(options)
  <2>1. Run(options) /\ None \notin PlanOver(DOMAIN options)
    BY InvSolvable DEF Solvable
  <2>2. /\ best # None /\ p \in Covering(options)
        /\ CarriersUsed(p.rows) # CarriersUsed(best.rows) \/ p.cost # best.cost
    BY DEF RunnersUp
  <2>3. best \in Covering(options) /\ best.cost =< p.cost
    BY <2>1, <2>2, BestIs
  <2> HIDE DEF best
  <2>4. best.cost = TotalCost(best.rows) /\ p.cost = TotalCost(p.rows)
        /\ best.cost \in Nat /\ p.cost \in Nat
    BY <2>1, <2>2, <2>3, CoveringFacts
  <2>5. p.rows # best.rows
    BY <2>2, <2>4
  <2> QED BY <2>3, <2>4, <2>5 DEF best
<1> QED BY <1>1, Typing, PTL
-----------------------------------------------------------------------------
(* One edit.                                                               *)

\* A choice under opts, with its carriers few enough, is no cheaper than the
\* best plan, and there is one.
LEMMA BestBeats ==
  ASSUME NEW opts, Solvable(opts), Possible(opts) # {},
         NEW f \in [Possible(opts) -> Option], \A r \in Possible(opts) : f[r] \in opts[r],
         Cardinality(CarriersUsed(f)) =< MaxCarriersPerRun
  PROVE  Best(opts) # None /\ Best(opts).cost =< TotalCost(f)
<1>1. PICK p \in Covering(opts) : p.cost =< TotalCost(f)
  BY ChoiceBeaten DEF Possible, Solvable
<1> DEFINE best == Best(opts)
<1>2. best # None /\ best \in Covering(opts) /\ best.cost =< p.cost
  BY <1>1, BestIs DEF Solvable
<1> HIDE DEF best
<1>3. best.cost \in Nat /\ p.cost \in Nat
  BY <1>1, <1>2, CoveringFacts DEF Solvable
<1>4. TotalCost(f) \in Nat
  <2>1. IsFiniteSet(Possible(opts))
    BY FS_Subset DEF Solvable, Run, Possible
  <2> QED BY <2>1, TotalCostType
<1> QED BY <1>1, <1>2, <1>3, <1>4 DEF best

\* The best plan's rows are a choice.
LEMMA BestRows ==
  ASSUME NEW opts, Solvable(opts), Best(opts) # None
  PROVE  /\ Possible(opts) # {} /\ Best(opts).rows \in [Possible(opts) -> Option]
         /\ \A r \in Possible(opts) : Best(opts).rows[r] \in opts[r]
         /\ CarriersUsed(Best(opts).rows) \in SUBSET Best(opts).carriers
         /\ Best(opts).carriers \in SUBSET Carriers
         /\ Cardinality(CarriersUsed(Best(opts).rows)) =< MaxCarriersPerRun
         /\ Best(opts).cost = TotalCost(Best(opts).rows)
<1> DEFINE best == Best(opts)
<1>1. best \in Covering(opts)
  BY BestIs DEF Solvable
<1> HIDE DEF best
<1>2. /\ Possible(opts) # {} /\ best.rows \in [Possible(opts) -> Option]
      /\ \A r \in Possible(opts) : best.rows[r] \in opts[r]
      /\ CarriersUsed(best.rows) \in SUBSET best.carriers
      /\ best \in PlanOver(DOMAIN opts)
      /\ Cardinality(CarriersUsed(best.rows)) =< MaxCarriersPerRun
      /\ best.cost = TotalCost(best.rows)
  BY <1>1, CoveringFacts DEF Possible, Solvable
<1> QED BY <1>2 DEF best, PlanOver

\* The rows of the plan after a pin were a choice before it.
LEMMA PinCost ==
  ASSUME NEW opts, Solvable(opts), NEW after, Solvable(after),
         DOMAIN after = DOMAIN opts, Possible(after) = Possible(opts),
         \A r \in DOMAIN opts : after[r] \in SUBSET opts[r], Best(after) # None
  PROVE  Best(opts) # None /\ Best(opts).cost =< Best(after).cost
<1> DEFINE f == Best(after).rows
<1>1. /\ Possible(opts) # {} /\ f \in [Possible(opts) -> Option]
      /\ \A r \in Possible(opts) : f[r] \in opts[r]
      /\ Cardinality(CarriersUsed(f)) =< MaxCarriersPerRun
      /\ Best(after).cost = TotalCost(f)
  BY BestRows DEF Possible
<1> HIDE DEF f
<1> QED BY <1>1, BestBeats

\* The rows of the plan before an exclusion, without the excluded one's, are
\* a choice after it.
LEMMA ExcludeCost ==
  ASSUME NEW opts, Solvable(opts), NEW r \in DOMAIN opts, NEW after, Solvable(after),
         DOMAIN after = DOMAIN opts \ {r}, \A s \in DOMAIN after : after[s] = opts[s],
         Best(opts) # None, Possible(after) # {}
  PROVE  Best(after) # None /\ Best(after).cost =< Best(opts).cost
<1> DEFINE rows == Best(opts).rows
           F == Possible(opts)
           G == Possible(after)
           f == [s \in G |-> rows[s]]
           U == CarriersUsed(rows)
           V == CarriersUsed(f)
<1>1. /\ rows \in [F -> Option] /\ \A s \in F : rows[s] \in opts[s]
      /\ U \in SUBSET Carriers /\ Cardinality(U) =< MaxCarriersPerRun
      /\ Best(opts).cost = TotalCost(rows)
  BY BestRows
<1> HIDE DEF rows
<1>2. G = F \ {r}
  BY DEF Possible, Infeasible
<1>3. /\ f \in [G -> Option] /\ \A s \in G : f[s] \in after[s]
  BY <1>1, <1>2 DEF Possible
<1>4. Cardinality(V) =< MaxCarriersPerRun
  <2>1. V \in SUBSET U
    BY <1>1, <1>2 DEF CarriersUsed
  <2>2. IsFiniteSet(U)
    BY <1>1, SolveAssumption, FS_Subset
  <2> HIDE DEF U, V
  <2>3. Cardinality(V) =< Cardinality(U) /\ IsFiniteSet(V)
    BY <2>1, <2>2, FS_Subset
  <2>4. Cardinality(V) \in Nat /\ Cardinality(U) \in Nat
    BY <2>2, <2>3, FS_CardinalityType
  <2> QED BY <1>1, <2>3, <2>4, SolveAssumption DEF U
<1>5. Best(after) # None /\ Best(after).cost =< TotalCost(f)
  <2> HIDE DEF f
  <2> QED BY <1>3, <1>4, BestBeats
<1>6. IsFiniteSet(F)
  BY FS_Subset DEF Solvable, Run, Possible
<1>7. TotalCost(f) =< TotalCost(rows)
  <2>1. \A s \in G : f[s].cost =< rows[s].cost
    BY <1>1, <1>2 DEF Option
  <2>2. CASE r \in F
    <3> HIDE DEF f, F
    <3> QED BY <1>1, <1>2, <1>3, <1>6, <2>1, <2>2, TotalCostWithoutOne
  <2>3. CASE r \notin F
    <3>1. G = F
      BY <1>2, <2>3
    <3> HIDE DEF f, F, G
    <3> QED BY <1>1, <1>3, <1>6, <2>1, <3>1, TotalCostMonotonic
  <2> QED BY <2>2, <2>3
<1>8. TotalCost(f) \in Nat /\ TotalCost(rows) \in Nat /\ Best(after).cost \in Nat
  <2>1. IsFiniteSet(G)
    BY <1>2, <1>6, FS_Subset
  <2>2. TotalCost(f) \in Nat
    <3> HIDE DEF f, G
    <3> QED BY <1>3, <2>1, TotalCostType
  <2>3. TotalCost(rows) \in Nat
    <3> HIDE DEF F
    <3> QED BY <1>1, <1>6, TotalCostType
  <2>4. Best(after) \in Covering(after)
    BY <1>5, BestIs DEF Solvable
  <2>5. Best(after).cost \in Nat
    BY <2>4, CoveringFacts DEF Solvable
  <2> QED BY <2>2, <2>3, <2>5
<1> QED BY <1>1, <1>5, <1>7, <1>8

\* A pin never makes the run cheaper and an exclusion never makes it dearer.
THEOREM EditsAreMonotonic == Spec => EditsMoveCostOneWay
<1> DEFINE OneWay(before, after) ==
             IF DOMAIN options' = DOMAIN options
             THEN after # None => before # None /\ before.cost =< after.cost
             ELSE before # None /\ DOMAIN options' # Infeasible(options')
                  => after # None /\ after.cost =< before.cost
<1>1. IInv /\ IInv' /\ [Next]_options => [OneWay(Best(options), Best(options'))]_options
  <2> SUFFICES ASSUME IInv, IInv', Next PROVE OneWay(Best(options), Best(options'))
    OBVIOUS
  <2>1. Solvable(options) /\ Solvable(options')
    BY TypedSolvable DEF IInv
  <2>2. ASSUME NEW r \in DOMAIN options, Exclude(r)
        PROVE  OneWay(Best(options), Best(options'))
    <3>1. /\ DOMAIN options' = DOMAIN options \ {r}
          /\ \A s \in DOMAIN options' : options'[s] = options[s]
      BY <2>2, ExcludeEffect
    <3>2. DOMAIN options' # Infeasible(options') => Possible(options') # {}
      BY DEF Possible, Infeasible
    <3> QED BY <2>1, <3>1, <3>2, ExcludeCost
  <2>3. ASSUME NEW r \in DOMAIN options, NEW d \in Dates, Pin(r, d)
        PROVE  OneWay(Best(options), Best(options'))
    <3>1. /\ DOMAIN options' = DOMAIN options
          /\ \A s \in DOMAIN options : options'[s] \in SUBSET options[s]
          /\ options'[r] # {} /\ \A s \in DOMAIN options : s # r => options'[s] = options[s]
      BY <2>3, PinEffect
    <3>2. Possible(options') = Possible(options)
      BY <3>1 DEF Possible, Infeasible
    <3> QED BY <2>1, <3>1, <3>2, PinCost
  <2> QED BY <2>2, <2>3 DEF Next
<1> QED BY <1>1, Typing, PTL DEF Spec, EditsMoveCostOneWay
=============================================================================
