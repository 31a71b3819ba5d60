------------------------- MODULE CarrierSolveProofs -------------------------
(***************************************************************************)
(* What the solver's operators return, for any shipments and any           *)
(* configurations: the sum of a plan's costs, the choice among equals, and *)
(* the plan that is picked.                                                *)
(*                                                                         *)
(* Induction is stated with a set in the place of a predicate: what holds  *)
(* of a set of shipments once it holds of its parts holds of all.          *)
(***************************************************************************)
EXTENDS CarrierSolve, FiniteSetTheorems, WellFoundedInduction, TLAPS

-----------------------------------------------------------------------------
(* Induction.                                                              *)

LEMMA LeastNumber ==
  ASSUME NEW T \in SUBSET Nat, T # {}
  PROVE  \E m \in T : \A n \in T : m =< n
<1>1. PICK m \in T : \A n \in T : ~(<<n, m>> \in OpToRel(<, Nat))
  BY NatLessThanWellFounded, WFMin
<1>2. \A n \in T : ~(n < m)
  BY <1>1 DEF OpToRel
<1> QED BY <1>2

LEMMA SubsetInduction ==
  ASSUME NEW S, IsFiniteSet(S), NEW Good,
         \A s \in SUBSET S : (\A t \in SUBSET s : t # s => t \in Good) => s \in Good
  PROVE  \A s \in SUBSET S : s \in Good
<1> DEFINE Bad == {s \in SUBSET S : s \notin Good}
           Sizes == {n \in Nat : \E s \in Bad : Cardinality(s) = n}
<1> SUFFICES ASSUME Bad # {} PROVE FALSE
  OBVIOUS
<1>1. \A s \in SUBSET S : IsFiniteSet(s) /\ Cardinality(s) \in Nat
  BY FS_Subset, FS_CardinalityType
<1>2. Sizes # {}
  BY <1>1
<1>3. PICK m \in Sizes : \A n \in Sizes : m =< n
  BY <1>2, LeastNumber
<1>4. PICK s \in Bad : Cardinality(s) = m
  BY <1>3
<1>5. ASSUME NEW t \in SUBSET s, t # s PROVE t \in Good
  <2>1. Cardinality(t) =< Cardinality(s) /\ Cardinality(t) # Cardinality(s)
    BY <1>1, <1>5, FS_Subset
  <2>2. Cardinality(t) \in Nat /\ Cardinality(t) < m /\ t \in SUBSET S
    BY <1>1, <1>4, <2>1
  <2>3. Cardinality(t) \notin Sizes
    BY <1>3, <2>2
  <2> QED BY <2>2, <2>3
<1> QED BY <1>4, <1>5
-----------------------------------------------------------------------------
(* The cost of a plan.                                                     *)

\* Which member of a set a sum takes first.
Taken(s) == CHOOSE x \in s : TRUE

\* g is the sum of fun over every part of S.
Sums(fun, S, g) ==
    g = [s \in SUBSET S |-> IF s = {} THEN 0 ELSE fun[Taken(s)] + g[s \ {Taken(s)}]]

Numbers(fun, S) == IsFiniteSet(S) /\ \A x \in S : fun[x] \in Nat

LEMMA SumIsFold ==
  ASSUME NEW fun
  PROVE  SumFunction(fun) = (CHOOSE g : Sums(fun, DOMAIN fun, g))[DOMAIN fun]
BY DEF SumFunction, SumFunctionOnSet, FoldFunctionOnSet, MapThenFoldSet, Sums, Taken

LEMMA TakenFrom ==
  ASSUME NEW s, s # {}
  PROVE  Taken(s) \in s /\ s \ {Taken(s)} \in SUBSET s /\ s \ {Taken(s)} # s
BY DEF Taken

\* There is such a g: given one for the parts of at most m - 1 members, the
\* equation defines one for those of m.
LEMMA SumsExist ==
  ASSUME NEW fun, NEW S, Numbers(fun, S)
  PROVE  \E g : Sums(fun, S, g)
<1> DEFINE
      Upto(n) == {s \in SUBSET S : Cardinality(s) =< n}
      rec(s, g) == IF s = {} THEN 0 ELSE fun[Taken(s)] + g[s \ {Taken(s)}]
      Solves(n, g) == g \in [Upto(n) -> Nat] /\ \A s \in Upto(n) : g[s] = rec(s, g)
      Bad == {n \in Nat : ~ \E g : Solves(n, g)}
<1>1. \A s \in SUBSET S : IsFiniteSet(s) /\ Cardinality(s) \in Nat
  BY FS_Subset, FS_CardinalityType DEF Numbers
<1>2. \A s \in SUBSET S : s # {} => /\ Taken(s) \in s
                                    /\ s \ {Taken(s)} \in SUBSET S
                                    /\ Cardinality(s \ {Taken(s)}) = Cardinality(s) - 1
  BY <1>1, TakenFrom, FS_RemoveElement
<1>3. Bad = {}
  <2> SUFFICES ASSUME Bad # {} PROVE FALSE
    OBVIOUS
  <2>1. PICK m \in Bad : \A n \in Bad : m =< n
    BY LeastNumber
  <2>2. m # 0
    <3> SUFFICES ASSUME m = 0 PROVE FALSE
      OBVIOUS
    <3>1. Upto(0) = {{}}
      BY <1>1, FS_EmptySet
    <3>2. Solves(0, [s \in Upto(0) |-> 0])
      BY <3>1
    <3> QED BY <2>1, <3>2
  <2>3. m - 1 \in Nat /\ ~(m =< m - 1)
    BY <2>2
  <2>4. PICK g : Solves(m - 1, g)
    BY <2>1, <2>3
  <2> DEFINE h == [s \in Upto(m) |-> rec(s, g)]
  <2>5. \A s \in Upto(m) : s # {} => s \ {Taken(s)} \in Upto(m - 1)
    BY <1>1, <1>2, <2>1
  <2>6. Upto(m - 1) \subseteq Upto(m)
    BY <1>1, <2>1
  <2>7. \A s \in Upto(m - 1) : h[s] = g[s]
    BY <2>4, <2>6
  <2>8. \A s \in Upto(m) : rec(s, g) = rec(s, h)
    BY <2>5, <2>7
  <2>9. \A s \in Upto(m) : rec(s, g) \in Nat
    BY <1>2, <2>4, <2>5 DEF Numbers
  <2>10. Solves(m, h)
    BY <2>8, <2>9
  <2> QED BY <2>1, <2>10
<1>4. PICK g : Solves(Cardinality(S), g)
  BY <1>1, <1>3 DEF Numbers
<1>5. Upto(Cardinality(S)) = SUBSET S
  BY FS_Subset DEF Numbers
<1> QED BY <1>4, <1>5 DEF Sums

LEMMA SumsType ==
  ASSUME NEW fun, NEW S, Numbers(fun, S), NEW g, Sums(fun, S, g)
  PROVE  \A s \in SUBSET S : g[s] \in Nat
<1> DEFINE Good == {s \in SUBSET S : g[s] \in Nat}
<1>1. ASSUME NEW s \in SUBSET S, \A t \in SUBSET s : t # s => t \in Good
      PROVE  s \in Good
  <2>1. g[s] = IF s = {} THEN 0 ELSE fun[Taken(s)] + g[s \ {Taken(s)}]
    BY DEF Sums
  <2>2. s # {} => fun[Taken(s)] \in Nat /\ g[s \ {Taken(s)}] \in Nat
    BY <1>1, TakenFrom DEF Numbers
  <2> QED BY <2>1, <2>2
<1> HIDE DEF Good
<1>2. \A s \in SUBSET S : s \in Good
  BY <1>1, SubsetInduction DEF Numbers
<1> QED BY <1>2 DEF Good

\* A sum of smaller numbers, over the same parts, is smaller.
LEMMA SumsCompare ==
  ASSUME NEW fun, NEW S, Numbers(fun, S), NEW g, Sums(fun, S, g),
         NEW fun2, NEW S2, Numbers(fun2, S2), NEW h, Sums(fun2, S2, h),
         S \subseteq S2, \A x \in S : fun[x] =< fun2[x]
  PROVE  \A s \in SUBSET S : g[s] =< h[s]
<1> DEFINE Good == {s \in SUBSET S : g[s] =< h[s]}
<1>1. ASSUME NEW s \in SUBSET S, \A t \in SUBSET s : t # s => t \in Good
      PROVE  s \in Good
  <2>1. /\ g[s] = IF s = {} THEN 0 ELSE fun[Taken(s)] + g[s \ {Taken(s)}]
        /\ h[s] = IF s = {} THEN 0 ELSE fun2[Taken(s)] + h[s \ {Taken(s)}]
    BY DEF Sums
  <2>2. CASE s = {}
    BY <2>1, <2>2
  <2>3. CASE s # {}
    <3>1. Taken(s) \in S /\ s \ {Taken(s)} \in SUBSET S /\ s \ {Taken(s)} \in Good
      BY <1>1, <2>3, TakenFrom
    <3>2. /\ fun[Taken(s)] \in Nat /\ fun2[Taken(s)] \in Nat
          /\ g[s \ {Taken(s)}] \in Nat /\ h[s \ {Taken(s)}] \in Nat
      BY <3>1, SumsType DEF Numbers
    <3> QED BY <2>1, <2>3, <3>1, <3>2
  <2> QED BY <2>2, <2>3
<1> HIDE DEF Good
<1>2. \A s \in SUBSET S : s \in Good
  BY <1>1, SubsetInduction DEF Numbers
<1> QED BY <1>2 DEF Good

\* Any member may be taken first.
LEMMA SumsAnyFirst ==
  ASSUME NEW fun, NEW S, Numbers(fun, S), NEW g, Sums(fun, S, g)
  PROVE  \A s \in SUBSET S : \A x \in s : g[s] = fun[x] + g[s \ {x}]
<1> DEFINE Good == {s \in SUBSET S : \A x \in s : g[s] = fun[x] + g[s \ {x}]}
<1>1. ASSUME NEW s \in SUBSET S, \A t \in SUBSET s : t # s => t \in Good
      PROVE  s \in Good
  <2> SUFFICES ASSUME NEW x \in s PROVE g[s] = fun[x] + g[s \ {x}]
    OBVIOUS
  <2> DEFINE y == Taken(s)
  <2>1. y \in s /\ g[s] = fun[y] + g[s \ {y}]
    BY TakenFrom DEF Sums
  <2> HIDE DEF y
  <2>2. CASE x = y
    BY <2>1, <2>2
  <2>3. CASE x # y
    <3> DEFINE rest == s \ {x, y}
    <3>1. s \ {y} \in Good /\ s \ {x} \in Good
      BY <1>1, <2>1
    <3>2. (s \ {y}) \ {x} = rest /\ (s \ {x}) \ {y} = rest
      OBVIOUS
    <3>3. x \in s \ {y} /\ y \in s \ {x}
      BY <2>1, <2>3
    <3>4. g[s \ {y}] = fun[x] + g[rest] /\ g[s \ {x}] = fun[y] + g[rest]
      BY <3>1, <3>2, <3>3
    <3>5. fun[x] \in Nat /\ fun[y] \in Nat /\ g[rest] \in Nat
      BY <2>1, SumsType DEF Numbers
    <3> HIDE DEF rest
    <3> QED BY <2>1, <3>4, <3>5
  <2> QED BY <2>2, <2>3
<1> HIDE DEF Good
<1>2. \A s \in SUBSET S : s \in Good
  BY <1>1, SubsetInduction DEF Numbers
<1> QED BY <1>2 DEF Good

\* What SumFunction returns.
LEMMA SumGives ==
  ASSUME NEW S, IsFiniteSet(S), NEW fun \in [S -> Nat]
  PROVE  \E g : Sums(fun, S, g) /\ SumFunction(fun) = g[S]
<1>1. Numbers(fun, S) /\ DOMAIN fun = S
  BY DEF Numbers
<1>2. Sums(fun, S, CHOOSE g : Sums(fun, S, g))
  BY <1>1, SumsExist
<1> QED BY <1>1, <1>2, SumIsFold

LEMMA SumType ==
  ASSUME NEW S, IsFiniteSet(S), NEW fun \in [S -> Nat]
  PROVE  SumFunction(fun) \in Nat
<1>1. Numbers(fun, S)
  BY DEF Numbers
<1> QED BY <1>1, SumGives, SumsType

LEMMA SumMonotonic ==
  ASSUME NEW S, IsFiniteSet(S), NEW fun \in [S -> Nat], NEW fun2 \in [S -> Nat],
         \A x \in S : fun[x] =< fun2[x]
  PROVE  SumFunction(fun) =< SumFunction(fun2)
<1>1. Numbers(fun, S) /\ Numbers(fun2, S)
  BY DEF Numbers
<1>2. PICK g : Sums(fun, S, g) /\ SumFunction(fun) = g[S]
  BY SumGives
<1>3. PICK h : Sums(fun2, S, h) /\ SumFunction(fun2) = h[S]
  BY SumGives
<1>4. g[S] =< h[S]
  BY <1>1, <1>2, <1>3, SumsCompare
<1> QED BY <1>2, <1>3, <1>4

\* The sum without one of them is not larger.
LEMMA SumWithoutOne ==
  ASSUME NEW S, IsFiniteSet(S), NEW fun \in [S -> Nat], NEW r \in S,
         NEW less \in [S \ {r} -> Nat], \A x \in S \ {r} : less[x] =< fun[x]
  PROVE  SumFunction(less) =< SumFunction(fun)
<1> DEFINE T == S \ {r}
<1>1. IsFiniteSet(T) /\ Numbers(fun, S) /\ Numbers(less, T)
  BY FS_Subset DEF Numbers
<1>2. PICK g : Sums(less, T, g) /\ SumFunction(less) = g[T]
  BY <1>1, SumGives
<1>3. PICK h : Sums(fun, S, h) /\ SumFunction(fun) = h[S]
  BY SumGives
<1>4. g[T] =< h[T]
  BY <1>1, <1>2, <1>3, SumsCompare
<1>5. h[S] = fun[r] + h[T]
  BY <1>1, <1>3, SumsAnyFirst
<1>6. g[T] \in Nat /\ h[T] \in Nat /\ fun[r] \in Nat
  BY <1>1, <1>2, <1>3, SumsType
<1> QED BY <1>2, <1>3, <1>4, <1>5, <1>6
-----------------------------------------------------------------------------
(* Deterministic cheapest-first choice.                                    *)

\* Of any records, some have the least of a numeric field.
LEMMA LeastExists ==
  ASSUME NEW S, S # {}, NEW k, \A a \in S : a[k] \in Nat
  PROVE  Least(S, k) \subseteq S /\ Least(S, k) # {}
<1> DEFINE T == {a[k] : a \in S}
<1>1. T \in SUBSET Nat /\ T # {}
  OBVIOUS
<1>2. PICK m \in T : \A n \in T : m =< n
  BY <1>1, LeastNumber
<1>3. PICK a \in S : a[k] = m
  OBVIOUS
<1> QED BY <1>2, <1>3 DEF Least

\* The choice of a shipment is one of its options, and none costs less.
LEMMA CheapestIs ==
  ASSUME NEW S \in SUBSET Option, S # {}
  PROVE  Cheapest(S) \in S /\ \A o \in S : Cheapest(S).cost =< o.cost
<1> DEFINE A == Least(S, "cost")
           B == Least(A, "temp")
           C == Least(B, "date")
           D == Least(C, "carrier")
           E == Least(D, "variant")
<1>1. \A o \in Option : /\ o["cost"] \in Nat /\ o["temp"] \in Nat /\ o["date"] \in Nat
                        /\ o["carrier"] \in Nat /\ o["variant"] \in Nat
  BY SolveAssumption DEF Option
<1>2. A \subseteq S /\ A # {}
  BY <1>1, LeastExists
<1>3. B \subseteq A /\ B # {}
  <2> HIDE DEF A
  <2> QED BY <1>1, <1>2, LeastExists
<1>4. C \subseteq B /\ C # {}
  <2> HIDE DEF B
  <2> QED BY <1>1, <1>2, <1>3, LeastExists
<1>5. D \subseteq C /\ D # {}
  <2> HIDE DEF C
  <2> QED BY <1>1, <1>2, <1>3, <1>4, LeastExists
<1>6. E \subseteq D /\ E # {}
  <2> HIDE DEF D
  <2> QED BY <1>1, <1>2, <1>3, <1>4, <1>5, LeastExists
<1>7. Cheapest(S) \in A
  <2>1. Cheapest(S) \in E
    <3>1. Cheapest(S) = CHOOSE o \in E : TRUE
      BY DEF Cheapest, InOrder
    <3> HIDE DEF E
    <3> QED BY <1>6, <3>1
  <2> HIDE DEF A, B, C, D, E
  <2> QED BY <2>1, <1>3, <1>4, <1>5, <1>6
<1> QED BY <1>2, <1>7 DEF Least

\* The cost of rows is a number; it follows the costs of the rows, and one
\* row less costs no more.
LEMMA TotalCostType ==
  ASSUME NEW T, IsFiniteSet(T), NEW rows \in [T -> Option]
  PROVE  TotalCost(rows) \in Nat
<1>1. [r \in DOMAIN rows |-> rows[r].cost] \in [T -> Nat]
  BY DEF Option
<1> QED BY <1>1, SumType DEF TotalCost

LEMMA TotalCostMonotonic ==
  ASSUME NEW T, IsFiniteSet(T), NEW rows \in [T -> Option], NEW rows2 \in [T -> Option],
         \A r \in T : rows[r].cost =< rows2[r].cost
  PROVE  TotalCost(rows) =< TotalCost(rows2)
<1> DEFINE f == [r \in DOMAIN rows |-> rows[r].cost]
           g == [r \in DOMAIN rows2 |-> rows2[r].cost]
<1>1. f \in [T -> Nat] /\ g \in [T -> Nat] /\ \A r \in T : f[r] =< g[r]
  BY DEF Option
<1>2. TotalCost(rows) = SumFunction(f) /\ TotalCost(rows2) = SumFunction(g)
  BY DEF TotalCost
<1> HIDE DEF f, g
<1> QED BY <1>1, <1>2, SumMonotonic

LEMMA TotalCostWithoutOne ==
  ASSUME NEW T, IsFiniteSet(T), NEW rows \in [T -> Option], NEW r \in T,
         NEW less \in [T \ {r} -> Option], \A x \in T \ {r} : less[x].cost =< rows[x].cost
  PROVE  TotalCost(less) =< TotalCost(rows)
<1> DEFINE f == [x \in DOMAIN rows |-> rows[x].cost]
           g == [x \in DOMAIN less |-> less[x].cost]
<1>1. /\ f \in [T -> Nat] /\ g \in [T \ {r} -> Nat]
      /\ \A x \in T \ {r} : g[x] =< f[x]
  BY DEF Option
<1>2. TotalCost(rows) = SumFunction(f) /\ TotalCost(less) = SumFunction(g)
  BY DEF TotalCost
<1> HIDE DEF f, g
<1>3. SumFunction(g) =< SumFunction(f)
  BY <1>1, SumWithoutOne
<1> QED BY <1>2, <1>3
-----------------------------------------------------------------------------
(* A plan.                                                                 *)

\* What the solver is given: the options of each of finitely many shipments.
Run(opts) == IsFiniteSet(DOMAIN opts) /\ opts \in [DOMAIN opts -> SUBSET Option]

FirstOf(S) == CHOOSE c \in S : \A d \in S : c =< d
LastOf(S) == CHOOSE c \in S : \A d \in S : d =< c

\* A carrier subset is a small non-empty set of known carriers, and has a
\* first and a last.
LEMMA SubsetFacts ==
  ASSUME NEW opts, Run(opts), NEW S \in CarrierSubsets(Available(opts))
  PROVE  /\ S \in SUBSET Carriers /\ S # {} /\ IsFiniteSet(S)
         /\ Cardinality(S) \in Nat /\ Cardinality(S) =< MaxCarriersPerRun
         /\ S = {FirstOf(S), LastOf(S)}
<1>1. S \in SUBSET Available(opts) /\ Cardinality(S) \in 1 .. MaxCarriersPerRun
  BY DEF CarrierSubsets
<1>2. S \in SUBSET Carriers
  BY <1>1 DEF Run, Available, Option
<1>3. S \in SUBSET Nat /\ IsFiniteSet(S) /\ Cardinality(S) \in Nat
  BY <1>2, SolveAssumption, FS_Subset, FS_CardinalityType
<1>4. S # {}
  BY <1>1, FS_EmptySet
<1>5. \E c \in S : \A d \in S : c =< d
  BY <1>3, <1>4, LeastNumber
<1>6. \E a, b \in S : S = {a, b}
  <2>1. PICK a \in S : TRUE
    BY <1>4
  <2> DEFINE rest == S \ {a}
  <2>2. IsFiniteSet(rest) /\ Cardinality(rest) = Cardinality(S) - 1
    BY <1>3, <2>1, FS_RemoveElement
  <2>3. Cardinality(S) \in {1, 2}
    BY <1>1, SolveAssumption
  <2>4. rest = {} \/ \E b : rest = {b}
    <3> HIDE DEF rest
    <3> QED BY <2>2, <2>3, FS_EmptySet, FS_Singleton
  <2>5. S = rest \cup {a}
    BY <2>1
  <2> QED BY <2>1, <2>4, <2>5
<1>7. \E c \in S : \A d \in S : d =< c
  BY <1>3, <1>6
<1>8. /\ FirstOf(S) \in S /\ LastOf(S) \in S
      /\ \A d \in S : FirstOf(S) =< d /\ d =< LastOf(S)
  BY <1>5, <1>7, Zenon DEF FirstOf, LastOf
<1>9. Cardinality(S) =< MaxCarriersPerRun
  BY <1>1, SolveAssumption
<1>10. S = {FirstOf(S), LastOf(S)}
  BY <1>3, <1>6, <1>8
<1> QED BY <1>2, <1>3, <1>4, <1>8, <1>9, <1>10

\* A plan, field by field: each shipment that has an option under the subset
\* is given its cheapest.
LEMMA PlanFacts ==
  ASSUME NEW opts, Run(opts), NEW S \in CarrierSubsets(Available(opts))
  PROVE  /\ Plan(opts, S) \in PlanOver(DOMAIN opts)
         /\ Plan(opts, S).carriers = S
         /\ S = {Plan(opts, S).first, Plan(opts, S).last}
         /\ Plan(opts, S).size = Cardinality(S)
         /\ Plan(opts, S).stranded = Stranded(opts, S)
         /\ Plan(opts, S).forced <=> SaturdayOnly(opts) # {} /\ S \cap SaturdayCarriers # {}
         /\ Plan(opts, S).rows \in [Assigned(opts, S) -> Option]
         /\ \A r \in Assigned(opts, S) :
              /\ Plan(opts, S).rows[r] \in Under(opts, r, S)
              /\ \A o \in Under(opts, r, S) : Plan(opts, S).rows[r].cost =< o.cost
         /\ Plan(opts, S).cost = TotalCost(Plan(opts, S).rows)
<1> DEFINE T == Assigned(opts, S)
           rows == [r \in T |-> Cheapest(Under(opts, r, S))]
           forced == SaturdayOnly(opts) # {} /\ S \cap SaturdayCarriers # {}
<1>1. T \in SUBSET DOMAIN opts /\ IsFiniteSet(T)
  BY FS_Subset DEF Assigned, Run
<1>2. ASSUME NEW r \in T
      PROVE  /\ rows[r] \in Under(opts, r, S) /\ rows[r] \in Option
             /\ \A o \in Under(opts, r, S) : rows[r].cost =< o.cost
  <2>1. Under(opts, r, S) \in SUBSET Option /\ Under(opts, r, S) # {}
    BY <1>1 DEF Run, Under, Assigned
  <2> QED BY <2>1, CheapestIs
<1>3. rows \in [T -> Option]
  BY <1>2
<1>4. TotalCost(rows) \in Nat /\ rows \in Rows(DOMAIN opts)
  BY <1>1, <1>3, TotalCostType DEF Rows
<1>5. /\ S \in SUBSET Carriers /\ Cardinality(S) \in Nat
      /\ FirstOf(S) \in Carriers /\ LastOf(S) \in Carriers /\ S = {FirstOf(S), LastOf(S)}
  BY SubsetFacts
<1>6. Stranded(opts, S) \in SUBSET DOMAIN opts
  BY DEF Stranded
<1>7. Plan(opts, S) = [carriers |-> S, rows |-> rows, stranded |-> Stranded(opts, S),
                       forced |-> forced, cost |-> TotalCost(rows),
                       size |-> Cardinality(S), first |-> FirstOf(S), last |-> LastOf(S)]
  BY DEF Plan, FirstOf, LastOf
<1>8. forced \in BOOLEAN /\ (forced <=> SaturdayOnly(opts) # {} /\ S \cap SaturdayCarriers # {})
  OBVIOUS
<1> HIDE DEF rows, forced
<1>9. Plan(opts, S) \in PlanOver(DOMAIN opts)
  BY <1>4, <1>5, <1>6, <1>7, <1>8 DEF PlanOver
<1> QED BY <1>2, <1>3, <1>5, <1>7, <1>8, <1>9
-----------------------------------------------------------------------------
(* The choice of a plan.                                                   *)

\* A plan of fewer shipments is one of more.
LEMMA PlanOverMonotonic ==
  ASSUME NEW R, NEW Q \in SUBSET R
  PROVE  PlanOver(Q) \subseteq PlanOver(R) /\ Rows(Q) \subseteq Rows(R)
<1>1. Rows(Q) \subseteq Rows(R)
  BY DEF Rows
<1> QED BY <1>1 DEF PlanOver

\* A plan that covers has a row for each shipment that can be carried at
\* all, and the row is an option of that shipment under the plan's carriers.
LEMMA CoveringFacts ==
  ASSUME NEW opts, Run(opts), NEW p \in Covering(opts)
  PROVE  /\ p \in PlanOver(DOMAIN opts)
         /\ p.carriers \in CarrierSubsets(Available(opts)) /\ p = Plan(opts, p.carriers)
         /\ p.stranded = {}
         /\ p.rows \in [DOMAIN opts \ Infeasible(opts) -> Option]
         /\ \A r \in DOMAIN opts \ Infeasible(opts) :
              p.rows[r] \in opts[r] /\ p.rows[r].carrier \in p.carriers
         /\ DOMAIN opts \ Infeasible(opts) # {}
         /\ CarriersUsed(p.rows) \in SUBSET p.carriers
         /\ Cardinality(CarriersUsed(p.rows)) =< MaxCarriersPerRun
         /\ p.cost = TotalCost(p.rows) /\ p.cost \in Nat /\ p.size \in Nat
<1> DEFINE F == DOMAIN opts \ Infeasible(opts)
<1>1. PICK S \in CarrierSubsets(Available(opts)) : p = Plan(opts, S) /\ p.stranded = {}
  BY DEF Covering, Plans
<1>2. /\ p \in PlanOver(DOMAIN opts) /\ p.carriers = S /\ p.stranded = Stranded(opts, S)
      /\ p.rows \in [Assigned(opts, S) -> Option]
      /\ \A r \in Assigned(opts, S) : p.rows[r] \in Under(opts, r, S)
      /\ p.cost = TotalCost(p.rows)
  BY <1>1, PlanFacts
<1>3. Assigned(opts, S) = F
  BY <1>1, <1>2 DEF Stranded, Assigned, Infeasible, Under
<1>4. /\ S \in SUBSET Carriers /\ S # {} /\ IsFiniteSet(S)
      /\ Cardinality(S) \in Nat /\ Cardinality(S) =< MaxCarriersPerRun
  BY SubsetFacts
<1>5. F # {}
  BY <1>4 DEF CarrierSubsets, Available, Infeasible
<1>6. CarriersUsed(p.rows) \in SUBSET S
  BY <1>2, <1>3 DEF CarriersUsed, Under
<1>7. Cardinality(CarriersUsed(p.rows)) =< MaxCarriersPerRun
  <2>1. /\ Cardinality(CarriersUsed(p.rows)) =< Cardinality(S)
        /\ Cardinality(CarriersUsed(p.rows)) \in Nat
    BY <1>4, <1>6, FS_Subset, FS_CardinalityType
  <2> QED BY <2>1, <1>4, SolveAssumption
<1>8. p.cost \in Nat /\ p.size \in Nat
  BY <1>2 DEF PlanOver
<1> QED BY <1>1, <1>2, <1>3, <1>5, <1>6, <1>7, <1>8 DEF Under

\* There is a best plan exactly when some plan covers; it covers, none that
\* covers costs less, and none that costs as much has fewer carriers.
LEMMA BestIs ==
  ASSUME NEW opts, Run(opts), None \notin PlanOver(DOMAIN opts)
  PROVE  /\ Best(opts) = None <=> Covering(opts) = {}
         /\ Best(opts) # None =>
              /\ Best(opts) \in Covering(opts)
              /\ \A q \in Covering(opts) :
                   /\ Best(opts).cost =< q.cost
                   /\ Best(opts).cost = q.cost => Best(opts).size =< q.size
<1> DEFINE A == Least(Covering(opts), "cost")
           B == Least(A, "size")
           C == Least(B, "first")
           D == Least(C, "last")
<1>1. \A p \in Covering(opts) :
        /\ p["cost"] \in Nat /\ p["size"] \in Nat /\ p["first"] \in Nat /\ p["last"] \in Nat
        /\ p \in PlanOver(DOMAIN opts)
  BY CoveringFacts, SolveAssumption DEF PlanOver
<1>2. Ranked(opts) = D
  BY DEF Ranked
<1>3. CASE Covering(opts) = {}
  <2>1. Ranked(opts) = {}
    BY <1>3 DEF Ranked, Least
  <2> QED BY <1>3, <2>1 DEF Best
<1>4. CASE Covering(opts) # {}
  <2>1. A \subseteq Covering(opts) /\ A # {}
    BY <1>1, <1>4, LeastExists
  <2>2. B \subseteq A /\ B # {}
    <3> HIDE DEF A
    <3> QED BY <1>1, <2>1, LeastExists
  <2>3. C \subseteq B /\ C # {}
    <3> HIDE DEF B
    <3> QED BY <1>1, <2>1, <2>2, LeastExists
  <2>4. D \subseteq C /\ D # {}
    <3> HIDE DEF C
    <3> QED BY <1>1, <2>1, <2>2, <2>3, LeastExists
  <2>5. Best(opts) \in D
    <3>1. Best(opts) = CHOOSE p \in Ranked(opts) : TRUE
      BY <1>2, <2>4 DEF Best
    <3>2. Ranked(opts) # {}
      BY <1>2, <2>4
    <3>3. Best(opts) \in Ranked(opts)
      BY <3>1, <3>2
    <3> QED BY <1>2, <3>3
  <2>6. Best(opts) \in B /\ Best(opts) \in A /\ Best(opts) \in Covering(opts)
    <3> HIDE DEF A, B, C, D
    <3> QED BY <2>1, <2>2, <2>3, <2>4, <2>5
  <2>7. Best(opts) # None
    BY <1>1, <2>6
  <2>8. \A q \in Covering(opts) : Best(opts).cost =< q.cost
    BY <2>6 DEF Least
  <2>9. ASSUME NEW q \in Covering(opts), Best(opts).cost = q.cost
        PROVE  Best(opts).size =< q.size
    <3>1. q \in A
      BY <2>8, <2>9 DEF Least
    <3> HIDE DEF A
    <3> QED BY <2>6, <3>1 DEF Least
  <2> QED BY <1>4, <2>6, <2>7, <2>8, <2>9
<1> QED BY <1>3, <1>4

\* Giving each shipment one of its options, with few enough carriers, costs at
\* least as much as the plan of those carriers.
LEMMA ChoiceBeaten ==
  ASSUME NEW opts, Run(opts), DOMAIN opts \ Infeasible(opts) # {},
         NEW f \in [DOMAIN opts \ Infeasible(opts) -> Option],
         \A r \in DOMAIN opts \ Infeasible(opts) : f[r] \in opts[r],
         Cardinality(CarriersUsed(f)) =< MaxCarriersPerRun
  PROVE  \E p \in Covering(opts) : p.cost =< TotalCost(f) /\ p.carriers = CarriersUsed(f)
<1> DEFINE F == DOMAIN opts \ Infeasible(opts)
           U == CarriersUsed(f)
           p == Plan(opts, U)
<1>1. U \in SUBSET Available(opts) /\ U # {} /\ U \in SUBSET Carriers
  BY DEF CarriersUsed, Available, Option
<1>2. U \in CarrierSubsets(Available(opts))
  <2>1. IsFiniteSet(U) /\ Cardinality(U) \in Nat
    BY <1>1, SolveAssumption, FS_Subset, FS_CardinalityType
  <2>2. Cardinality(U) # 0
    BY <1>1, <2>1, FS_EmptySet
  <2> QED BY <1>1, <2>1, <2>2, SolveAssumption DEF CarrierSubsets
<1>3. \A r \in F : f[r] \in Under(opts, r, U)
  BY DEF Under, CarriersUsed
<1>4. Assigned(opts, U) = F /\ Stranded(opts, U) = {}
  BY <1>3 DEF Assigned, Stranded, Infeasible, Under
<1>5. /\ p.carriers = U /\ p.stranded = {} /\ p.rows \in [F -> Option]
      /\ \A r \in F : p.rows[r].cost =< f[r].cost
      /\ p.cost = TotalCost(p.rows)
  <2> HIDE DEF F, U
  <2> QED BY <1>2, <1>3, <1>4, PlanFacts
<1>6. p \in Covering(opts)
  BY <1>2, <1>5 DEF Covering, Plans
<1>7. IsFiniteSet(F)
  BY FS_Subset DEF Run
<1>8. TotalCost(p.rows) =< TotalCost(f)
  <2> HIDE DEF F, p
  <2>1. f \in [F -> Option]
    BY DEF F
  <2> QED BY <1>5, <1>7, <2>1, TotalCostMonotonic
<1> QED BY <1>5, <1>6, <1>8
-----------------------------------------------------------------------------
(* The plan that ranks first.                                              *)

\* Two of the least agree on the field.
LEMMA LeastAgree ==
  ASSUME NEW S, NEW k, \A a \in S : a[k] \in Nat
  PROVE  \A a, b \in Least(S, k) : a[k] = b[k]
BY DEF Least

\* The ranking of the plans leaves one: a plan is known by its carriers, and at
\* most two carriers by the first and the last (solve_carriers' ranking key).
THEOREM OneRanksFirst ==
  ASSUME NEW opts, Run(opts), Covering(opts) # {}
  PROVE  Ranked(opts) = {Best(opts)}
<1> DEFINE A == Least(Covering(opts), "cost")
           B == Least(A, "size")
           C == Least(B, "first")
           D == Least(C, "last")
<1>1. \A p \in Covering(opts) :
        p["cost"] \in Nat /\ p["size"] \in Nat /\ p["first"] \in Nat /\ p["last"] \in Nat
  BY CoveringFacts, SolveAssumption DEF PlanOver
<1>2. A \subseteq Covering(opts) /\ A # {}
  BY <1>1, LeastExists
<1>3. B \subseteq A /\ B # {}
  <2> HIDE DEF A
  <2> QED BY <1>1, <1>2, LeastExists
<1>4. C \subseteq B /\ C # {} /\ \A p, q \in C : p["first"] = q["first"]
  <2> HIDE DEF B
  <2> QED BY <1>1, <1>2, <1>3, LeastExists, LeastAgree
<1>5. D \subseteq C /\ D # {} /\ \A p, q \in D : p["last"] = q["last"]
  <2> HIDE DEF C
  <2> QED BY <1>1, <1>2, <1>3, <1>4, LeastExists, LeastAgree
<1>6. Ranked(opts) = D
  BY DEF Ranked
<1> HIDE DEF A, B, C, D
<1>7. ASSUME NEW p \in D, NEW q \in D PROVE p = q
  <2>1. p \in Covering(opts) /\ q \in Covering(opts) /\ p.first = q.first /\ p.last = q.last
    BY <1>2, <1>3, <1>4, <1>5, <1>7
  <2>2. /\ p = Plan(opts, p.carriers) /\ p.carriers \in CarrierSubsets(Available(opts))
        /\ q = Plan(opts, q.carriers) /\ q.carriers \in CarrierSubsets(Available(opts))
    BY <2>1, CoveringFacts
  <2>3. p.carriers = {p.first, p.last} /\ q.carriers = {q.first, q.last}
    <3> DEFINE S == p.carriers
               T == q.carriers
    <3>1. p = Plan(opts, S) /\ q = Plan(opts, T)
      BY <2>2
    <3>2. S = {Plan(opts, S).first, Plan(opts, S).last}
          /\ T = {Plan(opts, T).first, Plan(opts, T).last}
      <4> HIDE DEF S, T
      <4>1. S \in CarrierSubsets(Available(opts)) /\ T \in CarrierSubsets(Available(opts))
        BY <2>2 DEF S, T
      <4> QED BY <4>1, PlanFacts
    <3> QED BY <3>1, <3>2
  <2> QED BY <2>1, <2>2, <2>3
<1>8. Best(opts) \in D
  BY <1>5, <1>6 DEF Best
<1> QED BY <1>6, <1>7, <1>8
=============================================================================
