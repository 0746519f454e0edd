-------------------------- MODULE MarketPlanProofs --------------------------
(***************************************************************************)
(* plan_purchases never overspends, counts what it spends exactly, and     *)
(* returns only valid plans, whatever the listings, their order and the    *)
(* floors.  `spent` is a sum, and a sum is a recursive function: a running *)
(* total (Totals below) is carried along the loops and shown, at the end,  *)
(* to be the function the recursion defines.                               *)
(***************************************************************************)
EXTENDS MarketPlan, FunctionTheorems, FiniteSetTheorems, NaturalsInduction,
        WellFoundedInduction, TLAPS

\* The sellers the plan really buys from.
Bought == {ranked[selected[i]].seller : i \in 1 .. Len(selected)}

\* Within budget at every point; selected_sellers holds only sellers bought
\* from; and the loops are left for "done" only once both floors are met.
PlanInvariant ==
    /\ TypeOK
    /\ \A n \in 1 .. Len(ranked) : Eligible(ranked[n])
    /\ spent =< Budget
    /\ sellers \subseteq Bought
    /\ phase = "done" =>
         spent >= MinimumSpend /\ Cardinality(sellers) >= MinimumProducts

\* The three loops start from an empty plan.
LEMMA PlanInit == Init => PlanInvariant
  <1>. SUFFICES ASSUME Init PROVE PlanInvariant
    OBVIOUS
  <1>1. PICK n \in 0 .. MaxListings :
          ranked \in [1 .. n -> {listing \in Listing : Eligible(listing)}]
    BY DEF Init
  <1>2. n \in Nat
    BY PlanConstantsAssumption
  <1>3. ranked \in Seq(Listing) /\ Len(ranked) = n
    BY <1>1, <1>2
  <1>4. \A i \in 1 .. Len(ranked) : Eligible(ranked[i])
    BY <1>1, <1>3
  <1>. QED BY <1>3, <1>4, PlanConstantsAssumption DEF Init, PlanInvariant, TypeOK

\* The sellers bought from are finitely many.
LEMMA BoughtFinite ==
  ASSUME PlanInvariant
  PROVE  IsFiniteSet(Bought)
  <1>. DEFINE f == [i \in 1 .. Len(selected) |-> ranked[selected[i]].seller]
  <1>1. f \in Surjection(1 .. Len(selected), Bought)
    BY DEF Surjection, Bought
  <1>2. IsFiniteSet(1 .. Len(selected))
    BY FS_Interval DEF PlanInvariant, TypeOK
  <1>. QED BY <1>1, <1>2, FS_Surjection

\* Selecting a service that fits keeps the budget, and its seller is bought from.
LEMMA SelectKeeps ==
  ASSUME PlanInvariant, NEW n \in 1 .. Len(ranked), Fits(ranked[n]), Select(n),
         UNCHANGED ranked
  PROVE  /\ selected' \in Seq(1 .. Len(ranked)) /\ spent' \in Nat /\ spent' =< Budget
         /\ Bought' = Bought \cup {ranked[n].seller}
  <1>1. selected \in Seq(1 .. Len(ranked)) /\ ranked[n] \in Listing
    BY DEF PlanInvariant, TypeOK
  <1>2. ranked[n].price \in Nat
    BY <1>1, PlanConstantsAssumption DEF Listing
  <1>3. selected' \in Seq(1 .. Len(ranked)) /\ Len(selected') = Len(selected) + 1
        /\ selected'[Len(selected) + 1] = n
        /\ \A i \in 1 .. Len(selected) : selected'[i] = selected[i]
    BY <1>1 DEF Select
  <1>4. Bought' = Bought \cup {ranked[n].seller}
    <2>1. ASSUME NEW x \in Bought' PROVE x \in Bought \cup {ranked[n].seller}
      <3>1. PICK i \in 1 .. Len(selected') : x = ranked[selected'[i]].seller
        BY <2>1 DEF Bought, Select
      <3>2. i \in 1 .. Len(selected) \/ i = Len(selected) + 1
        BY <1>1, <1>3
      <3>3. CASE i = Len(selected) + 1
        BY <1>3, <3>1, <3>3
      <3>4. CASE i \in 1 .. Len(selected)
        BY <1>3, <3>1, <3>4 DEF Bought
      <3>. QED BY <3>2, <3>3, <3>4
    <2>2. ASSUME NEW x \in Bought PROVE x \in Bought'
      <3>1. PICK i \in 1 .. Len(selected) : x = ranked[selected[i]].seller
        BY <2>2 DEF Bought
      <3>2. i \in 1 .. Len(selected') /\ x = ranked'[selected'[i]].seller
        BY <1>1, <1>3, <3>1
      <3>. QED BY <3>2 DEF Bought
    <2>3. ranked[n].seller \in Bought'
      <3>1. /\ Len(selected) + 1 \in 1 .. Len(selected')
            /\ ranked[n].seller = ranked'[selected'[Len(selected) + 1]].seller
        BY <1>1, <1>3
      <3>. QED BY <3>1 DEF Bought
    <2>. QED BY <2>1, <2>2, <2>3
  <1>. QED BY <1>2, <1>3, <1>4 DEF Select, Fits, PlanInvariant, TypeOK

\* Every iteration of the three loops keeps the invariant.
LEMMA PlanStep == PlanInvariant /\ [Next]_planVars => PlanInvariant'
  <1>. SUFFICES ASSUME PlanInvariant, [Next]_planVars PROVE PlanInvariant'
    OBVIOUS
  <1>1. /\ ranked \in Seq(Listing) /\ Len(ranked) \in Nat /\ cursor \in Nat
        /\ cursor =< Len(ranked) + 1 /\ cursor >= 1
    BY DEF PlanInvariant, TypeOK
  <1>2. CASE Check
    BY <1>1, <1>2 DEF Check, Goto, Skip, PlanInvariant, TypeOK, Bought, Eligible
  <1>3. CASE Diversify
    <2>1. UNCHANGED ranked /\ phase = "diversity" /\ cursor \in 1 .. Len(ranked)
      BY <1>1, <1>3 DEF Diversify
    <2>2. CASE Skip /\ cursor' = cursor + 1 /\ UNCHANGED phase
      BY <1>1, <2>1, <2>2 DEF Skip, PlanInvariant, TypeOK, Bought, Eligible
    <2>3. CASE /\ Fits(ranked[cursor]) /\ Select(cursor)
               /\ sellers' = sellers \cup {ranked[cursor].seller}
               /\ \/ phase' = "remaining" /\ cursor' = 1
                  \/ cursor' = cursor + 1 /\ UNCHANGED phase
      <3>1. ranked[cursor].seller \in Sellers \ {OwnAgent}
        <4>1. ranked[cursor] \in Listing
          BY <1>1, <2>1
        <4>2. Eligible(ranked[cursor])
          BY <2>1 DEF PlanInvariant
        <4>. QED BY <4>1, <4>2 DEF Eligible, Listing
      <3>2. /\ selected' \in Seq(1 .. Len(ranked)) /\ spent' \in Nat /\ spent' =< Budget
            /\ Bought' = Bought \cup {ranked[cursor].seller}
        BY <2>1, <2>3, SelectKeeps
      <3>. QED BY <1>1, <2>1, <2>3, <3>1, <3>2 DEF PlanInvariant, TypeOK, Eligible
    <2>. QED BY <1>3, <2>2, <2>3 DEF Diversify, Goto
  <1>4. CASE AddRemaining
    <2>1. UNCHANGED <<ranked, sellers>> /\ phase = "remaining" /\ cursor \in 1 .. Len(ranked)
      BY <1>1, <1>4 DEF AddRemaining, Skip
    <2>2. /\ phase' \in {"remaining", "repeats"}
          /\ cursor' \in 1 .. Len(ranked) + 1
      BY <1>1, <1>4, <2>1 DEF AddRemaining, Goto
    <2>3. CASE Skip
      BY <1>1, <2>1, <2>2, <2>3 DEF Skip, PlanInvariant, TypeOK, Bought, Eligible
    <2>4. CASE Fits(ranked[cursor]) /\ Select(cursor)
      <3>1. /\ selected' \in Seq(1 .. Len(ranked)) /\ spent' \in Nat /\ spent' =< Budget
            /\ Bought' = Bought \cup {ranked[cursor].seller}
        BY <2>1, <2>4, SelectKeeps
      <3>. QED BY <1>1, <2>1, <2>2, <3>1 DEF PlanInvariant, TypeOK, Eligible
    <2>. QED BY <1>4, <2>3, <2>4 DEF AddRemaining
  <1>5. CASE Repeat
    <2>1. UNCHANGED <<ranked, sellers, phase>> /\ phase = "repeats"
          /\ cursor \in 1 .. Len(ranked)
      BY <1>1, <1>5 DEF Repeat, Skip
    <2>2. CASE Skip /\ cursor' = cursor + 1
      BY <1>1, <2>1, <2>2 DEF Skip, PlanInvariant, TypeOK, Bought, Eligible
    <2>3. CASE Fits(ranked[cursor]) /\ Select(cursor) /\ UNCHANGED cursor
      <3>1. /\ selected' \in Seq(1 .. Len(ranked)) /\ spent' \in Nat /\ spent' =< Budget
            /\ Bought' = Bought \cup {ranked[cursor].seller}
        BY <2>1, <2>3, SelectKeeps
      <3>. QED BY <1>1, <2>1, <2>3, <3>1 DEF PlanInvariant, TypeOK, Eligible
    <2>. QED BY <1>5, <2>2, <2>3 DEF Repeat
  <1>6. CASE EndOfLoop
    <2>1. UNCHANGED <<ranked, selected, sellers, spent>> /\ cursor' = 1
      BY <1>6 DEF EndOfLoop, Skip, Goto
    <2>2. Bought' = Bought
      BY <2>1 DEF Bought
    <2>3. /\ phase' \in {"remaining", "repeats", "done", "error"}
          /\ phase' = "done" =>
               spent >= MinimumSpend /\ Cardinality(sellers) >= MinimumProducts
      <3>1. CASE phase' \in {"remaining", "repeats", "error"}
        BY <3>1
      <3>2. CASE phase' \notin {"remaining", "repeats", "error"}
        <4>1. /\ phase' = IF spent < MinimumSpend \/ Cardinality(sellers) < MinimumProducts
                          THEN "error" ELSE "done"
          BY <1>6, <3>2 DEF EndOfLoop, Goto
        <4>2. ~(spent < MinimumSpend) /\ ~(Cardinality(sellers) < MinimumProducts)
          BY <3>2, <4>1
        <4>3. Cardinality(sellers) \in Nat
          <5>1. IsFiniteSet(sellers)
            BY BoughtFinite, FS_Subset DEF PlanInvariant
          <5>. QED BY <5>1, FS_CardinalityType
        <4>. QED BY <4>1, <4>2, <4>3, PlanConstantsAssumption DEF PlanInvariant, TypeOK
      <3>. QED BY <3>1, <3>2
    <2>. QED BY <1>1, <2>1, <2>2, <2>3 DEF PlanInvariant, TypeOK, Eligible
  <1>7. CASE UNCHANGED planVars
    BY <1>7 DEF planVars, PlanInvariant, TypeOK, Bought, Eligible
  <1>. QED BY <1>2, <1>3, <1>4, <1>5, <1>6, <1>7 DEF Next, Finished

\* The invariant that carries the two theorems below.
THEOREM PlanInvariance == Spec => []PlanInvariant
  BY PlanInit, PlanStep, PTL DEF Spec

\* The plan under construction is well formed: every selected service is a
\* position of the ranking, and this agent's own listings are never bought.
THEOREM PlanTypeCorrect == Spec => []TypeOK
  <1>1. PlanInvariant => TypeOK
    BY DEF PlanInvariant
  <1>. QED BY <1>1, PlanInvariance, PTL

\* A plan that is returned spends between the floor and the budget, buys from
\* enough sellers, and only from reachable sellers other than this agent.
THEOREM ReturnedPlansAreValid == Spec => []PlanIsValid
  <1>1. ASSUME PlanInvariant, phase = "done" PROVE PlanIsValid
    <2>1. IsFiniteSet(Bought)
      BY <1>1, BoughtFinite
    <2>2. Cardinality(sellers) =< Cardinality(Bought) /\ IsFiniteSet(sellers)
      BY <1>1, <2>1, FS_Subset DEF PlanInvariant
    <2>3. Cardinality(sellers) \in Nat /\ Cardinality(Bought) \in Nat
      BY <2>1, <2>2, FS_CardinalityType
    <2>4. Cardinality(Bought) >= MinimumProducts
      BY <1>1, <2>2, <2>3, PlanConstantsAssumption DEF PlanInvariant
    <2>5. spent \in MinimumSpend .. Budget
      BY <1>1, PlanConstantsAssumption DEF PlanInvariant, TypeOK
    <2>6. \A i \in 1 .. Len(selected) :
            ranked[selected[i]].reachable /\ ranked[selected[i]].seller # OwnAgent
      BY <1>1 DEF PlanInvariant, TypeOK, Eligible
    <2>. QED BY <2>4, <2>5, <2>6 DEF PlanIsValid, Bought
  <1>2. PlanInvariant => PlanIsValid
    BY <1>1 DEF PlanIsValid
  <1>. QED BY <1>2, PlanInvariance, PTL
-----------------------------------------------------------------------------
(* `spent` is the cost of the services selected.                             *)

Quantities == [n \in 1 .. Len(ranked) |-> Count(n)]

\* f[n] is what the quantities of the first n services cost together.
Totals(f, quantity) ==
    /\ f[0] = 0
    /\ \A n \in 1 .. Len(ranked) : f[n] = f[n - 1] + quantity[n] * PriceOf(n)

\* The running total of the quantities selected so far ends in `spent`.
SpentIsExact ==
    \E f \in [0 .. Len(ranked) -> Nat] : Totals(f, Quantities) /\ f[Len(ranked)] = spent

\* Two running totals of the same quantities agree: at the first position where they
\* did not, they would agree on the one before.
LEMMA TotalsUnique ==
  ASSUME ranked \in Seq(Listing), NEW quantity, NEW f, NEW g,
         Totals(f, quantity), Totals(g, quantity)
  PROVE  \A n \in 0 .. Len(ranked) : f[n] = g[n]
  <1>. DEFINE T == {n \in 0 .. Len(ranked) : f[n] # g[n]}
  <1>. SUFFICES ASSUME T # {} PROVE FALSE
    OBVIOUS
  <1>1. T \subseteq Nat /\ Len(ranked) \in Nat
    OBVIOUS
  <1>. HIDE DEF T
  <1>2. PICK n \in T : \A m \in T : <<m, n>> \notin OpToRel(<, Nat)
    BY <1>1, NatLessThanWellFounded, WFMin
  <1>3. n \in 0 .. Len(ranked) /\ f[n] # g[n]
    BY <1>2 DEF T
  <1>4. n # 0
    BY <1>3 DEF Totals
  <1>5. n - 1 \in 0 .. Len(ranked) /\ <<n - 1, n>> \in OpToRel(<, Nat)
    BY <1>1, <1>3, <1>4 DEF OpToRel
  <1>6. f[n - 1] = g[n - 1]
    BY <1>2, <1>5 DEF T
  <1>. QED BY <1>1, <1>3, <1>4, <1>6 DEF Totals

\* The recursive function of Cost is such a running total.
LEMMA CostIsTotal ==
  ASSUME ranked \in Seq(Listing), NEW quantity,
         NEW f \in [0 .. Len(ranked) -> Nat], Totals(f, quantity)
  PROVE  Cost(quantity) = f[Len(ranked)]
  <1>. DEFINE ValueAt(h, n) == IF n = 0 THEN 0 ELSE h[n - 1] + quantity[n] * PriceOf(n)
              Recursion(h) == h = [n \in 0 .. Len(ranked) |-> ValueAt(h, n)]
              from == CHOOSE h : Recursion(h)
  <1>1. Cost(quantity) = from[Len(ranked)]
    BY DEF Cost
  <1>2. Len(ranked) \in Nat
    OBVIOUS
  <1>3. Recursion(f)
    BY <1>2 DEF Totals
  <1>4. Recursion(from)
    BY <1>3
  <1>. HIDE DEF from
  <1>5. Totals(from, quantity)
    BY <1>2, <1>4 DEF Totals
  <1>6. from[Len(ranked)] = f[Len(ranked)]
    BY <1>2, <1>5, TotalsUnique
  <1>. QED BY <1>1, <1>6

\* A price is a natural number.
LEMMA PriceIsNat == ASSUME TypeOK PROVE \A n \in 1 .. Len(ranked) : PriceOf(n) \in Nat
  <1>. TAKE n \in 1 .. Len(ranked)
  <1>1. ranked[n] \in Listing
    BY DEF TypeOK
  <1>2. ranked[n].price \in Prices
    BY <1>1 DEF Listing
  <1>. QED BY <1>2, PlanConstantsAssumption DEF PriceOf

\* A quantity is a natural number.
LEMMA CountIsNat ==
  ASSUME TypeOK, NEW n
  PROVE  Count(n) \in Nat
  <1>0. IsFiniteSet(1 .. Len(selected))
    BY FS_Interval DEF TypeOK
  <1>1. IsFiniteSet({i \in 1 .. Len(selected) : selected[i] = n})
    BY <1>0, FS_Subset
  <1>. QED BY <1>1, FS_CardinalityType DEF Count

\* Selecting a service adds one to its quantity and to no other.
LEMMA SelectCounts ==
  ASSUME TypeOK, NEW k \in 1 .. Len(ranked), Select(k), UNCHANGED ranked
  PROVE  \A n \in 1 .. Len(ranked) : Count(n)' = Count(n) + (IF n = k THEN 1 ELSE 0)
  <1>. TAKE n \in 1 .. Len(ranked)
  <1>. DEFINE before == {i \in 1 .. Len(selected) : selected[i] = n}
              after == {i \in 1 .. Len(selected') : selected'[i] = n}
              new == Len(selected) + 1
  <1>1. /\ Len(selected) \in Nat /\ Len(selected') = new /\ selected'[new] = k
        /\ \A i \in 1 .. Len(selected) : selected'[i] = selected[i]
    BY DEF Select, TypeOK
  <1>2. 1 .. Len(selected') = (1 .. Len(selected)) \cup {new}
    BY <1>1
  <1>3. new \notin before
    BY <1>1
  <1>4. after = IF n = k THEN before \cup {new} ELSE before
    BY <1>1, <1>2
  <1>5. IsFiniteSet(before)
    <2>1. IsFiniteSet(1 .. Len(selected))
      BY <1>1, FS_Interval
    <2>. QED BY <2>1, FS_Subset
  <1>6. Count(n) = Cardinality(before) /\ Count(n)' = Cardinality(after)
    BY DEF Count
  <1>. HIDE DEF before, after, new
  <1>7. Cardinality(before) \in Nat
    BY <1>5, FS_CardinalityType
  <1>8. CASE n = k
    <2>1. Cardinality(before \cup {new}) = Cardinality(before) + 1
      BY <1>3, <1>5, FS_AddElement
    <2>. QED BY <1>4, <1>6, <1>8, <2>1
  <1>9. CASE n # k
    BY <1>4, <1>6, <1>7, <1>9
  <1>. QED BY <1>8, <1>9

\* Selecting a service raises the running total by its price, from its position on.
LEMMA SelectAddsPrice ==
  ASSUME TypeOK, SpentIsExact, NEW k \in 1 .. Len(ranked), Select(k), UNCHANGED ranked
  PROVE  SpentIsExact'
  <1>1. PICK f \in [0 .. Len(ranked) -> Nat] :
          Totals(f, Quantities) /\ f[Len(ranked)] = spent
    BY DEF SpentIsExact
  <1>0. PICK g : g = [n \in 0 .. Len(ranked) |->
                       IF n >= k THEN f[n] + PriceOf(k) ELSE f[n]]
    OBVIOUS
  <1>2. Len(ranked) \in Nat /\ k \in Nat /\ 1 =< k /\ k =< Len(ranked)
    BY DEF TypeOK
  <1>3. \A n \in 1 .. Len(ranked) : PriceOf(n) \in Nat
    BY PriceIsNat
  <1>4. g \in [0 .. Len(ranked) -> Nat]
    BY <1>0, <1>2, <1>3
  <1>5. g[0] = 0
    BY <1>0, <1>1, <1>2 DEF Totals
  <1>6. ASSUME NEW n \in 1 .. Len(ranked)
        PROVE  g[n] = g[n - 1] + Count(n)' * PriceOf(n)
    <2>1. n \in Nat /\ n >= 1 /\ n - 1 \in 0 .. Len(ranked) /\ n \in 0 .. Len(ranked)
      BY <1>2
    <2>2. f[n] \in Nat /\ f[n - 1] \in Nat
      BY <2>1
    <2>3. f[n] = f[n - 1] + Count(n) * PriceOf(n)
      BY <1>1 DEF Totals, Quantities
    <2>4. Count(n) \in Nat /\ PriceOf(n) \in Nat /\ PriceOf(k) \in Nat
      BY <1>3, CountIsNat
    <2>5. Count(n)' = Count(n) + (IF n = k THEN 1 ELSE 0)
      BY SelectCounts
    <2>6. CASE n = k
      <3>1. g[n] = f[n] + PriceOf(n) /\ g[n - 1] = f[n - 1]
        BY <1>0, <1>2, <2>1, <2>6
      <3>2. Count(n)' * PriceOf(n) = Count(n) * PriceOf(n) + PriceOf(n)
        BY <2>4, <2>5, <2>6
      <3>3. Count(n) * PriceOf(n) \in Nat
        BY <2>4
      <3>. QED BY <2>2, <2>3, <2>4, <3>1, <3>2, <3>3
    <2>7. CASE n < k
      <3>1. g[n] = f[n] /\ g[n - 1] = f[n - 1]
        BY <1>0, <1>2, <2>1, <2>7
      <3>. QED BY <1>2, <2>1, <2>3, <2>4, <2>5, <2>7, <3>1
    <2>8. CASE n > k
      <3>1. g[n] = f[n] + PriceOf(k) /\ g[n - 1] = f[n - 1] + PriceOf(k)
        BY <1>0, <1>2, <2>1, <2>8
      <3>2. Count(n)' = Count(n)
        BY <1>2, <2>1, <2>4, <2>5, <2>8
      <3>3. Count(n) * PriceOf(n) \in Nat
        BY <2>4
      <3>. QED BY <2>2, <2>3, <2>4, <3>1, <3>2, <3>3
    <2>. QED BY <1>2, <2>1, <2>6, <2>7, <2>8
  <1>7. Totals(g, Quantities)'
    BY <1>5, <1>6 DEF Totals, Quantities, PriceOf
  <1>8. g[Len(ranked)] = spent'
    BY <1>0, <1>1, <1>2 DEF Select, PriceOf
  <1>9. ranked' = ranked
    OBVIOUS
  <1>10. g \in [0 .. Len(ranked') -> Nat] /\ g[Len(ranked')] = spent'
    BY <1>4, <1>8, <1>9
  <1>. QED BY <1>7, <1>10 DEF SpentIsExact

\* The empty plan costs nothing.
LEMMA SpentInit == Init => SpentIsExact
  <1>. SUFFICES ASSUME Init PROVE SpentIsExact
    OBVIOUS
  <1>. DEFINE f == [n \in 0 .. Len(ranked) |-> 0]
  <1>1. TypeOK
    BY PlanInit DEF PlanInvariant
  <1>2. Len(ranked) \in Nat /\ \A n \in 1 .. Len(ranked) : PriceOf(n) \in Nat
    BY <1>1, PriceIsNat DEF TypeOK
  <1>3. \A n \in 1 .. Len(ranked) : Count(n) = 0
    <2>1. \A n : {i \in 1 .. Len(selected) : selected[i] = n} = {}
      BY DEF Init
    <2>. QED BY <2>1, FS_EmptySet DEF Count
  <1>4. Totals(f, Quantities)
    BY <1>2, <1>3 DEF Totals, Quantities
  <1>5. f \in [0 .. Len(ranked) -> Nat] /\ f[Len(ranked)] = spent
    BY <1>2 DEF Init
  <1>. QED BY <1>4, <1>5 DEF SpentIsExact

\* A service is only ever selected by Select, which raises the total.
LEMMA SpentStep == TypeOK /\ SpentIsExact /\ [Next]_planVars => SpentIsExact'
  <1>. SUFFICES ASSUME TypeOK, SpentIsExact, [Next]_planVars PROVE SpentIsExact'
    OBVIOUS
  <1>1. cursor \in Nat /\ cursor >= 1 /\ Len(ranked) \in Nat
    BY DEF TypeOK
  <1>2. CASE UNCHANGED <<ranked, selected, spent>>
    BY <1>2 DEF SpentIsExact, Totals, Quantities, Count, PriceOf
  <1>3. CASE cursor \in 1 .. Len(ranked) /\ Select(cursor) /\ UNCHANGED ranked
    BY <1>3, SelectAddsPrice
  <1>4. CASE Check
    BY <1>2, <1>4 DEF Check, Skip
  <1>5. CASE Diversify
    BY <1>1, <1>2, <1>3, <1>5 DEF Diversify, Skip
  <1>6. CASE AddRemaining
    BY <1>1, <1>2, <1>3, <1>6 DEF AddRemaining, Skip
  <1>7. CASE Repeat
    BY <1>1, <1>2, <1>3, <1>7 DEF Repeat, Skip
  <1>8. CASE EndOfLoop
    BY <1>2, <1>8 DEF EndOfLoop, Skip
  <1>9. CASE UNCHANGED planVars
    BY <1>2, <1>9 DEF planVars
  <1>. QED BY <1>4, <1>5, <1>6, <1>7, <1>8, <1>9 DEF Next, Finished

\* At every point of the three loops `spent` is exactly what the selected services
\* cost together, each price times its quantity, and stays within the budget.
THEOREM SpentWithinBudget == Spec => []NeverOverBudget
  <1>1. TypeOK /\ SpentIsExact => spent = Cost(Quantities)
    <2>. SUFFICES ASSUME TypeOK, SpentIsExact PROVE spent = Cost(Quantities)
      OBVIOUS
    <2>1. PICK f \in [0 .. Len(ranked) -> Nat] :
            Totals(f, Quantities) /\ f[Len(ranked)] = spent
      BY DEF SpentIsExact
    <2>2. ranked \in Seq(Listing)
      BY DEF TypeOK
    <2>. QED BY <2>1, <2>2, CostIsTotal
  <1>2. PlanInvariant /\ SpentIsExact => NeverOverBudget
    BY <1>1 DEF PlanInvariant, NeverOverBudget, Quantities
  <1>3. PlanInvariant => TypeOK
    BY DEF PlanInvariant
  <1>4. Init => SpentIsExact
    BY SpentInit
  <1>5. TypeOK /\ SpentIsExact /\ [Next]_planVars => SpentIsExact'
    BY SpentStep
  <1>. QED BY <1>2, <1>3, <1>4, <1>5, PlanInvariance, PTL DEF Spec

-----------------------------------------------------------------------------
(* The loops cannot go on for ever.                                          *)

PhasesLeft ==
    [check |-> 4, diversity |-> 3, remaining |-> 2, repeats |-> 1, done |-> 0, error |-> 0]

\* What is left to do: phases, then credits, then listings.
WorkLeft == <<PhasesLeft[phase], Budget - spent, Len(ranked) + 1 - cursor>>

\* The lexicographic order of triples of numbers.
Less(x, y) ==
    \/ x[1] < y[1]
    \/ x[1] = y[1] /\ x[2] < y[2]
    \/ x[1] = y[1] /\ x[2] = y[2] /\ x[3] < y[3]

\* An iteration either enters a later phase, or spends, or moves to the next listing.
LEMMA IterationAdvances ==
  ASSUME PlanInvariant, Next, ~Finished
  PROVE  Less(WorkLeft', WorkLeft)
  <1>1. /\ cursor \in Nat /\ cursor >= 1 /\ Len(ranked) \in Nat
        /\ spent \in Nat /\ Budget \in Nat
    BY PlanConstantsAssumption DEF PlanInvariant, TypeOK
  <1>. DEFINE Enters == ranked' = ranked /\ PhasesLeft[phase'] < PhasesLeft[phase]
              Spends == /\ cursor \in 1 .. Len(ranked) /\ Select(cursor)
                        /\ phase' = phase /\ ranked' = ranked
              Moves == phase' = phase /\ ranked' = ranked /\ spent' = spent /\ cursor' = cursor + 1
  <1>2. CASE Enters
    BY <1>2 DEF Less, WorkLeft
  <1>3. CASE Spends
    <2>1. ranked[cursor] \in Listing
      BY <1>3 DEF PlanInvariant, TypeOK
    <2>2. ranked[cursor].price \in Nat \ {0}
      BY <2>1, PlanConstantsAssumption DEF Listing
    <2>3. spent' = spent + ranked[cursor].price
      BY <1>3 DEF Select
    <2>4. phase' = phase
      BY <1>3
    <2>. QED BY <1>1, <2>2, <2>3, <2>4 DEF Less, WorkLeft
  <1>4. CASE Moves
    BY <1>1, <1>4 DEF Less, WorkLeft
  <1>5. CASE Check
    BY <1>2, <1>5 DEF Check, Goto, PhasesLeft
  <1>6. CASE Diversify
    <2>1. phase = "diversity" /\ cursor \in 1 .. Len(ranked) /\ ranked' = ranked
      BY <1>1, <1>6 DEF Diversify
    <2>2. phase' = "remaining" => Enters
      BY <2>1 DEF PhasesLeft
    <2>. QED BY <1>2, <1>3, <1>4, <1>6, <2>1, <2>2 DEF Diversify, Goto, Skip
  <1>7. CASE AddRemaining
    <2>1. phase = "remaining" /\ cursor \in 1 .. Len(ranked) /\ ranked' = ranked
      BY <1>1, <1>7 DEF AddRemaining
    <2>2. phase' = "repeats" => Enters
      BY <2>1 DEF PhasesLeft
    <2>3. CASE Skip
      BY <1>2, <1>4, <1>7, <2>1, <2>2, <2>3 DEF AddRemaining, Goto, Skip
    <2>4. CASE Select(cursor)
      BY <1>2, <1>3, <1>7, <2>1, <2>2, <2>4 DEF AddRemaining, Goto
    <2>. QED BY <1>7, <2>3, <2>4 DEF AddRemaining
  <1>8. CASE Repeat
    <2>1. phase = "repeats" /\ cursor \in 1 .. Len(ranked) /\ ranked' = ranked /\ phase' = phase
      BY <1>1, <1>8 DEF Repeat
    <2>. QED BY <1>3, <1>4, <1>8, <2>1 DEF Repeat, Skip
  <1>9. CASE EndOfLoop
    BY <1>2, <1>9 DEF EndOfLoop, Goto, Skip, PhasesLeft
  <1>. QED BY <1>5, <1>6, <1>7, <1>8, <1>9 DEF Next

\* Every iteration of the three loops, the `while` of the repeats included, leaves less
\* to do, and what is left is counted in natural numbers: the loops cannot go on for
\* ever, whatever the prices are.  With the fairness of FairSpec this is why they end.
THEOREM IterationsAdvance ==
  Spec => [][(WorkLeft \in Nat \X Nat \X Nat) /\ (Finished \/ Less(WorkLeft', WorkLeft))]_planVars
  <1>1. PlanInvariant => WorkLeft \in Nat \X Nat \X Nat
    <2>. SUFFICES ASSUME PlanInvariant PROVE WorkLeft \in Nat \X Nat \X Nat
      OBVIOUS
    <2>1. PhasesLeft[phase] \in Nat
      BY DEF PlanInvariant, TypeOK, PhasesLeft
    <2>2. Budget - spent \in Nat /\ Len(ranked) + 1 - cursor \in Nat
      BY PlanConstantsAssumption DEF PlanInvariant, TypeOK
    <2>. QED BY <2>1, <2>2 DEF WorkLeft
  <1>2. PlanInvariant /\ [Next]_planVars =>
          [(WorkLeft \in Nat \X Nat \X Nat) /\ (Finished \/ Less(WorkLeft', WorkLeft))]_planVars
    BY <1>1, IterationAdvances
  <1>. QED BY <1>2, PlanInvariance, PTL DEF Spec
=============================================================================
