------------------------------ MODULE MarketPlan ------------------------------
(***************************************************************************)
(* MarketStrategy.plan_purchases (strategy.py): the greedy choice of what  *)
(* to buy with the 100 credits of the Market round.  One action per        *)
(* iteration of its three loops.  A service is a position in `ranked`, the *)
(* eligible listings in the order the sort leaves them; the sort key       *)
(* (expected value per credit) orders two listings either way as long as   *)
(* their prices differ by less than a factor of 2.9, so Init takes every   *)
(* order.                                                                  *)
(***************************************************************************)
EXTENDS Integers, Sequences, FiniteSets

CONSTANTS
    Sellers,             \* owners of listings
    OwnAgent,            \* own_agent_id, whose listings are not eligible
    Prices,              \* prices of listings, 1..100 in models.py
    MaxListings,         \* bound: listings one discovery returns
    Budget,              \* 100
    MinimumSpend,        \* 80
    MinimumProducts      \* 3

ASSUME PlanConstantsAssumption ==
    /\ OwnAgent \in Sellers
    /\ Prices \subseteq Nat \ {0}
    /\ {MaxListings, Budget, MinimumSpend, MinimumProducts} \subseteq Nat
    /\ MinimumSpend =< Budget

Listing == [seller : Sellers, price : Prices, reachable : BOOLEAN]

VARIABLES
    ranked,      \* eligible listings, best value first
    selected,    \* services selected so far, in purchase order
    sellers,     \* selected_sellers
    spent,
    phase,       \* the loop being executed
    cursor       \* the listing that loop looks at

planVars == <<ranked, selected, sellers, spent, phase, cursor>>

\* Mutant: unreachable listings stay in.
EligibleUnreachable(listing) == listing.seller # OwnAgent /\ listing.price =< Budget

Eligible(listing) ==
    /\ listing.reachable
    /\ listing.seller # OwnAgent
    /\ listing.price =< Budget

Init ==
    /\ \E n \in 0 .. MaxListings :
         ranked \in [1 .. n -> {listing \in Listing : Eligible(listing)}]
    /\ selected = <<>> /\ sellers = {} /\ spent = 0
    /\ phase = "check" /\ cursor = 1

\* Mutant: the budget is compared before the price is added.
FitsBefore(listing) == spent =< Budget /\ listing.price =< Budget

Fits(listing) == spent + listing.price =< Budget

\* selected.append(...); spent += item.price
Select(service) ==
    /\ selected' = Append(selected, service)
    /\ spent' = spent + ranked[service].price

Skip == UNCHANGED <<selected, sellers, spent>>

Goto(next) == phase' = next /\ cursor' = 1

-----------------------------------------------------------------------------
Check ==
    /\ phase = "check"
    /\ Goto(IF Cardinality({ranked[i].seller : i \in 1 .. Len(ranked)}) < MinimumProducts
            THEN "error" ELSE "diversity")
    /\ Skip /\ UNCHANGED ranked

\* First the best affordable listing of each new seller, up to three sellers.
Diversify ==
    /\ phase = "diversity" /\ cursor =< Len(ranked)
    /\ LET item == ranked[cursor] IN
       IF item.seller \in sellers \/ ~Fits(item)
       THEN Skip /\ cursor' = cursor + 1 /\ UNCHANGED phase
       ELSE /\ Select(cursor)
            /\ sellers' = sellers \cup {item.seller}
            /\ IF Cardinality(sellers') >= MinimumProducts
               THEN Goto("remaining")
               ELSE cursor' = cursor + 1 /\ UNCHANGED phase
    /\ UNCHANGED ranked

Chosen(service) == \E i \in 1 .. Len(selected) : selected[i] = service

\* Then services not selected yet, until the floor is met.  selected_sellers is
\* not updated here.
AddRemaining ==
    /\ phase = "remaining" /\ cursor =< Len(ranked)
    /\ IF spent >= MinimumSpend
       THEN Skip /\ Goto("repeats")
       ELSE /\ IF ~Chosen(cursor) /\ Fits(ranked[cursor])
               THEN Select(cursor) /\ UNCHANGED sellers
               ELSE Skip
            /\ cursor' = cursor + 1 /\ UNCHANGED phase
    /\ UNCHANGED ranked

\* Mutant: the inner while does not test the floor and never moves on.
RepeatForever ==
    /\ phase = "repeats" /\ cursor =< Len(ranked)
    /\ spent < MinimumSpend
    /\ IF Fits(ranked[cursor])
       THEN Select(cursor) /\ UNCHANGED <<sellers, phase, cursor>>
       ELSE Skip /\ UNCHANGED <<phase, cursor>>
    /\ UNCHANGED ranked

\* Then repeats: the inner while buys one service as long as it fits.
Repeat ==
    /\ phase = "repeats" /\ cursor =< Len(ranked)
    /\ spent < MinimumSpend
    /\ IF Fits(ranked[cursor])
       THEN Select(cursor) /\ UNCHANGED <<sellers, phase, cursor>>
       ELSE Skip /\ cursor' = cursor + 1 /\ UNCHANGED phase
    /\ UNCHANGED ranked

EndOfLoop ==
    /\ \/ phase = "diversity" /\ cursor > Len(ranked) /\ Goto("remaining")
       \/ phase = "remaining" /\ cursor > Len(ranked) /\ Goto("repeats")
       \/ /\ phase = "repeats"
          /\ cursor > Len(ranked) \/ spent >= MinimumSpend
          /\ Goto(IF spent < MinimumSpend \/ Cardinality(sellers) < MinimumProducts
                  THEN "error" ELSE "done")
    /\ Skip /\ UNCHANGED ranked

Finished == phase \in {"done", "error"} /\ UNCHANGED planVars

Next == Check \/ Diversify \/ AddRemaining \/ Repeat \/ EndOfLoop \/ Finished

Spec == Init /\ [][Next]_planVars
FairSpec == Spec /\ WF_planVars(Next)

-----------------------------------------------------------------------------
(* Properties.                                                               *)

PriceOf(service) == ranked[service].price
Count(service) == Cardinality({i \in 1 .. Len(selected) : selected[i] = service})

\* Sum of price * quantity over the services from n up, as a recursive function.
Cost(quantity) ==
    LET from[n \in 0 .. Len(ranked)] ==
          IF n = 0 THEN 0 ELSE from[n - 1] + quantity[n] * PriceOf(n)
    IN from[Len(ranked)]

SellersOf(quantity) == {ranked[n].seller : n \in {m \in DOMAIN quantity : quantity[m] > 0}}

\* The variables hold values of the program's types.
TypeOK ==
    /\ ranked \in Seq(Listing)
    /\ selected \in Seq(1 .. Len(ranked))
    /\ sellers \subseteq Sellers \ {OwnAgent}
    /\ spent \in Nat
    /\ phase \in {"check", "diversity", "remaining", "repeats", "done", "error"}
    /\ cursor \in 1 .. Len(ranked) + 1

\* At every point of the three loops `spent` is what the selected services cost
\* together and stays within the 100 credits (strategy.py:202, 214, 223, 238).
NeverOverBudget ==
    /\ spent = Cost([n \in 1 .. Len(ranked) |-> Count(n)])
    /\ spent =< Budget

\* A returned plan can be executed and satisfies the Arena: it spends 80 to 100
\* credits, buys from three sellers other than this agent, all of them reachable
\* (strategy.py:163-256; "a value-seeking purchase plan that also satisfies the
\* Arena floor").
PlanIsValid ==
    phase = "done" =>
      /\ spent \in MinimumSpend .. Budget
      /\ Cardinality({ranked[selected[i]].seller : i \in 1 .. Len(selected)})
           >= MinimumProducts
      /\ \A i \in 1 .. Len(selected) :
           ranked[selected[i]].reachable /\ ranked[selected[i]].seller # OwnAgent

\* The loops end, the `while` of the repeats included.
PlanningEnds == <>(phase \in {"done", "error"})

\* "No valid plan" is raised only when there is none (strategy.py:252-255).
ValidQuantities ==
    {q \in [1 .. Len(ranked) -> 0 .. MinimumProducts] :
        /\ Cost(q) \in MinimumSpend .. Budget
        /\ Cardinality(SellersOf(q)) >= MinimumProducts}
ErrorMeansNoPlan == phase = "error" => ValidQuantities = {}
=============================================================================
