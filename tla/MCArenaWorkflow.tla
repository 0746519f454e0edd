--------------------------- MODULE MCArenaWorkflow ---------------------------
\* Instances of ArenaWorkflow for TLC.
EXTENDS ArenaWorkflowInvariant, TLC

CONSTANT t0   \* a trade of an earlier run

TwoServices == {"s1", "s2"}
TwoSellers == {"a", "b"}
TwoAmounts == {40, 41}

Buy(service, seller, price) == [service |-> service, seller |-> seller, price |-> price]
Found(targets, plan) == [targets |-> targets, plan |-> plan]

\* Two purchases that together meet a floor of 80 credits.
TwoPurchases == {Found(<<>>, <<Buy("s1", "a", 40), Buy("s2", "b", 40)>>)}
\* A second discovery ranks the same two listings the other way round.
TwoRankings ==
    {Found(<<>>, <<Buy("s1", "a", 40), Buy("s2", "b", 40)>>),
     Found(<<>>, <<Buy("s2", "b", 40), Buy("s1", "a", 40)>>)}
\* A second discovery asks one credit more for s1.
MovingPrice == TwoPurchases \cup {Found(<<>>, <<Buy("s1", "a", 41), Buy("s2", "b", 40)>>)}

NoFaults == {}
AllFaults == Faults

\* Two sellers to try and to buy from; or none within reach of either round.
FullDiscoveries ==
    {Found(<<"a", "b">>, <<Buy("s1", "a", 40), Buy("s2", "b", 40)>>),
     Found(<<"a", "b">>, <<>>),
     Found(<<>>, <<>>)}

\* The progress of no earlier run, of one that bought s1, of one that tried a.
NoProgress ==
    [tried |-> {}, critiqued |-> {}, ranked |-> FALSE,
     receipts |-> {}, spent |-> 0, purchased |-> {}]
BoughtBefore ==
    [NoProgress EXCEPT
       !.receipts = {[trade |-> t0, service |-> "s1", seller |-> "a",
                      amount |-> 40, status |-> "paid"]},
       !.spent = 40, !.purchased = {"a"}]
TriedBefore == [NoProgress EXCEPT !.tried = {"a"}, !.critiqued = {"a"}, !.ranked = TRUE]
EmptyOrBought == {NoProgress, BoughtBefore}
JustTried == {TriedBefore}
NoneCarried == {}
OnlyMarket == {"market"}
EveryMode == RunModes
=============================================================================
