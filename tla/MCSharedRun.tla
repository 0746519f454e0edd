----------------------------- MODULE MCSharedRun -----------------------------
\* Instances of SharedRun for TLC: two invocations in one process or in two, a
\* plan of two purchases.
EXTENDS SharedRun

CONSTANTS k1, k2, i1, i2, r1, r2, c1, c2, p1, p2

TwoKeys == {k1, k2}
TwoIntents == {i1, i2}
TwoReceipts == {r1, r2}
TwoConnections == {c1, c2}
TwoProcesses == {p1, p2}
Intended == [k \in TwoKeys |-> IF k = k1 THEN i1 ELSE i2]
Settled == [k \in TwoKeys |-> IF k = k1 THEN r1 ELSE r2]
TwoPurchases == <<k1, k2>>
OnePurchase == <<k1>>
=============================================================================
