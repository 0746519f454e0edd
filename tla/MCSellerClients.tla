--------------------------- MODULE MCSellerClients ---------------------------
(* Instance of SellerClients for TLC.                                        *)
EXTENDS SellerClients, TLC

CONSTANTS e1, e2, e3, e4, h1, h2, b1, b2, s1, k1, k2, c1, c2, buyer1, buyer2

Ev(key, content) == [key |-> key, content |-> content]

\* Events with an id of their own keep their identity when their content changes;
\* the harness's have none, and get another one.
Batch1 == <<Ev(e1, h1)>>
Batch2 == <<Ev(e2, h1)>>
Contrary == <<Ev(e1, h2), Ev(e2, h1)>>
Changed1 == <<Ev(e3, h1)>>
Changed2 == <<Ev(e4, h1)>>
MCBatches == {Batch1, Batch2, Contrary, Changed1, Changed2}

Wants(buyer, key, budget, input, changed) ==
    [buyer |-> buyer, service |-> s1, budget |-> budget, key |-> key,
     input |-> input, changed |-> changed]

\* Two orders of one buyer whose events contradict each other, the second on a budget
\* of the floor price; two buyers of the harness with events of their own.
MCJob ==
    (c1 :> Wants(b1, k1, 6, Batch1, Batch1)) @@ (c2 :> Wants(b1, k2, 5, Contrary, Contrary)) @@
    (buyer1 :> Wants(b1, k1, 6, Batch1, Changed1)) @@ (buyer2 :> Wants(b2, k2, 5, Batch2, Changed2))
=============================================================================
