---------------------------- MODULE MCSellerApi ----------------------------
(* Instances of SellerApi for TLC.                                         *)
EXTENDS SellerApi

CONSTANTS e1, e2, h1, h2

Ev(key, content) == [key |-> key, content |-> content]

\* One event; the same with other content; a clean event beside a conflicting one;
\* a list in conflict with itself.
MCBatches == {<<Ev(e1, h1)>>, <<Ev(e1, h2), Ev(e2, h1)>>, <<Ev(e1, h1), Ev(e1, h2)>>}

\* One clean event: the run is about prices.
MCBatch == {<<Ev(e1, h1)>>}
=============================================================================
