----------------------------- MODULE MCMarketPlan -----------------------------
\* Instances of MarketPlan for TLC.  Every price differs from every other by
\* less than a factor of 2.9, so each order of the listings is one the sort can
\* produce.
EXTENDS MarketPlan

FourSellers == {"me", "a", "b", "c"}
SomePrices == {20, 27, 40, 52}
=============================================================================
