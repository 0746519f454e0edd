\* Every list of up to four listings, in every order.
CONSTANTS
  Sellers <- FourSellers
  OwnAgent = "me"
  Prices <- SomePrices
  MaxListings = 4
  Budget = 100
  MinimumSpend = 80
  MinimumProducts = 3
SPECIFICATION FairSpec
INVARIANTS NeverOverBudget PlanIsValid
PROPERTIES PlanningEnds
