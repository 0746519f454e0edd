\* Greedy choice gives up although a valid plan exists.
CONSTANTS
  Sellers <- FourSellers
  OwnAgent = "me"
  Prices <- SomePrices
  MaxListings = 4
  Budget = 100
  MinimumSpend = 80
  MinimumProducts = 3
SPECIFICATION Spec
INVARIANTS ErrorMeansNoPlan
