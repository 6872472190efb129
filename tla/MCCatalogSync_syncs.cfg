SPECIFICATION CatalogSpec
CONSTANTS
  Prices = {1, 2, 3}
  TooSmall = {1}
  Providers = {stripe, paystack}
  Default = stripe
  Rotating = {stripe}
  Bare = {paystack}
  None = None
  Actors = {a1, a2}
  MaxObjects = 3
  MaxStarts = 4
  MaxMishaps = 1
INVARIANTS PricedAsListed SoldWasLinked
SYMMETRY Alike
CHECK_DEADLOCK FALSE
