SPECIFICATION PurchaseFairSpec
CONSTANTS
  p1 = p1
  p2 = p2
  p3 = p3
  Payments = {p1, p2, p3}
  Systems = {"tokens", "images"}
  SystemOf <- MCSystemOf
  PackCredits = 1
  MaxQuantity = 1
  Deliveries = {d1, d2}
  NoPayment = NoPayment
  Mishaps = {"die", "raise"}
  MaxMishaps = 2
  MaxRepeats = 1
  MaxSpend = 1
INVARIANTS NoCreditLost WithinPaid
PROPERTY PaidIsCompleted
CHECK_DEADLOCK FALSE
