SPECIFICATION CsFairSpec
CONSTANTS
  Customers = {c1, c2}
  Counters = {m1}
  Slots = {r1, r2}
  MaxPosts = 2
  MaxTaps = 1
  None = None
INVARIANTS
  CsInv
  OneCustomerProceeds
  CollectedNamesCollector
PROPERTIES
  ImplementsHandover
  ClaimIsSigned
CHECK_DEADLOCK FALSE
