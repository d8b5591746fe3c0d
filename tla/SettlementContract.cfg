SPECIFICATION ContractsSpec
CONSTANTS
  m1 = m1
  m2 = m2
  buyer = buyer
  shop = shop
  usd = usd
  xlm = xlm
  id1 = id1
  id2 = id2
  None = None
  Merchants = {m1, m2}
  Keys = {k1, k2}
  Accounts = {buyer, shop}
  Tokens = {usd, xlm}
  Ids = {id1, id2}
  Intents <- AllIntents
  Funds <- SomeFunds
  FirstAsset = usd
  Limits = {0, 2}
  Prices = {1, 3}
  MaxLedger = 3
  MaxEvents = 2
  SmartWallets = {w1}
  Points = {p1, p2, p3}
  NoPoint = NoPoint
SYMMETRY KeySymmetry
INVARIANTS
  ScInv
  BalancesExplained
  SwInv
  PaymentsBySigners
PROPERTIES
  ImplementsLedger
  
