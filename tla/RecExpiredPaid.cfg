SPECIFICATION RecSpec
CONSTANTS
  i1 = i1
  i2 = i2
  w1 = w1
  w2 = w2
  h1 = h1
  h2 = h2
  d1 = d1
  d2 = d2
  None = None
  Anonymous = Anonymous
  Unbound = Unbound
  MaxAttempts = 3
  Intents = {i1}
  Wallets = {w1}
  Hashes = {h1}
  Requests = {r1}
  Workers = {k1}
  TxIntent <- OneIntent
  TxWallet <- SameWallet
  TxPrincipal <- OwnSession
  Expiry <- SoonExpired
  EventName <- DigestNames
  ReportAttempts = 1
  EventLimit = 1
  MaxLedger = 3
  MaxThrows = 0
  MaxRpcFaults = 0
INVARIANTS
  ExpiredMeansUnpaid
