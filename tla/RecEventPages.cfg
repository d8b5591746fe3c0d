SPECIFICATION FundingSpec
CONSTANTS
  i1 = i1
  i2 = i2
  w1 = w1
  w2 = w2
  h1 = h1
  h2 = h2
  d1 = d1
  d2 = d2
  None = None
  Anonymous = Anonymous
  Unbound = Unbound
  MaxAttempts = 3
  Intents = {i1, i2}
  Wallets = {w1}
  Hashes = {h1, h2}
  Requests = {r1}
  Workers = {w1}
  TxIntent <- OneEach
  TxWallet <- SameWallet
  TxPrincipal <- OwnSession
  Expiry <- SoonExpired
  EventName <- RowNames
  ReportAttempts = 1
  EventLimit = 1
  MaxLedger = 1
  MaxThrows = 0
  MaxRpcFaults = 0
  Nothing = Nothing
  Transfers = {t1, t2}
  Keys = {k1}
  Ticks = {s1, s2}
  MaxVisits = 2
  RpcLags = FALSE
  Nowhere = Nowhere
  Openings = {s1, s2}
  HostedTransfers = {o1}
  MaxReads = 2
  MaxUpsets = 1
SYMMETRY FundingSymmetry
INVARIANTS
  
  SentMeansPaid

  
  
