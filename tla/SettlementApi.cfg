SPECIFICATION AccountsSpec
CONSTANTS
  Intents = {i1, i2}
  Wallets = {w1, w2}
  Hashes = {h1, h2}
  Requests = {r1, r2}
  MaxAttempts = 3
  None = None
  Anonymous = Anonymous
  Unbound = Unbound
  People = {p1}
  Keys = {w1, w2}
  Jobs = {r1, r2}
  MaxUpsets = 1
  Absent = Absent
  SmartWallets = {w1, w2}
  Points = {t1, t2, c1, c2}
  Setups = {r1, r2}
  OneHandle = TRUE
  Phones = {t1, t2}
  Credentials = {c1, c2}
  KeyHanded = {FALSE, TRUE}
  NoWallet = NoWallet
  NoPoint = NoPoint
SYMMETRY AccountsSymmetry
INVARIANTS
  SwapWritesFreshRow
  SubmitAnswerIsRecorded
  AuthorizerRecordedFirst
  
  StoredWalletObeys
  
PROPERTIES
  ImplementsBook
  ErasedKeysAreGone
