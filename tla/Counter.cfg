SPECIFICATION CounterSpec
CONSTANTS
  Customers = {c1, c2}
  Requests = {q1, q2}
  Terms = {AsShown, Altered}
  AsShown = AsShown
  MaxAttempts = 2
  Nothing = Nothing
  offer = offer
  result = result
  payer = payer
  approval = approval
  Silence = Silence
  Broadcasts = {q1, q2}
  MerchantWords = {offer, result}
  CustomerWords = {payer, approval}
  KindOf <- Kind
  SizeOf <- Size
  Platforms <- EveryPair
  Room = 1
  MaxChanges = 2
  MaxUpsets = 1
SYMMETRY CounterSymmetry
INVARIANTS
  ReceiptIsTrue
  
  
  ServedIsWanted
  AnswersArrive
CHECK_DEADLOCK FALSE
