----------------------- MODULE SettlementContractProofs -----------------------
(***************************************************************************)
(* The settlement contract spends an intent exactly when it pays it,       *)
(* settles none twice or late, and moves no token but by settlements, for  *)
(* any registry, intents and prices.                                       *)
(***************************************************************************)
EXTENDS SettlementContract, FiniteSetTheorems, TLAPS

USE ContractAssumption

-----------------------------------------------------------------------------
(* Sums.                                                                   *)

\* Induction up to n, with the set of the numbers that have the property: the
\* intervals that end in a number without it have no smallest member.
LEMMA Climb ==
  ASSUME NEW n \in Nat, NEW T, 0 \in T, \A k \in 1 .. n : k - 1 \in T => k \in T
  PROVE  n \in T
<1> DEFINE S == 0 .. n
           Missing == {0 .. k : k \in S \ T}
<1>1. SUFFICES ASSUME n \notin T PROVE FALSE
  OBVIOUS
<1>2. Missing \subseteq FiniteSubsetsOf(S) /\ Missing # {}
  <2>1. \A k \in S : 0 .. k \in SUBSET S
    OBVIOUS
  <2>2. Missing \subseteq SUBSET S
    BY <2>1
  <2>3. 0 .. n \in Missing
    BY <1>1
  <2>4. IsFiniteSet(S)
    BY FS_Interval
  <2> QED BY <2>2, <2>3, <2>4, FS_FiniteSubsetsOfFinite
<1>3. PICK m \in Missing : \A y \in Missing : <<y, m>> \notin StrictSubsetOrdering(S)
  <2> HIDE DEF Missing
  <2> QED BY <1>2, FS_StrictSubsetOrderingWellFounded, WFMin
<1>4. PICK k \in S \ T : m = 0 .. k
  BY <1>3
<1>5. k \in 1 .. n /\ k - 1 \in S \ T
  BY <1>4
<1>6. <<0 .. (k - 1), m>> \in StrictSubsetOrdering(S)
  <2>1. 0 .. (k - 1) \in SUBSET S /\ m \in SUBSET S /\ 0 .. (k - 1) \subseteq m
    BY <1>4, <1>5
  <2>2. k \in m /\ k \notin 0 .. (k - 1)
    BY <1>4, <1>5
  <2> QED BY <2>1, <2>2 DEF StrictSubsetOrdering
<1>7. 0 .. (k - 1) \in Missing
  BY <1>5
<1> QED BY <1>3, <1>6, <1>7

\* s lists the sums of the first 0, 1, ... n amounts.
Adds(s, d, n) == s[0] = 0 /\ \A k \in 1 .. n : s[k] = s[k - 1] + d[k]
Sums(s, d, n) == s \in [0 .. n -> Nat] /\ Adds(s, d, n)

LEMMA SumsExist ==
  ASSUME NEW n \in Nat, NEW d \in [1 .. n -> Nat]
  PROVE  \E s : Sums(s, d, n)
<1> DEFINE T == {m \in 0 .. n : \E s : Sums(s, d, m)}
<1>1. 0 \in T
  <2>1. Sums([m \in 0 .. 0 |-> 0], d, 0)
    BY DEF Sums, Adds
  <2> QED BY <2>1
<1>2. ASSUME NEW k \in 1 .. n, k - 1 \in T PROVE k \in T
  <2>1. PICK s : Sums(s, d, k - 1)
    BY <1>2
  <2> DEFINE t == [m \in 0 .. k |-> IF m = k THEN s[k - 1] + d[k] ELSE s[m]]
  <2>2. Sums(t, d, k)
    BY <2>1 DEF Sums, Adds
  <2> QED BY <2>2
<1>3. n \in T
  <2> HIDE DEF T
  <2> QED BY <1>1, <1>2, Climb
<1> QED BY <1>3

LEMMA SumsAgree ==
  ASSUME NEW n \in Nat, NEW c, NEW d, NEW s, NEW t, Adds(s, c, n), Adds(t, d, n),
         \A k \in 1 .. n : c[k] = d[k]
  PROVE  \A k \in 0 .. n : s[k] = t[k]
<1> DEFINE T == {m \in 0 .. n : \A k \in 0 .. m : s[k] = t[k]}
<1>1. 0 \in T
  BY DEF Adds
<1>2. ASSUME NEW k \in 1 .. n, k - 1 \in T PROVE k \in T
  BY <1>2 DEF Adds
<1>3. n \in T
  <2> HIDE DEF T
  <2> QED BY <1>1, <1>2, Climb
<1> QED BY <1>3

\* Total computes the last of the sums.
LEMMA TotalIsSum ==
  ASSUME NEW n \in Nat, NEW d \in [1 .. n -> Nat], Len(d) = n, NEW s, Sums(s, d, n)
  PROVE  Total(d) = s[n]
<1> DEFINE sum[m \in 0 .. n] == IF m = 0 THEN 0 ELSE sum[m - 1] + d[m]
<1>1. s = [m \in 0 .. n |-> IF m = 0 THEN 0 ELSE s[m - 1] + d[m]]
  BY DEF Sums, Adds
<1>2. sum = [m \in 0 .. n |-> IF m = 0 THEN 0 ELSE sum[m - 1] + d[m]]
  BY <1>1
<1> HIDE DEF sum
<1>3. Adds(sum, d, n)
  BY <1>2 DEF Adds
<1>4. Adds(s, d, n)
  BY DEF Sums
<1>5. \A k \in 0 .. n : s[k] = sum[k]
  BY <1>3, <1>4, SumsAgree
<1>6. Total(d) = sum[n]
  BY DEF Total, sum
<1> QED BY <1>5, <1>6

LEMMA TotalGrows ==
  ASSUME NEW n \in Nat, NEW c \in [1 .. n -> Nat], Len(c) = n,
         NEW d \in [1 .. n + 1 -> Nat], Len(d) = n + 1, \A k \in 1 .. n : c[k] = d[k]
  PROVE  Total(c) \in Nat /\ Total(d) = Total(c) + d[n + 1]
<1>1. PICK s : Sums(s, c, n)
  BY SumsExist
<1>2. PICK t : Sums(t, d, n + 1)
  BY SumsExist
<1>3. Total(c) = s[n] /\ Total(d) = t[n + 1]
  BY <1>1, <1>2, TotalIsSum
<1>4. s[n] = t[n]
  <2>1. Adds(s, c, n) /\ Adds(t, d, n)
    BY <1>1, <1>2 DEF Sums, Adds
  <2>2. \A k \in 0 .. n : s[k] = t[k]
    BY <2>1, SumsAgree
  <2> QED BY <2>2
<1> QED BY <1>1, <1>2, <1>3, <1>4 DEF Sums, Adds

-----------------------------------------------------------------------------
(* Types.                                                                  *)

LEMMA InitTypes ==
  ASSUME ScInit PROVE ScTypeOK
<1>1. merchant \in [Merchants -> Merchant \union {NoMerchant}]
  BY DEF ScInit
<1>2. events \in Seq(Event) /\ ledger \in Nat
  BY DEF ScInit
<1>3. balance \in [Accounts -> [Tokens -> Nat]]
  BY DEF ScInit
<1> QED BY <1>1, <1>2, <1>3 DEF ScInit, ScTypeOK

LEMMA BalanceTypes ==
  ASSUME NEW b \in [Accounts -> [Tokens -> Nat]], NEW a \in Accounts, NEW t \in Tokens,
         NEW n \in Nat
  PROVE  /\ n <= b[a][t] => Debited(b, a, t, n) \in [Accounts -> [Tokens -> Nat]]
         /\ Credited(b, a, t, n) \in [Accounts -> [Tokens -> Nat]]
  BY DEF Debited, Credited

LEMMA FailTypes ==
  ASSUME ScTypeOK, call \in Call, Fail PROVE ScTypeOK'
<1>1. call.before.consumed \subseteq Ids /\ call.before.balance \in [Accounts -> [Tokens -> Nat]]
  BY DEF Call
<1> QED BY <1>1 DEF ScTypeOK, Fail, Restored, registryVars

LEMMA BuyTypes ==
  ASSUME ScTypeOK, call \in Call, call.args.funding # Direct, NEW price \in Prices,
         BuyExact(price), UNCHANGED <<registryVars, consumed, events, ledger>>
  PROVE  ScTypeOK'
<1> DEFINE i == call.args.intent
           f == call.args.funding
<1>1. /\ i \in Intent /\ i \in Intents /\ f \in Swap /\ price \in Nat
      /\ balance \in [Accounts -> [Tokens -> Nat]]
  BY DEF Call, Invocation, ScTypeOK
<1>2. i.customer \in Accounts /\ i.token \in Tokens /\ i.amount \in Nat /\ f.source \in Tokens
  BY <1>1 DEF Intent, Swap
<1>3. PICK c \in Accounts, s \in Tokens, t \in Tokens, n \in Nat :
        c = i.customer /\ s = f.source /\ t = i.token /\ n = i.amount
  BY <1>2
<1>4. /\ price <= balance[c][s]
      /\ balance' = Credited(Debited(balance, c, s, price), c, t, n)
      /\ call' = [call EXCEPT !.stage = "transfer", !.cost = price]
  BY <1>3 DEF BuyExact
<1>5. balance' \in [Accounts -> [Tokens -> Nat]]
  BY <1>1, <1>4, BalanceTypes
<1>6. call' \in Call
  BY <1>1, <1>4 DEF Call, Stages
<1> QED BY <1>5, <1>6 DEF ScTypeOK, registryVars

LEMMA PaidTypes ==
  ASSUME ScTypeOK, call \in Call, Transfer, ~Fail PROVE ScTypeOK'
<1> DEFINE i == call.args.intent
<1>1. /\ i \in Intent /\ i \in Intents /\ call.cost \in Nat
      /\ call.args.funding \in Swap \union {Direct}
      /\ balance \in [Accounts -> [Tokens -> Nat]] /\ events \in Seq(Event)
  BY DEF Call, Invocation, ScTypeOK
<1>2. PICK c \in Accounts, r \in Accounts, t \in Tokens, n \in Nat :
        c = i.customer /\ r = i.recipient /\ t = i.token /\ n = i.amount
  BY <1>1 DEF Intent
<1>3. /\ n <= balance[c][t]
      /\ balance' = Credited(Debited(balance, c, t, n), r, t, n)
  BY <1>2 DEF Transfer, Moved
<1>4. balance' \in [Accounts -> [Tokens -> Nat]]
  BY <1>1, <1>3, BalanceTypes
<1>5. events' \in Seq(Event)
  <2>1. PICK e \in Event : events' = Append(events, e)
    BY <1>1 DEF Transfer, Event
  <2> QED BY <1>1, <2>1
<1> QED BY <1>4, <1>5 DEF ScTypeOK, Transfer, registryVars

LEMMA NextTypes ==
  ASSUME ScTypeOK, ScInv, ScNext PROVE ScTypeOK'
<1> USE DEF registryVars, notRegistry
<1>1. ASSUME NEW t \in Tokens, NEW on \in BOOLEAN, RegisterAsset(t, on) PROVE ScTypeOK'
  BY <1>1 DEF RegisterAsset, ScTypeOK
<1>2. CASE SetSwapRouter
  BY <1>2 DEF SetSwapRouter, ScTypeOK
<1>3. ASSUME NEW m \in Merchants, NEW k \in Keys, NEW a \in Accounts, RegisterMerchant(m, k, a)
      PROVE  ScTypeOK'
  <2>1. [key |-> k, recipient |-> a, active |-> TRUE] \in Merchant
    BY DEF Merchant
  <2> QED BY <1>3, <2>1 DEF RegisterMerchant, ScTypeOK
<1>4. ASSUME NEW m \in Merchants, RevokeMerchant(m) PROVE ScTypeOK'
  <2>1. merchant[m] \in Merchant
    BY <1>4 DEF RevokeMerchant, ScTypeOK
  <2>2. [merchant[m] EXCEPT !.active = FALSE] \in Merchant
    BY <2>1 DEF Merchant
  <2>3. merchant' = [merchant EXCEPT ![m] = [merchant[m] EXCEPT !.active = FALSE]]
    BY <1>4 DEF RevokeMerchant, ScTypeOK
  <2> QED BY <1>4, <2>2, <2>3 DEF RevokeMerchant, ScTypeOK
<1>5. CASE CloseLedger
  BY <1>5 DEF CloseLedger, ScTypeOK
<1>6. ASSUME NEW v \in Invocation, Invoke(v) PROVE ScTypeOK'
  <2>1. call' \in Call
    BY <1>6 DEF Invoke, Call, Stages, ScTypeOK
  <2> QED BY <1>6, <2>1 DEF Invoke, ScTypeOK
<1>7. CASE CallStep
  <2>1. call \in Call
    BY <1>7 DEF CallStep, CheckSwap, AuthorizeIntent, RouterSwap, Transfer, ScTypeOK, NoCall
  <2>2. CASE Fail
    BY <2>1, <2>2, FailTypes
  <2>3. CASE CheckSwap /\ ~Fail
    <3>1. call' \in Call
      BY <2>1, <2>3 DEF CheckSwap, Goto, Call, Stages
    <3> QED BY <2>3, <3>1 DEF CheckSwap, ScTypeOK
  <2>4. CASE AuthorizeIntent /\ ~Fail
    <3>1. call' \in Call
      BY <2>1, <2>4 DEF AuthorizeIntent, Goto, Call, Stages
    <3>2. consumed' \subseteq Ids
      BY <2>1, <2>4 DEF AuthorizeIntent, Spent, Call, Invocation, Intent, ScTypeOK
    <3> QED BY <2>4, <3>1, <3>2 DEF AuthorizeIntent, ScTypeOK
  <2>5. CASE RouterSwap /\ ~Fail
    <3>1. call.args.funding # Direct
      BY <2>5 DEF RouterSwap, ScInv, StageSound
    <3> QED BY <2>1, <2>5, <3>1, BuyTypes DEF RouterSwap
  <2>6. CASE Transfer /\ ~Fail
    BY <2>1, <2>6, PaidTypes
  <2> QED BY <1>7, <2>2, <2>3, <2>4, <2>5, <2>6 DEF CallStep
<1> QED BY <1>1, <1>2, <1>3, <1>4, <1>5, <1>6, <1>7 DEF ScNext, AdminStep

-----------------------------------------------------------------------------
(* The books.                                                              *)

\* A settlement adds what it gave and what it took.
LEMMA SettlementCounts ==
  ASSUME NEW e \in Event, events \in Seq(Event), events' = Append(events, e),
         NEW a \in Accounts, NEW t \in Tokens
  PROVE  /\ Received(a, t) \in Nat /\ Received(a, t)' = Received(a, t) + Gain(e, a, t)
         /\ Spending(a, t) \in Nat /\ Spending(a, t)' = Spending(a, t) + Price(e, a, t)
<1>1. ASSUME NEW x \in Event PROVE Gain(x, a, t) \in Nat /\ Price(x, a, t) \in Nat
  BY DEF Event, Intent, Swap, Gain, Price, Given
<1>2. /\ Len(events) \in Nat /\ Len(events') = Len(events) + 1
      /\ \A n \in 1 .. Len(events) : events[n] \in Event /\ events'[n] = events[n]
      /\ events'[Len(events) + 1] = e
  OBVIOUS
<1>3. ASSUME NEW F \in [Event -> Nat], NEW n \in Nat, n = Len(events)
      PROVE  /\ Total([k \in 1 .. n |-> F[events[k]]]) \in Nat
             /\ Total([k \in 1 .. n + 1 |-> F[events'[k]]])
                  = Total([k \in 1 .. n |-> F[events[k]]]) + F[e]
  <2> DEFINE c == [k \in 1 .. n |-> F[events[k]]]
             d == [k \in 1 .. n + 1 |-> F[events'[k]]]
  <2>1. c \in [1 .. n -> Nat] /\ Len(c) = n
    BY <1>2, <1>3
  <2>2. d \in [1 .. n + 1 -> Nat] /\ Len(d) = n + 1
    BY <1>2, <1>3
  <2>3. \A k \in 1 .. n : c[k] = d[k]
    BY <1>2, <1>3
  <2>4. d[n + 1] = F[e]
    BY <1>2, <1>3
  <2> HIDE DEF c, d
  <2>5. Total(c) \in Nat /\ Total(d) = Total(c) + d[n + 1]
    BY <2>1, <2>2, <2>3, TotalGrows
  <2> QED BY <2>4, <2>5 DEF c, d
<1> DEFINE G == [x \in Event |-> Gain(x, a, t)]
           P == [x \in Event |-> Price(x, a, t)]
           n == Len(events)
<1>4. G \in [Event -> Nat] /\ P \in [Event -> Nat]
  BY <1>1
<1>5. /\ [k \in 1 .. n |-> G[events[k]]] = [k \in 1 .. n |-> Gain(events[k], a, t)]
      /\ [k \in 1 .. n |-> P[events[k]]] = [k \in 1 .. n |-> Price(events[k], a, t)]
      /\ [k \in 1 .. n + 1 |-> G[events'[k]]] = [k \in 1 .. n + 1 |-> Gain(events'[k], a, t)]
      /\ [k \in 1 .. n + 1 |-> P[events'[k]]] = [k \in 1 .. n + 1 |-> Price(events'[k], a, t)]
      /\ G[e] = Gain(e, a, t) /\ P[e] = Price(e, a, t)
  BY <1>2
<1> HIDE DEF G, P
<1>6. /\ Total([k \in 1 .. n |-> G[events[k]]]) \in Nat
      /\ Total([k \in 1 .. n + 1 |-> G[events'[k]]])
           = Total([k \in 1 .. n |-> G[events[k]]]) + G[e]
  BY <1>2, <1>3, <1>4
<1>7. /\ Total([k \in 1 .. n |-> P[events[k]]]) \in Nat
      /\ Total([k \in 1 .. n + 1 |-> P[events'[k]]])
           = Total([k \in 1 .. n |-> P[events[k]]]) + P[e]
  BY <1>2, <1>3, <1>4
<1>8. Len(events') = n + 1
  BY <1>2
<1> QED BY <1>5, <1>6, <1>7, <1>8 DEF Received, Spending

LEMMA SameBooks ==
  ASSUME events' = events, NEW b
  PROVE  Explained(b) <=> \A a \in Accounts, t \in Tokens :
           b[a][t] + Spending(a, t)' = Funds[a][t] + Received(a, t)'
  BY DEF Explained, Spending, Received

Books == [Accounts -> [Tokens -> Nat]]

\* An account gave some of one token, and one received some of another.
Exchanged(new, old, c, s, m, r, t, n) ==
  /\ new \in Books
  /\ \A x \in Accounts, u \in Tokens :
       new[x][u] + (IF x = c /\ u = s THEN m ELSE 0) = old[x][u] + (IF x = r /\ u = t THEN n ELSE 0)

LEMMA Exchanges ==
  ASSUME NEW b \in Books, NEW c \in Accounts, NEW s \in Tokens, NEW m \in Nat,
         NEW r \in Accounts, NEW t \in Tokens, NEW n \in Nat, m <= b[c][s]
  PROVE  Exchanged(Credited(Debited(b, c, s, m), r, t, n), b, c, s, m, r, t, n)
<1> HIDE ContractAssumption
<1>1. PICK d \in [Accounts -> [Tokens -> Nat]] : d = Debited(b, c, s, m)
  BY BalanceTypes DEF Books
<1>2. PICK e \in [Accounts -> [Tokens -> Nat]] : e = Credited(d, r, t, n)
  BY BalanceTypes
<1>3. ASSUME NEW x \in Accounts, NEW u \in Tokens
      PROVE  e[x][u] + (IF x = c /\ u = s THEN m ELSE 0) = b[x][u] + (IF x = r /\ u = t THEN n ELSE 0)
  <2>1. d[x][u] = IF x = c /\ u = s THEN b[x][u] - m ELSE b[x][u]
    BY <1>1 DEF Books, Debited
  <2>2. e[x][u] = IF x = r /\ u = t THEN d[x][u] + n ELSE d[x][u]
    BY <1>2 DEF Credited
  <2>3. b[x][u] \in Nat /\ d[x][u] \in Nat
    BY DEF Books
  <2> QED BY <2>1, <2>2, <2>3
<1> QED BY <1>1, <1>2, <1>3 DEF Exchanged, Books

\* A call that ends well leaves books its settlement accounts for.
LEMMA PaidBooks ==
  ASSUME ScInv, call \in Call, Transfer, ~Fail PROVE BalancesExplained'
<1> DEFINE i == call.args.intent
           f == call.args.funding
           b == call.before.balance
           e == [intent |-> i, funding |-> f, cost |-> call.cost]
<1>1. /\ i \in Intent /\ i \in Intents /\ call.cost \in Nat /\ f \in Swap \union {Direct}
      /\ events \in Seq(Event) /\ b \in [Accounts -> [Tokens -> Nat]]
  BY DEF Call, Invocation, ScInv, ScTypeOK
<1>2. e \in Event /\ events' = Append(events, e)
  BY <1>1 DEF Transfer, Event
<1>3. PICK c \in Accounts, r \in Accounts, t \in Tokens, n \in Nat :
        c = i.customer /\ r = i.recipient /\ t = i.token /\ n = i.amount
  BY <1>1 DEF Intent
<1>4. /\ n <= balance[c][t]
      /\ balance' = Credited(Debited(balance, c, t, n), r, t, n)
      /\ call.stage = "transfer"
  BY <1>3 DEF Transfer, Moved
<1>5. Explained(b)
  BY <1>4 DEF ScInv, BooksSound, AtRest, NoCall
<1> SUFFICES ASSUME NEW x \in Accounts, NEW u \in Tokens
             PROVE  balance'[x][u] + Spending(x, u)' = Funds[x][u] + Received(x, u)'
  BY DEF BalancesExplained, Explained
<1>6. b[x][u] + Spending(x, u) = Funds[x][u] + Received(x, u)
  BY <1>5 DEF Explained
<1>7. /\ Received(x, u) \in Nat /\ Received(x, u)' = Received(x, u) + Gain(e, x, u)
      /\ Spending(x, u) \in Nat /\ Spending(x, u)' = Spending(x, u) + Price(e, x, u)
  BY <1>1, <1>2, SettlementCounts
<1>8. Gain(e, x, u) = IF r = x /\ t = u THEN n ELSE 0
  BY <1>3 DEF Gain
<1>9. balance'[x][u] + Price(e, x, u) = b[x][u] + Gain(e, x, u)
  <2>1. CASE f = Direct
    <3>1. balance = b
      BY <1>4, <2>1 DEF ScInv, BooksSound, AtRest, NoCall
    <3>2. Price(e, x, u) = IF x = c /\ t = u THEN n ELSE 0
      BY <1>3, <2>1 DEF Price, Given
    <3>3. balance'[x][u] + (IF x = c /\ t = u THEN n ELSE 0)
            = b[x][u] + (IF r = x /\ t = u THEN n ELSE 0)
      <4>1. b \in Books /\ n <= b[c][t]
        BY <1>1, <1>4, <3>1 DEF Books
      <4>2. Exchanged(Credited(Debited(b, c, t, n), r, t, n), b, c, t, n, r, t, n)
        BY <4>1, Exchanges
      <4>3. Exchanged(balance', b, c, t, n, r, t, n)
        BY <1>4, <3>1, <4>2
      <4> QED BY <4>3 DEF Exchanged
    <3> QED BY <1>8, <3>2, <3>3
  <2>2. CASE f # Direct
    <3>1. PICK s \in Tokens, m \in Nat : s = f.source /\ m = call.cost
      BY <1>1, <2>2 DEF Swap
    <3>2. m <= b[c][s] /\ balance = Credited(Debited(b, c, s, m), c, t, n)
      BY <1>3, <1>4, <2>2, <3>1 DEF ScInv, BooksSound, AtRest, NoCall
    <3>3. Price(e, x, u) = IF x = c /\ s = u THEN m ELSE 0
      BY <1>3, <2>2, <3>1 DEF Price, Given
    <3>4. balance'[x][u] + (IF x = c /\ s = u THEN m ELSE 0)
            = b[x][u] + (IF r = x /\ t = u THEN n ELSE 0)
      <4>1. b \in Books
        BY <1>1 DEF Books
      <4>2. Exchanged(Credited(Debited(b, c, s, m), c, t, n), b, c, s, m, c, t, n)
        BY <3>2, <4>1, Exchanges
      <4>3. Exchanged(balance, b, c, s, m, c, t, n)
        BY <3>2, <4>2
      <4>4. balance \in Books
        BY <4>3 DEF Exchanged
      <4>5. Exchanged(Credited(Debited(balance, c, t, n), r, t, n), balance, c, t, n, r, t, n)
        BY <1>4, <4>4, Exchanges
      <4>6. Exchanged(balance', balance, c, t, n, r, t, n)
        BY <1>4, <4>5
      <4>7. PICK now \in Nat, mid \in Nat, old \in Nat :
              now = balance'[x][u] /\ mid = balance[x][u] /\ old = b[x][u]
        BY <4>1, <4>4, <4>6 DEF Exchanged, Books
      <4>8. /\ mid + (IF x = c /\ u = s THEN m ELSE 0) = old + (IF x = c /\ u = t THEN n ELSE 0)
            /\ now + (IF x = c /\ u = t THEN n ELSE 0) = mid + (IF x = r /\ u = t THEN n ELSE 0)
        BY <4>3, <4>6, <4>7 DEF Exchanged
      <4>9. now + (IF x = c /\ u = s THEN m ELSE 0) = old + (IF x = r /\ u = t THEN n ELSE 0)
        BY <4>8
      <4> QED BY <4>7, <4>9
    <3> QED BY <1>8, <3>3, <3>4
  <2> QED BY <2>1, <2>2
<1>10. balance'[x][u] \in Nat /\ b[x][u] \in Nat /\ Funds[x][u] \in Nat
       /\ Gain(e, x, u) \in Nat /\ Price(e, x, u) \in Nat
  <2>1. balance' \in [Accounts -> [Tokens -> Nat]]
    BY PaidTypes DEF ScInv, ScTypeOK
  <2>2. Gain(e, x, u) \in Nat /\ Price(e, x, u) \in Nat
    BY <1>2 DEF Gain, Price, Given, Event, Intent, Swap
  <2> QED BY <1>1, <2>1, <2>2
<1> HIDE DEF e, b
<1> QED BY <1>6, <1>7, <1>9, <1>10

LEMMA NextBooks ==
  ASSUME ScInv, ScNext PROVE BalancesExplained' /\ BooksSound'
<1> USE DEF NoCall, AtRest
<1>1. CASE AdminStep \/ CloseLedger
  <2>1. balance' = balance /\ events' = events /\ AtRest /\ call' = call
    BY <1>1 DEF AdminStep, RegisterAsset, SetSwapRouter, RegisterMerchant, RevokeMerchant,
       CloseLedger, notRegistry
  <2> QED BY <2>1, SameBooks DEF ScInv, BalancesExplained, BooksSound, Explained
<1>2. ASSUME NEW v \in Invocation, Invoke(v) PROVE BalancesExplained' /\ BooksSound'
  <2>1. /\ Explained(balance) /\ balance' = balance /\ events' = events
        /\ call'.before.balance = balance /\ call'.stage \in {"check", "authorize"}
    BY <1>2 DEF ScInv, BalancesExplained, Invoke
  <2> QED BY <2>1, SameBooks DEF BalancesExplained, BooksSound, Explained
<1>3. CASE CallStep
  <2>1. call \in Call /\ call # NoCall
    BY <1>3 DEF CallStep, CheckSwap, AuthorizeIntent, RouterSwap, Transfer, ScInv, ScTypeOK
  <2>2. BooksSound /\ Explained(call.before.balance)
    BY <2>1 DEF ScInv, BooksSound
  <2>3. CASE Fail
    BY <2>2, <2>3, SameBooks DEF Fail, Restored, BalancesExplained, BooksSound, Explained
  <2>4. ASSUME call'.before = call.before, call' # NoCall, events' = events,
               balance' = balance, balance = call.before.balance,
               call'.stage # "transfer" \/ call'.args.funding = Direct
        PROVE  BalancesExplained' /\ BooksSound'
    <3>1. Explained(call.before.balance)'
      BY <2>2, <2>4 DEF Explained, Received, Spending
    <3> QED BY <2>4, <3>1 DEF BalancesExplained, BooksSound
  <2>5. CASE CheckSwap /\ ~Fail
    <3>1. /\ call'.before = call.before /\ call'.stage = "authorize" /\ events' = events
          /\ balance' = balance /\ call.stage = "check"
      BY <2>1, <2>5 DEF CheckSwap, Goto, Call
    <3> QED BY <2>1, <2>2, <2>4, <3>1 DEF BooksSound
  <2>6. CASE AuthorizeIntent /\ ~Fail
    <3>1. /\ call'.before = call.before /\ events' = events /\ balance' = balance
          /\ call'.args = call.args /\ call.stage = "authorize"
          /\ call'.stage = IF call.args.funding = Direct THEN "transfer" ELSE "swap"
      BY <2>1, <2>6 DEF AuthorizeIntent, Goto, Call
    <3> QED BY <2>1, <2>2, <2>4, <3>1 DEF BooksSound
  <2>7. CASE RouterSwap /\ ~Fail
    <3>1. PICK price \in Prices : BuyExact(price)
      BY <2>7 DEF RouterSwap
    <3>2. /\ call.stage = "swap" /\ call.args.funding # Direct
          /\ balance = call.before.balance /\ events' = events
      BY <2>1, <2>2, <2>7 DEF RouterSwap, BooksSound, ScInv, StageSound
    <3>3. /\ call'.before = call.before /\ call'.args = call.args
          /\ call'.stage = "transfer" /\ call'.cost = price
      BY <2>1, <3>1 DEF BuyExact, Call
    <3>4. LET i == call.args.intent
              f == call.args.funding
          IN  /\ price <= balance[i.customer][f.source]
              /\ balance' = Credited(Debited(balance, i.customer, f.source, price),
                                     i.customer, i.token, i.amount)
      BY <3>1 DEF BuyExact
    <3> QED BY <2>2, <3>2, <3>3, <3>4, SameBooks DEF BalancesExplained, BooksSound, Explained
  <2>8. CASE Transfer /\ ~Fail
    <3>1. call' = NoCall
      BY <2>8 DEF Transfer
    <3> QED BY <2>1, <2>8, <3>1, PaidBooks DEF BooksSound
  <2> QED BY <1>3, <2>3, <2>5, <2>6, <2>7, <2>8 DEF CallStep
<1> QED BY <1>1, <1>2, <1>3 DEF ScNext

-----------------------------------------------------------------------------
(* The invariant.                                                          *)

LEMMA InitInv == ScInit => ScInv
<1> SUFFICES ASSUME ScInit PROVE ScInv
  OBVIOUS
<1>1. SpentMeansPaid /\ SavedSound /\ StageSound /\ BooksSound
  BY DEF ScInit, AtRest, SpentMeansPaid, SavedSound, StageSound, BooksSound, NoCall
<1>2. ASSUME NEW a \in Accounts, NEW t \in Tokens
      PROVE  balance[a][t] + Spending(a, t) = Funds[a][t] + Received(a, t)
  <2>1. balance[a][t] = Funds[a][t] /\ Funds[a][t] \in Nat
    BY DEF ScInit
  <2>2. Spending(a, t) = 0 /\ Received(a, t) = 0
    <3>1. events = <<>>
      BY DEF ScInit
    <3>2. ASSUME NEW m \in Nat, m = 0, NEW d, d = [n \in 1 .. m |-> 0] PROVE Total(d) = 0
      <4>1. d \in [1 .. m -> Nat] /\ Len(d) = m
        BY <3>2
      <4>2. PICK s : Sums(s, d, m)
        BY <4>1, SumsExist
      <4>3. Total(d) = s[m]
        BY <4>1, <4>2, TotalIsSum
      <4> QED BY <3>2, <4>2, <4>3 DEF Sums, Adds
    <3>3. /\ [n \in 1 .. Len(events) |-> Price(events[n], a, t)] = [n \in 1 .. 0 |-> 0]
          /\ [n \in 1 .. Len(events) |-> Gain(events[n], a, t)] = [n \in 1 .. 0 |-> 0]
      BY <3>1
    <3> QED BY <3>2, <3>3 DEF Spending, Received
  <2> QED BY <2>1, <2>2
<1> QED BY <1>1, <1>2, InitTypes DEF ScInv, BalancesExplained, Explained

\* A settlement adds its own identifier to those the events name.
LEMMA AppendedIds ==
  ASSUME NEW s \in Seq(Event), NEW e \in Event
  PROVE  {Append(s, e)[n].intent.id : n \in 1 .. Len(Append(s, e))}
           = {s[n].intent.id : n \in 1 .. Len(s)} \union {e.intent.id}
<1>1. /\ Len(Append(s, e)) = Len(s) + 1 /\ Len(s) \in Nat
      /\ \A n \in 1 .. Len(s) : Append(s, e)[n] = s[n]
      /\ Append(s, e)[Len(s) + 1] = e
  OBVIOUS
<1>2. 1 .. Len(s) + 1 = (1 .. Len(s)) \union {Len(s) + 1}
  BY <1>1
<1> QED BY <1>1, <1>2

LEMMA NextInv ==
  ASSUME ScInv, ScNext PROVE ScInv'
<1> DEFINE Paid == {events[n].intent.id : n \in 1 .. Len(events)}
<1>0. ScTypeOK'
  BY NextTypes DEF ScInv
<1>1. ScTypeOK /\ SpentMeansPaid /\ SavedSound /\ StageSound
  BY DEF ScInv
<1>2. SUFFICES SpentMeansPaid' /\ SavedSound' /\ StageSound'
  BY <1>0, NextBooks DEF ScInv
<1> USE DEF AtRest, SpentMeansPaid, SavedSound, StageSound, registryVars, notRegistry, NoCall
<1>3. CASE AtRest /\ UNCHANGED <<consumed, events, call>>
  BY <1>1, <1>3
<1>4. CASE AdminStep \/ CloseLedger
  BY <1>3, <1>4 DEF AdminStep, RegisterAsset, SetSwapRouter, RegisterMerchant,
     RevokeMerchant, CloseLedger
<1>5. ASSUME NEW v \in Invocation, Invoke(v)
      PROVE  SpentMeansPaid' /\ SavedSound' /\ StageSound'
  <2>1. consumed = Paid
    BY <1>1, <1>5 DEF Invoke
  <2>2. /\ consumed' = consumed /\ events' = events
        /\ call'.stage \in {"check", "authorize"} /\ call'.before.consumed = consumed
    BY <1>5 DEF Invoke
  <2> QED BY <2>1, <2>2
<1>6. CASE CallStep
  <2>1. call \in Call /\ call # NoCall
    BY <1>1, <1>6 DEF CallStep, CheckSwap, AuthorizeIntent, RouterSwap, Transfer, ScTypeOK
  <2>2. call.before.consumed = Paid
    BY <1>1, <2>1
  <2>3. CASE Fail
    BY <2>2, <2>3 DEF Fail, Restored
  <2>4. CASE CheckSwap /\ ~Fail
    <3>1. /\ consumed' = consumed /\ events' = events /\ call'.stage = "authorize"
          /\ call'.before = call.before /\ call.stage = "check"
      BY <2>1, <2>4 DEF CheckSwap, Goto, Call
    <3> QED BY <1>1, <2>2, <3>1
  <2>5. CASE AuthorizeIntent /\ ~Fail
    <3>1. /\ call'.before = call.before /\ call'.args = call.args
          /\ call'.stage = IF call.args.funding = Direct THEN "transfer" ELSE "swap"
          /\ consumed' = consumed \union {call.args.intent.id} /\ events' = events
          /\ call.args.intent.id \notin consumed /\ ledger < call.args.intent.expires
          /\ ledger' = ledger /\ call.stage = "authorize"
      BY <2>1, <2>5 DEF AuthorizeIntent, Goto, Spent, Authorized, Unspent, ContextValid, Call
    <3> QED BY <1>1, <2>2, <3>1
  <2>6. CASE RouterSwap /\ ~Fail
    <3>1. /\ call'.before = call.before /\ call'.args = call.args /\ call'.stage = "transfer"
          /\ consumed' = consumed /\ events' = events /\ ledger' = ledger
          /\ call.stage = "swap"
      BY <2>1, <2>6 DEF RouterSwap, BuyExact, Call
    <3> QED BY <1>1, <2>2, <3>1
  <2>7. CASE Transfer /\ ~Fail
    <3>1. PICK e \in Event : events' = Append(events, e) /\ e.intent.id = call.args.intent.id
      BY <2>1, <2>7 DEF Transfer, Call, Invocation, Event
    <3>2. consumed' = call.before.consumed \union {call.args.intent.id} /\ call' = NoCall
      BY <1>1, <2>7 DEF Transfer
    <3>3. {events'[n].intent.id : n \in 1 .. Len(events')} = Paid \union {e.intent.id}
      <4>1. events \in Seq(Event)
        BY <1>1 DEF ScTypeOK
      <4>2. {Append(events, e)[n].intent.id : n \in 1 .. Len(Append(events, e))}
              = Paid \union {e.intent.id}
        BY <4>1, AppendedIds
      <4> QED BY <3>1, <4>2
    <3> QED BY <2>2, <3>1, <3>2, <3>3
  <2> QED BY <1>6, <2>3, <2>4, <2>5, <2>6, <2>7 DEF CallStep
<1> QED BY <1>4, <1>5, <1>6 DEF ScNext

\* The contract's inductive invariant: between calls exactly the paid intents
\* are spent, whatever failed on the way (authorize_intent, the host's rollback).
THEOREM ContractSound == ScSpec => []ScInv
<1>1. ScInv /\ [ScNext]_scVars => ScInv'
  <2>1. CASE ScInv /\ UNCHANGED scVars
    <3>1. (BalancesExplained /\ BooksSound)'
      BY <2>1, SameBooks DEF scVars, ScInv, AtRest, BalancesExplained, BooksSound, Explained
    <3> QED BY <2>1, <3>1 DEF scVars, registryVars, ScInv, ScTypeOK, SpentMeansPaid, SavedSound,
        StageSound, AtRest
  <2> QED BY <2>1, NextInv
<1> QED BY <1>1, InitInv, PTL DEF ScSpec

\* Between calls every balance follows from the settlements: merchants received
\* what they signed for, customers gave that or what the swap cost, and a call
\* that failed halfway moved nothing (settle_payment_with_swap, the host's rollback).
THEOREM BooksBalance == ScSpec => []BalancesExplained
<1>1. ScInv => BalancesExplained
  BY DEF ScInv
<1> QED BY <1>1, ContractSound, PTL

-----------------------------------------------------------------------------
(* The refinement.                                                         *)

LEMMA StepImplements ==
  ASSUME ScInv, [ScNext]_scVars PROVE [Chain!LedgerNext]_(Chain!ledgerVars)
<1> DEFINE Settled == [n \in 1 .. Len(events) |->
                         [id |-> events[n].intent.id, deadline |-> events[n].intent.expires]]
<1>1. CASE UNCHANGED <<events, ledger>>
  BY <1>1 DEF Chain!ledgerVars
<1>2. CASE CloseLedger
  <2>1. Settled' = Settled
    BY <1>2 DEF CloseLedger
  <2> QED BY <1>2, <2>1 DEF CloseLedger, Chain!LedgerNext, Chain!Close
<1>3. CASE Transfer /\ ~Fail
  <2>1. /\ call \in Call /\ call.stage = "transfer" /\ events \in Seq(Event)
        /\ call # NoCall
    BY <1>3 DEF Transfer, ScInv, ScTypeOK, NoCall
  <2>2. PICK e \in Event : events' = Append(events, e) /\ e.intent = call.args.intent
    BY <1>3, <2>1 DEF Transfer, Call, Invocation, Event
  <2>3. /\ e.intent.id \notin {events[n].intent.id : n \in 1 .. Len(events)}
        /\ ledger < e.intent.expires /\ ledger' = ledger
    BY <1>3, <2>1, <2>2 DEF ScInv, SavedSound, StageSound, AtRest, Transfer
  <2>4. e.intent \in Intents /\ e.intent.id \in Ids
    BY DEF Event, Intent
  <2>5. Settled' = Append(Settled, [id |-> e.intent.id, deadline |-> e.intent.expires])
    <3>1. /\ Len(events') = Len(events) + 1 /\ Len(events) \in Nat
          /\ \A n \in 1 .. Len(events) : events'[n] = events[n]
          /\ events'[Len(events) + 1] = e
      BY <2>1, <2>2
    <3>2. Len(Settled) = Len(events)
      BY <3>1
    <3> QED BY <3>1, <3>2
  <2>6. Chain!Settle(e.intent.id, e.intent.expires)
    <3>1. \A n \in 1 .. Len(Settled) : Settled[n].id # e.intent.id
      BY <2>1, <2>3
    <3> QED BY <2>3, <2>5, <3>1 DEF Chain!Settle
  <2> QED BY <2>4, <2>6 DEF Chain!LedgerNext
<1>4. CASE Fail
  BY <1>1, <1>4 DEF Fail
<1>5. CASE AdminStep \/ \E v \in Invocation : Invoke(v)
  BY <1>1, <1>5 DEF AdminStep, RegisterAsset, SetSwapRouter, RegisterMerchant, RevokeMerchant,
     Invoke, notRegistry
<1>6. CASE CheckSwap \/ AuthorizeIntent \/ RouterSwap
  BY <1>1, <1>4, <1>6 DEF CheckSwap, AuthorizeIntent, RouterSwap
<1>7. CASE UNCHANGED scVars
  BY <1>1, <1>7 DEF scVars
<1> QED BY <1>2, <1>3, <1>4, <1>5, <1>6, <1>7 DEF ScNext, CallStep

\* No intent settles twice or at its expiry, whoever calls, however it is
\* funded, and whatever fails: the chain the books rely on.
THEOREM ContractImplementsLedger == ScSpec => ImplementsLedger
<1>1. ScInit => Chain!LedgerInit
  BY DEF ScInit, Chain!LedgerInit
<1> QED BY <1>1, ContractSound, StepImplements, PTL
        DEF ScSpec, ImplementsLedger, Chain!LedgerSpec

=============================================================================
