------------------------- MODULE SettlementContract -------------------------
(***************************************************************************)
(* The Soroban settlement contract, contracts/settlement: the admin's      *)
(* registry of merchants, assets and the swap router, and the two ways to  *)
(* settle a payment, settle_payment and settle_payment_with_swap.          *)
(*                                                                         *)
(* A call runs to its end before another begins, but it has steps that can *)
(* fail one after the other: the checks, the router's swap, the token      *)
(* transfer.  The intent is marked consumed before any token moves, and a  *)
(* step that fails takes back everything the call did, as the host does    *)
(* with a failed transaction.  Tokens, the router and that rollback are    *)
(* modelled from how the contract uses them.                               *)
(***************************************************************************)
EXTENDS Naturals, Sequences

CONSTANTS Merchants,   \* merchant identifiers
          Keys,        \* merchants' signing keys
          Accounts,    \* addresses that pay and are paid
          Tokens,      \* token contracts
          Ids,         \* intent identifiers
          Intents,     \* the payment intents that exist
          Funds,       \* Funds[a][t]: what an account starts with
          FirstAsset,  \* the asset the constructor supports
          Limits,      \* ceilings a customer puts on a funding swap
          Prices,      \* what a pool may charge
          MaxLedger,   \* bound: the ledger stops here
          MaxEvents,   \* bound: settlements in one behaviour
          None         \* no signature, no merchant

\* here: the intent names this network and this contract.
Intent == [id : Ids, merchant : Merchants, customer : Accounts, recipient : Accounts,
           token : Tokens, amount : Nat, expires : Nat, here : BOOLEAN]

ASSUME ContractAssumption ==
  /\ Intents \subseteq Intent
  /\ Funds \in [Accounts -> [Tokens -> Nat]]
  /\ FirstAsset \in Tokens
  /\ Limits \subseteq Nat /\ Prices \subseteq Nat
  /\ MaxLedger \in Nat /\ MaxEvents \in Nat
  /\ None \notin Keys

VARIABLES merchant,   \* merchant[m]: the registry entry, or NoMerchant
          supported,  \* assets a payment may be made in
          router,     \* the swap router has been named
          consumed,   \* intent identifiers already spent
          balance,    \* balance[a][t] in the token contracts
          events,     \* PaymentSettled, with the funding of its payment
          ledger,     \* sequence of the ledger being built
          call        \* the settlement call being executed, or NoCall

registryVars == <<merchant, supported, router>>
scVars       == <<registryVars, consumed, balance, events, ledger, call>>

Merchant == [key : Keys, recipient : Accounts, active : BOOLEAN]
NoMerchant == [active |-> FALSE]

\* The ends of the customer's swap path and its ceiling; Direct without a swap.
Swap == [source : Tokens, bought : Tokens, limit : Limits]
Direct == [source |-> None]

\* signer: whose signature over this very intent is attached, None for any other
\* bytes; consent: the customer authorized this call with these arguments.
Invocation == [intent : Intents, signer : Keys \union {None}, consent : BOOLEAN,
               funding : Swap \union {Direct}]

Stages == {"check", "authorize", "swap", "transfer"}

\* before: what the host restores; cost: what the swap charged.
Call == [args : Invocation, stage : Stages, cost : Nat,
         before : [consumed : SUBSET Ids, balance : [Accounts -> [Tokens -> Nat]]]]
NoCall == [stage |-> "none"]

Event == [intent : Intents, funding : Swap \union {Direct}, cost : Nat]

\* __constructor.
ScInit == /\ merchant = [m \in Merchants |-> NoMerchant]
          /\ supported = {FirstAsset}
          /\ router = FALSE
          /\ consumed = {}
          /\ balance = Funds
          /\ events = <<>>
          /\ ledger = 1
          /\ call = NoCall

-----------------------------------------------------------------------------
(* The admin, between calls.                                               *)

AtRest == call = NoCall

notRegistry == <<consumed, balance, events, ledger, call>>

RegisterAsset(t, on) == /\ AtRest
                        /\ supported' = IF on THEN supported \union {t} ELSE supported \ {t}
                        /\ UNCHANGED <<merchant, router, notRegistry>>

SetSwapRouter == /\ AtRest
                 /\ router' = TRUE
                 /\ UNCHANGED <<merchant, supported, notRegistry>>

\* A second registration replaces the first, and revives a revoked merchant.
RegisterMerchant(m, k, a) ==
  /\ AtRest
  /\ merchant' = [merchant EXCEPT ![m] = [key |-> k, recipient |-> a, active |-> TRUE]]
  /\ UNCHANGED <<supported, router, notRegistry>>

RevokeMerchant(m) == /\ AtRest
                     /\ merchant[m] # NoMerchant
                     /\ merchant' = [merchant EXCEPT ![m].active = FALSE]
                     /\ UNCHANGED <<supported, router, notRegistry>>

CloseLedger == /\ AtRest
               /\ ledger < MaxLedger
               /\ ledger' = ledger + 1
               /\ UNCHANGED <<registryVars, consumed, balance, events, call>>

-----------------------------------------------------------------------------
(* A settlement call.                                                      *)

Invoke(v) == /\ AtRest
             /\ Len(events) < MaxEvents
             /\ call' = [args |-> v, stage |-> IF v.funding = Direct THEN "authorize" ELSE "check",
                         cost |-> 0, before |-> [consumed |-> consumed, balance |-> balance]]
             /\ UNCHANGED <<registryVars, consumed, balance, events, ledger>>

Goto(stage) == call' = [call EXCEPT !.stage = stage]

Restored == consumed' = call.before.consumed /\ balance' = call.before.balance

\* A refusal, a trap in a called contract, too small a balance: the host undoes
\* the whole call.
Fail == /\ Restored
        /\ call' = NoCall
        /\ UNCHANGED <<registryVars, events, ledger>>

\* What settle_payment_with_swap checks of its own arguments first.
SwapAllowed(v) == /\ router
                  /\ v.funding.limit > 0
                  /\ v.funding.bought = v.intent.token
                  /\ v.funding.source # v.intent.token

CheckSwap == /\ call.stage = "check"
             /\ \/ /\ SwapAllowed(call.args)
                   /\ Goto("authorize")
                   /\ UNCHANGED <<registryVars, consumed, balance, events, ledger>>
                \/ ~SwapAllowed(call.args) /\ Fail

\* validate_context.
ContextValid(i) == i.amount > 0 /\ ledger < i.expires /\ i.here

\* The merchant as registered now, and the asset as supported now.
MerchantAccepts(i) == /\ merchant[i.merchant].active
                      /\ merchant[i.merchant].recipient = i.recipient
                      /\ i.token \in supported

\* Mutant: authorize_intent without the replay check.
UnspentUnchecked(i) == TRUE

Unspent(i) == i.id \notin consumed

Authorized(v) == /\ ContextValid(v.intent)
                 /\ MerchantAccepts(v.intent)
                 /\ Unspent(v.intent)
                 /\ v.consent
                 /\ v.signer = merchant[v.intent.merchant].key

\* Mutant: only the direct entry point marks its intents.
SpentDirectly(i) == IF call.args.funding = Direct THEN consumed \union {i.id} ELSE consumed

\* DataKey::ConsumedIntent(intent_id): one name space for all merchants.
Spent(i) == consumed \union {i.id}

\* authorize_intent: every check, then the intent is spent.
AuthorizeIntent ==
  /\ call.stage = "authorize"
  /\ \/ /\ Authorized(call.args)
        /\ consumed' = Spent(call.args.intent)
        /\ Goto(IF call.args.funding = Direct THEN "transfer" ELSE "swap")
        /\ UNCHANGED <<registryVars, balance, events, ledger>>
     \/ ~Authorized(call.args) /\ Fail

\* The token contracts' books.
Debited(b, a, t, n) == [b EXCEPT ![a][t] = @ - n]
Credited(b, a, t, n) == [b EXCEPT ![a][t] = @ + n]

\* The router sells exactly what the merchant asked for, at the pool's price.
BuyExact(price) ==
  LET i == call.args.intent
      f == call.args.funding
  IN /\ price <= f.limit
     /\ price <= balance[i.customer][f.source]
     /\ balance' = Credited(Debited(balance, i.customer, f.source, price),
                            i.customer, i.token, i.amount)
     /\ call' = [call EXCEPT !.stage = "transfer", !.cost = price]

\* swap_tokens_for_exact_tokens; no pool, a late deadline, a price above the
\* ceiling or beyond the customer's means all trap.
RouterSwap == /\ call.stage = "swap"
              /\ \/ /\ \E price \in Prices : BuyExact(price)
                    /\ UNCHANGED <<registryVars, consumed, events, ledger>>
                 \/ Fail

\* Mutant: after a swap, what the swap cost is what the merchant receives.
MovedAtCost(c) == IF c.args.funding = Direct THEN c.args.intent.amount ELSE c.cost

\* The amount the token transfer moves: the merchant's own, however funded.
Moved(c) == c.args.intent.amount

\* The transfer and the events that close both entry points.
Transfer ==
  /\ call.stage = "transfer"
  /\ LET i == call.args.intent IN
     \/ /\ Moved(call) <= balance[i.customer][i.token]
        /\ balance' = Credited(Debited(balance, i.customer, i.token, Moved(call)),
                               i.recipient, i.token, Moved(call))
        /\ events' = Append(events, [intent |-> i, funding |-> call.args.funding,
                                     cost |-> call.cost])
        /\ call' = NoCall
        /\ UNCHANGED <<registryVars, consumed, ledger>>
     \/ Fail

AdminStep == \/ \E t \in Tokens, on \in BOOLEAN : RegisterAsset(t, on)
             \/ SetSwapRouter
             \/ \E m \in Merchants, k \in Keys, a \in Accounts : RegisterMerchant(m, k, a)
             \/ \E m \in Merchants : RevokeMerchant(m)

CallStep == CheckSwap \/ AuthorizeIntent \/ RouterSwap \/ Transfer

ScNext == \/ AdminStep \/ CloseLedger \/ CallStep
          \/ \E v \in Invocation : Invoke(v)

ScSpec == ScInit /\ [][ScNext]_scVars

-----------------------------------------------------------------------------
\* Type invariant.
ScTypeOK ==
  /\ merchant \in [Merchants -> Merchant \union {NoMerchant}]
  /\ supported \subseteq Tokens
  /\ router \in BOOLEAN
  /\ consumed \subseteq Ids
  /\ balance \in [Accounts -> [Tokens -> Nat]]
  /\ events \in Seq(Event)
  /\ ledger \in Nat
  /\ call \in Call \union {NoCall}

\* An intent is spent exactly when it was paid: a call that fails after the mark
\* was set (a swap above its ceiling, an empty account) leaves the intent
\* payable, and a paid one is marked for good (authorize_intent).
SpentMeansPaid ==
  AtRest => consumed = {events[n].intent.id : n \in 1 .. Len(events)}

\* The sum of a sequence of amounts.
Total(amounts) ==
  LET sum[n \in 0 .. Len(amounts)] == IF n = 0 THEN 0 ELSE sum[n - 1] + amounts[n]
  IN  sum[Len(amounts)]

\* What a settlement gave to and took from an account, in one token.
Gain(e, a, t) == IF e.intent.recipient = a /\ e.intent.token = t THEN e.intent.amount ELSE 0

\* The payment itself, or what the swap before it cost.
Given(e) == IF e.funding = Direct THEN [token |-> e.intent.token, amount |-> e.intent.amount]
                                  ELSE [token |-> e.funding.source, amount |-> e.cost]

Price(e, a, t) == IF e.intent.customer = a /\ Given(e).token = t THEN Given(e).amount ELSE 0

Received(a, t) == Total([n \in 1 .. Len(events) |-> Gain(events[n], a, t)])

Spending(a, t) == Total([n \in 1 .. Len(events) |-> Price(events[n], a, t)])

\* Books of the token contracts that the settlements so far account for.
Explained(b) == \A a \in Accounts, t \in Tokens :
                  b[a][t] + Spending(a, t) = Funds[a][t] + Received(a, t)

\* Between calls every balance is explained by the settlements alone: merchants
\* received exactly the amounts they signed for, customers gave exactly those
\* amounts or, after a swap, what the swap cost them in the token they held,
\* and a call that failed halfway moved nothing.
BalancesExplained == AtRest => Explained(balance)

\* What the books expect of the chain (SettlementLedger) is what the contract
\* does: no intent settles twice, under any customer, merchant, key or way of
\* funding it, and none at its expiry ledger or later.
Chain == INSTANCE SettlementLedger WITH
  Deadlines <- {i.expires : i \in Intents},
  now <- ledger,
  settled <- [n \in 1 .. Len(events) |->
                [id |-> events[n].intent.id, deadline |-> events[n].intent.expires]]

ImplementsLedger == Chain!LedgerSpec

-----------------------------------------------------------------------------
(* The inductive invariant behind the safety theorems.                     *)

\* What the running call may undo is what was there between calls.
SavedSound == ~AtRest =>
  call.before.consumed = {events[n].intent.id : n \in 1 .. Len(events)}

\* Up to its checks the call has spent nothing; past them, its intent alone.
StageSound ==
  /\ call.stage \in {"check", "authorize"} => consumed = call.before.consumed
  /\ call.stage \in {"swap", "transfer"} =>
       /\ call.args.intent.id \notin call.before.consumed
       /\ consumed = call.before.consumed \union {call.args.intent.id}
       /\ ledger < call.args.intent.expires
  /\ call.stage = "swap" => call.args.funding # Direct

\* The running call began with books the settlements account for, and has moved
\* nothing but the customer's own tokens, through the router.
BooksSound == ~AtRest =>
  LET i == call.args.intent
      f == call.args.funding
      b == call.before.balance
  IN /\ Explained(b)
     /\ \/ /\ call.stage # "transfer" \/ f = Direct
           /\ balance = b
        \/ /\ call.stage = "transfer" /\ f # Direct
           /\ call.cost <= b[i.customer][f.source]
           /\ balance = Credited(Debited(b, i.customer, f.source, call.cost),
                                 i.customer, i.token, i.amount)

\* The contract's inductive invariant.
ScInv == /\ ScTypeOK /\ SpentMeansPaid /\ SavedSound /\ StageSound
         /\ BalancesExplained /\ BooksSound

=============================================================================
