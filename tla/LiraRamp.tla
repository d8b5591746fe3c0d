------------------------------- MODULE LiraRamp -------------------------------
(***************************************************************************)
(* Money between a bank and the phone's wallet: the lira screen            *)
(* (LiraDepositScreen), the transfers it opens at the anchor (liraRamp),   *)
(* and the bridge, the classic account that stands in for a smart wallet   *)
(* (bridgeAccount, anchorBridge, walletToBridge).                          *)
(*                                                                         *)
(* Each visit of the screen is a component instance of its own: leaving it *)
(* clears the interval it has, and stops nothing that already runs.  The   *)
(* interval fires every three seconds whether or not the last callback     *)
(* ended, so several callbacks may be moving the same deposit.             *)
(*                                                                         *)
(* Every transfer is one unit of USDC, a coin named after the transfer.    *)
(* Which coin of an account a transaction takes is bookkeeping: it takes   *)
(* those it was built for that are still there, and others for the rest.   *)
(***************************************************************************)
EXTENDS Naturals, FiniteSets

CONSTANTS Transfers, \* what the anchor opens, and the coin each one moves
          Keys,      \* key pairs the phone may generate for its bridge
          Ticks,     \* poll callbacks that can run at once
          MaxVisits, \* bound: times the screen is opened
          RpcLags,   \* the phone's RPC node may trail the ledger the anchor reads
          Nothing

\* What the values of the constants must satisfy; assumed where they are given.
RampAssumption == /\ MaxVisits \in Nat /\ RpcLags \in BOOLEAN /\ IsFiniteSet(Transfers)
                  /\ Ticks \intersect (1 .. MaxVisits) = {}
                  /\ Nothing \notin Transfers \union Keys \union Ticks \union (1 .. MaxVisits)
                  /\ Nothing # "wallet"
                  /\ Keys \intersect {"wallet", "anchor", "claimable", "treasury"} = {}

VARIABLES custody, \* "classic" or "smart": AppState.wallet or AppState.smartWallet
          stored,  \* the bridge key in the Keychain
          minted,  \* the bridge keys generated so far
          trusts,  \* accounts with a line for USDC
          place,   \* place[t]: where the coin of t is
          unseen,  \* coins whose arrival the phone's RPC node has not seen
          opened,  \* opened[t]: the anchor's record of t
          txs,     \* transactions the phone sent and the ledger has not closed over
          paid,    \* withdrawals whose payment, with their memo, was included
          visit,   \* visits so far, the last of them the current one
          mounted, \* the screen is open
          flow,    \* flow[v]: where begin() of visit v is
          timer,   \* timer[v]: the transfer the interval of v polls
          shown,   \* shown[v]: the status line of v
          tick,    \* tick[s]: a running callback
          outcome, \* outcome[o]: of the transaction that begin() or a callback awaits
          recorded,\* rampActivities, by transfer
          signedOut

bridgeVars  == <<stored, minted, signedOut>>
ledgerVars == <<trusts, place, unseen, txs, paid, outcome>>
screenVars == <<visit, mounted, flow, timer, shown>>
rampVars   == <<custody, bridgeVars, ledgerVars, opened, screenVars, tick, recorded>>

Visits   == 1 .. MaxVisits
Accounts == Keys \union {"wallet"}
Places   == Accounts \union {"anchor", "claimable", "treasury"}

\* SEP-6 transfers as the anchor reports them; account is whom a deposit pays.
AnchorStates == {"waiting", "converting", "completed", "error"}
Opened   == [dir : {"add", "cash-out"}, account : Accounts, state : AnchorStates]
Unopened == [dir |-> "none", account |-> Nothing, state |-> "none"]

Owners == Visits \union Ticks
RampTx == [kind : {"move", "pay", "claim", "sweep"}, owner : Owners \union {Nothing},
       from : Accounts \union {Nothing}, coins : SUBSET Transfers, for : Transfers, to : Places]

\* The status line: readableStatus, and what the callbacks set.
ShownStatuses == {"nothing", "started", "sent", "unclaimed", "unswept", "done", "failed"}

FlowSteps == {"idle", "discover", "account", "float", "trustline", "session", "open", "move",
              "moving", "pay", "paying"}
NoFlow == [step |-> "idle", dir |-> "none", account |-> Nothing, transfer |-> Nothing]
NoTick == [step |-> "idle", visit |-> 0, transfer |-> Nothing, coins |-> {}]

RampInit == /\ custody \in {"classic", "smart"}
            /\ stored = Nothing /\ minted = {} /\ signedOut = FALSE
            /\ trusts \in {{}, {"wallet"}}
            /\ place = [t \in Transfers |-> "anchor"] /\ unseen = {}
            /\ opened = [t \in Transfers |-> Unopened]
            /\ txs = {} /\ paid = {} /\ outcome = [o \in Owners |-> "none"]
            /\ visit = 0 /\ mounted = FALSE
            /\ flow = [v \in Visits |-> NoFlow]
            /\ timer = [v \in Visits |-> Nothing]
            /\ shown = [v \in Visits |-> "nothing"]
            /\ tick = [s \in Ticks |-> NoTick]
            /\ recorded = {}

-----------------------------------------------------------------------------
(* The ledger and the anchor, as the phone uses them.                      *)

CoinsIn(a) == {t \in Transfers : place[t] = a}

\* sendTransaction took it; its owner awaits the outcome.
Sends(o, tx) == /\ txs' = txs \union {tx}
                /\ outcome' = [outcome EXCEPT ![o] = "none"]
NewTx(o, kind, from, coins, t, to) ==
  [kind |-> kind, owner |-> o, from |-> from, coins |-> coins, for |-> t, to |-> to]

\* The accounts a transaction spends.
Source(tx) == IF tx.kind = "move" THEN "wallet" ELSE IF tx.kind = "claim" THEN "claimable" ELSE tx.from

\* The coins a transaction takes: its own that are there, and others for the rest.
Takes(tx, C) == /\ Cardinality(C) = Cardinality(tx.coins)
                /\ C \subseteq CoinsIn(Source(tx))
                /\ tx.coins \intersect CoinsIn(Source(tx)) \subseteq C
                /\ tx.kind = "claim" => C = tx.coins

\* An account without the line cannot receive; contracts and the treasury can.
Receives(to) == to \notin Accounts \/ to \in trusts \/ (to = "wallet" /\ custody = "smart")

\* Transactions of one account that are in flight together were built on one
\* sequence number: one at most is included.  The wallet's move rides on the
\* relayer's account, which has others.
Competing(tx) == {other \in txs : other.from = tx.from /\ tx.from # Nothing} \union {tx}

Informs(ended, ok) == outcome' = [o \in Owners |->
  IF \E tx \in ended : tx.owner = o THEN IF o \in ok THEN "ok" ELSE "failed" ELSE outcome[o]]

IncludeTx(tx) ==
  /\ txs' = txs \ Competing(tx)
  /\ \/ /\ Receives(tx.to)
        /\ \E C \in SUBSET Transfers :
             /\ Takes(tx, C)
             /\ place' = [t \in Transfers |-> IF t \in C THEN tx.to ELSE place[t]]
        /\ paid' = IF tx.kind = "pay" THEN paid \union {tx.for} ELSE paid
        /\ Informs(Competing(tx), {tx.owner})
     \/ /\ ~Receives(tx.to) \/ ~\E C \in SUBSET Transfers : Takes(tx, C)
        /\ Informs(Competing(tx), {})
        /\ UNCHANGED <<place, paid>>
  /\ UNCHANGED <<custody, bridgeVars, trusts, unseen, opened, screenVars, tick, recorded>>

\* setTimeout(60) ran out.
Lapse(tx) == /\ txs' = txs \ {tx}
             /\ Informs({tx}, {})
             /\ UNCHANGED <<custody, bridgeVars, trusts, place, unseen, paid, opened, screenVars,
                            tick, recorded>>

\* The customer's bank transfer arrives, or simulateBankTransfer pretends it did.
BankTransfer(t) == /\ opened[t].dir = "add" /\ opened[t].state = "waiting"
                   /\ opened' = [opened EXCEPT ![t].state = "converting"]
                   /\ UNCHANGED <<custody, bridgeVars, ledgerVars, screenVars, tick, recorded>>

\* The anchor pays a deposit out: to the account it was opened for, or into a
\* claimable balance, which it calls completed as well.
AnchorPays(t) ==
  /\ opened[t].dir = "add" /\ opened[t].state = "converting"
  /\ opened' = [opened EXCEPT ![t].state = "completed"]
  /\ \/ /\ opened[t].account \in trusts
        /\ place' = [place EXCEPT ![t] = opened[t].account]
        /\ unseen' = IF RpcLags THEN unseen \union {t} ELSE unseen
     \/ place' = [place EXCEPT ![t] = "claimable"] /\ UNCHANGED unseen
  /\ UNCHANGED <<custody, bridgeVars, trusts, txs, paid, outcome, screenVars, tick, recorded>>

\* The anchor sees the payment of a withdrawal, or gives a transfer up.
AnchorEnds(t) ==
  /\ \/ /\ opened[t].dir = "cash-out" /\ opened[t].state = "waiting"
        /\ t \in paid
        /\ opened' = [opened EXCEPT ![t].state = "completed"]
     \/ /\ opened[t].state \in {"waiting", "converting"}
        /\ opened' = [opened EXCEPT ![t].state = "error"]
  /\ UNCHANGED <<custody, bridgeVars, ledgerVars, screenVars, tick, recorded>>

NodeCatchesUp == /\ unseen # {} /\ unseen' = {}
                 /\ UNCHANGED <<custody, bridgeVars, trusts, place, txs, paid, outcome,
                                opened, screenVars, tick, recorded>>

-----------------------------------------------------------------------------
(* begin(): startLiraDeposit and startLiraWithdrawal.                      *)

flowOnly == <<custody, bridgeVars, ledgerVars, opened, visit, mounted, timer, shown, tick, recorded>>

\* Any await of begin() may throw: the message is shown and the button is free.
Throws(v) == flow' = [flow EXCEPT ![v] = NoFlow]

Step(v, step) == flow' = [flow EXCEPT ![v].step = step]

OpenScreen == /\ ~mounted /\ ~signedOut /\ visit < MaxVisits
              /\ visit' = visit + 1 /\ mounted' = TRUE
              /\ UNCHANGED <<custody, bridgeVars, ledgerVars, opened, flow, timer, shown, tick, recorded>>

\* The cleanup of the effect: only the interval that is set now is cleared.
LeaveScreen == /\ mounted /\ mounted' = FALSE
               /\ timer' = [timer EXCEPT ![visit] = Nothing]
               /\ UNCHANGED <<custody, bridgeVars, ledgerVars, opened, visit, flow, shown, tick, recorded>>

\* The button is there until a transfer was started, and not while one is.
Ready(v) == mounted /\ visit = v /\ flow[v].step = "idle" /\ shown[v] = "nothing"

\* begin(), with an amount that passes assertPayableAmount.
Begin(v, dir) ==
  /\ Ready(v)
  /\ \E t \in Transfers : opened[t] = Unopened
  /\ flow' = [flow EXCEPT ![v] = [NoFlow EXCEPT !.step = "discover", !.dir = dir]]
  /\ UNCHANGED flowOnly

\* An await that leaves nothing behind.
Awaits(v, step, next) == /\ flow[v].step = step
                         /\ Step(v, next) \/ Throws(v)
                         /\ UNCHANGED flowOnly

\* discoverAnchor: the anchor's stellar.toml.
Discover(v) == Awaits(v, "discover", "account")

\* Only a deposit makes sure that the account can hold what it will be paid.
AfterAccount(v) == IF flow[v].dir = "add" THEN "trustline" ELSE "session"

\* ensureBridgeAccount: a Keychain that cannot be read answers as if it were
\* empty, and a new key replaces the old one.
BridgeKey(k) == \/ k = stored /\ UNCHANGED <<stored, minted>>
                \/ k \notin minted /\ stored' = k /\ minted' = minted \union {k}

\* resolveRampAccount: the phone's own key behind its prompt, or the bridge's.
ResolveAccount(v) ==
  /\ flow[v].step = "account"
  /\ \/ /\ custody = "classic" /\ ~signedOut
        /\ flow' = [flow EXCEPT ![v].account = "wallet", ![v].step = AfterAccount(v)]
        /\ UNCHANGED <<stored, minted>>
     \/ /\ custody = "smart" /\ ~signedOut
        /\ \E k \in Keys : BridgeKey(k) /\ flow' = [flow EXCEPT ![v].account = k,
                                                             ![v].step = "float"]
     \/ Throws(v) /\ UNCHANGED <<stored, minted>>
  /\ UNCHANGED <<custody, signedOut, ledgerVars, opened, visit, mounted, timer, shown, tick, recorded>>

\* fundBridgeAccount: lumens for fees, from the wallet or from the faucet.
FundBridge(v) == Awaits(v, "float", AfterAccount(v))

\* ensureTrustline: nothing to do, or one transaction that is waited for.  It may
\* be included after the wait gave up.
EnsureTrustline(v) ==
  /\ flow[v].step = "trustline"
  /\ \/ Step(v, "session") /\ trusts' = trusts \union {flow[v].account}
     \/ Throws(v) /\ trusts' \in {trusts, trusts \union {flow[v].account}}
  /\ UNCHANGED <<custody, bridgeVars, place, unseen, txs, paid, outcome, opened, visit, mounted,
                 timer, shown, tick, recorded>>

\* authenticate: SEP-10, for the account and nobody else.
Authenticate(v) == Awaits(v, "session", "open")

Opens(v, t) == /\ flow[v].step = "open" /\ opened[t] = Unopened
               /\ opened' = [opened EXCEPT ![t] = [dir |-> flow[v].dir, account |-> flow[v].account,
                                                   state |-> "waiting"]]

\* A deposit is waited for from here on; the interval is set even if the screen
\* is gone.
OpenDeposit(v, t) == /\ flow[v].dir = "add" /\ Opens(v, t)
                     /\ timer' = [timer EXCEPT ![v] = t]
                     /\ shown' = [shown EXCEPT ![v] = "started"]
                     /\ flow' = [flow EXCEPT ![v] = NoFlow]
                     /\ UNCHANGED place

\* A withdrawal goes on to pay the anchor what the balance shows.
OpenWithdrawal(v, t) == /\ flow[v].dir = "cash-out" /\ Opens(v, t)
                        /\ place' = [place EXCEPT ![t] = "wallet"]
                        /\ flow' = [flow EXCEPT ![v].transfer = t,
                             ![v].step = IF flow[v].account = "wallet" THEN "pay" ELSE "move"]
                        /\ UNCHANGED <<timer, shown>>

RefusesTransfer(v) == /\ flow[v].step = "open" /\ Throws(v)
                      /\ UNCHANGED <<opened, place, timer, shown>>

OpenTransfer(v) ==
  /\ RefusesTransfer(v) \/ \E t \in Transfers : OpenDeposit(v, t) \/ OpenWithdrawal(v, t)
  /\ UNCHANGED <<custody, bridgeVars, trusts, unseen, txs, paid, outcome, visit, mounted, tick, recorded>>

flowSends == <<custody, bridgeVars, trusts, place, unseen, paid, opened, visit, mounted, timer,
               shown, tick, recorded>>

\* moveUsdcToBridge: what the simulation refuses is not sent.
MoveToBridge(v) ==
  /\ flow[v].step = "move"
  /\ \/ /\ ~signedOut /\ Receives(flow[v].account)
        /\ Sends(v, NewTx(v, "move", Nothing, {flow[v].transfer}, flow[v].transfer, flow[v].account))
        /\ Step(v, "moving")
     \/ Throws(v) /\ UNCHANGED <<txs, outcome>>
  /\ UNCHANGED flowSends

\* The awaited transaction did not end in time: it may still be included.
Abandoned(o) == txs' = {[tx EXCEPT !.owner = IF @ = o THEN Nothing ELSE @] : tx \in txs}

MoveEnds(v) == /\ flow[v].step = "moving"
               /\ \/ outcome[v] = "ok" /\ Step(v, "pay") /\ UNCHANGED txs
                  \/ outcome[v] # "ok" /\ Throws(v) /\ Abandoned(v)
               /\ UNCHANGED outcome /\ UNCHANGED flowSends

\* The payment with the anchor's memo.
PayAnchor(v) ==
  /\ flow[v].step = "pay"
  /\ \/ /\ Sends(v, NewTx(v, "pay", flow[v].account, {flow[v].transfer}, flow[v].transfer, "treasury"))
        /\ Step(v, "paying")
     \/ Throws(v) /\ UNCHANGED <<txs, outcome>>
  /\ UNCHANGED flowSends

\* Mutant: the cash-out is shown as sent once the network took the payment.
PaidUnconfirmed(v) == outcome[v] # "failed"

\* "Waited on rather than assumed."
Paid(v) == outcome[v] = "ok"

PaymentEnds(v) ==
  /\ flow[v].step = "paying"
  /\ flow' = [flow EXCEPT ![v] = NoFlow]
  /\ Abandoned(v)
  /\ \/ /\ Paid(v)
        /\ timer' = [timer EXCEPT ![v] = flow[v].transfer]
        /\ shown' = [shown EXCEPT ![v] = "sent"]
     \/ ~Paid(v) /\ UNCHANGED <<timer, shown>>
  /\ UNCHANGED <<custody, bridgeVars, trusts, place, unseen, paid, outcome, opened, visit, mounted,
                 tick, recorded>>

-----------------------------------------------------------------------------
(* The interval's callback.                                                *)

\* Mutant: the screen is told, and the interval goes on.
ClearTimerNever(v, status) == UNCHANGED timer /\ shown' = [shown EXCEPT ![v] = status]

ClearTimer(v, status) == /\ timer' = [timer EXCEPT ![v] = Nothing]
                         /\ shown' = [shown EXCEPT ![v] = status]

\* addRampActivity, once per transfer, and the last status.
Settle(v, t) == ClearTimer(v, "done") /\ recorded' = recorded \union {t}

Final(state) == state \in {"completed", "error"}

\* Mutant: what the anchor calls completed is settled.
NeedsSweepNever(t) == FALSE

\* A deposit that was opened over a bridge carries `sweep`.
NeedsSweep(t) == opened[t].dir = "add" /\ opened[t].account # "wallet"

\* The interval fires and the anchor answers.
Poll(s, v) ==
  LET t == timer[v] IN
  /\ t # Nothing /\ tick[s].step = "idle"
  /\ \/ /\ Final(opened[t].state) /\ opened[t].state # "completed"
        /\ ClearTimer(v, "failed") /\ UNCHANGED <<tick, recorded>>
     \/ /\ opened[t].state = "completed" /\ place[t] # "claimable" /\ ~NeedsSweep(t)
        /\ Settle(v, t) /\ UNCHANGED tick
     \/ /\ opened[t].state = "completed"
        /\ \/ place[t] = "claimable" /\ tick' = [tick EXCEPT ![s] = [NoTick EXCEPT
                !.step = "claim", !.visit = v, !.transfer = t]]
           \/ /\ place[t] # "claimable" /\ NeedsSweep(t)
              /\ tick' = [tick EXCEPT ![s] = [NoTick EXCEPT
                   !.step = "sweep", !.visit = v, !.transfer = t]]
        /\ UNCHANGED <<timer, shown, recorded>>
  /\ UNCHANGED <<custody, bridgeVars, ledgerVars, opened, visit, mounted, flow>>

tickOnly == <<custody, bridgeVars, trusts, place, unseen, paid, opened, visit, mounted, flow>>

\* The claim or the sweep threw: the polling ends and the screen says so.
Fails(s, status) == /\ ClearTimer(tick[s].visit, status)
                    /\ tick' = [tick EXCEPT ![s] = NoTick]
                    /\ Abandoned(s)
                    /\ UNCHANGED <<outcome, recorded>>

\* claimLiraDeposit asks for the classic key, which a smart wallet has not got.
Claim(s) ==
  /\ tick[s].step = "claim"
  /\ \/ /\ custody = "classic" /\ ~signedOut
        /\ place[tick[s].transfer] = "claimable"
        /\ Sends(s, NewTx(s, "claim", "wallet", {tick[s].transfer}, tick[s].transfer, "wallet"))
        /\ tick' = [tick EXCEPT ![s].step = "claiming"]
        /\ UNCHANGED <<timer, shown, recorded>>
     \/ Fails(s, "unclaimed")
  /\ UNCHANGED tickOnly

\* sweepToSmartWallet reads the bridge's whole balance, as its node sees it;
\* with nothing there it succeeds, and the deposit is settled.
ReadBalance(s) ==
  LET t == tick[s].transfer
      balance == CoinsIn(opened[t].account) \ unseen
  IN /\ tick[s].step = "sweep"
     /\ \/ /\ balance = {}
           /\ Settle(tick[s].visit, t)
           /\ tick' = [tick EXCEPT ![s] = NoTick]
           /\ UNCHANGED <<txs, outcome>>
        \/ /\ balance # {}
           /\ tick' = [tick EXCEPT ![s].step = "send", ![s].coins = balance]
           /\ UNCHANGED <<txs, outcome, timer, shown, recorded>>
        \/ Fails(s, "unswept")
     /\ UNCHANGED tickOnly

\* Built on the sequence number of now, simulated, signed with the key in hand.
SendSweep(s) ==
  LET k == opened[tick[s].transfer].account
      tx == NewTx(s, "sweep", k, tick[s].coins, tick[s].transfer, "wallet")
  IN /\ tick[s].step = "send"
     /\ \/ /\ \E C \in SUBSET Transfers : Takes(tx, C)
           /\ Sends(s, tx)
           /\ tick' = [tick EXCEPT ![s].step = "sweeping"]
           /\ UNCHANGED <<timer, shown, recorded>>
        \/ Fails(s, "unswept")
     /\ UNCHANGED tickOnly

\* pollTransaction answers, or runs out of attempts.
MoneyMoved(s) ==
  /\ tick[s].step \in {"claiming", "sweeping"}
  /\ \/ /\ outcome[s] = "ok"
        /\ Settle(tick[s].visit, tick[s].transfer)
        /\ tick' = [tick EXCEPT ![s] = NoTick]
        /\ UNCHANGED <<txs, outcome>>
     \/ /\ outcome[s] # "ok"
        /\ Fails(s, IF tick[s].step = "claiming" THEN "unclaimed" ELSE "unswept")
  /\ UNCHANGED tickOnly

-----------------------------------------------------------------------------
\* appStore.signOut, from another screen: the bridge's key goes with the rest.
SignOut == /\ ~mounted /\ ~signedOut /\ visit > 0
           /\ signedOut' = TRUE /\ stored' = Nothing /\ recorded' = {}
           /\ UNCHANGED <<custody, minted, ledgerVars, opened, screenVars, tick>>

FlowStep(v) == \/ Discover(v) \/ ResolveAccount(v) \/ FundBridge(v) \/ EnsureTrustline(v)
               \/ Authenticate(v) \/ OpenTransfer(v)
               \/ MoveToBridge(v) \/ MoveEnds(v) \/ PayAnchor(v) \/ PaymentEnds(v)

TickStep(s) == Claim(s) \/ ReadBalance(s) \/ SendSweep(s) \/ MoneyMoved(s)

RampNext == \/ \E tx \in txs : IncludeTx(tx) \/ Lapse(tx)
            \/ \E t \in Transfers : BankTransfer(t) \/ AnchorPays(t) \/ AnchorEnds(t)
            \/ NodeCatchesUp \/ OpenScreen \/ LeaveScreen \/ SignOut
            \/ \E v \in Visits : FlowStep(v) \/ \E dir \in {"add", "cash-out"} : Begin(v, dir)
            \/ \E s \in Ticks : TickStep(s) \/ \E v \in Visits : Poll(s, v)

RampSpec == RampInit /\ [][RampNext]_rampVars

-----------------------------------------------------------------------------
\* Type invariant of the ramp, and what its callbacks may rely on.
RampTypeOK ==
  /\ custody \in {"classic", "smart"} /\ stored \in minted \union {Nothing} /\ minted \subseteq Keys
  /\ place \in [Transfers -> Places] /\ txs \subseteq RampTx
  /\ opened \in [Transfers -> Opened \union {Unopened}]
  /\ \A v \in Visits : /\ flow[v].step \in FlowSteps
                       /\ timer[v] # Nothing => opened[timer[v]] # Unopened
                       /\ shown[v] \in ShownStatuses
  /\ \A s \in Ticks : tick[s].step # "idle" => opened[tick[s].transfer].state = "completed"

\* "Money that has not arrived must never look like money that has": a deposit
\* in the activity list is not waiting on a bridge, unclaimed, or at the anchor.
ReportedMeansArrived ==
  \A t \in recorded : opened[t].dir = "add" => place[t] \notin {"anchor", "claimable"} \union Keys

\* A cash-out shown as sent has left the phone's accounts for the anchor's.
SentMeansPaid ==
  \A v \in Visits : shown[v] = "sent" /\ timer[v] # Nothing => timer[v] \in paid

\* A deposit that arrived while its screen polls is settled, or the customer is
\* told what became of it, or leaves.
ArrivedIsSettledOrTold ==
  \A v \in Visits :
    mounted /\ visit = v /\ timer[v] # Nothing /\ opened[timer[v]].state = "completed"
      ~> timer[v] = Nothing \/ ~mounted

-----------------------------------------------------------------------------
\* What the sources say and the code does not keep (README, section 4): no run
\* lists it.
\* The bridge "holds no money, so dropping it costs nothing": no coin is in an
\* account whose key neither the Keychain nor a running callback has.
NoStrandedMoney ==
  \A t \in Transfers : place[t] \in Keys =>
    \/ place[t] = stored
    \/ \E s \in Ticks : tick[s].step # "idle" /\ opened[tick[s].transfer].account = place[t]
    \/ \E v \in Visits : flow[v].account = place[t] \/ timer[v] = t

=============================================================================
