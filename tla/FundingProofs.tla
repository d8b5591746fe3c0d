----------------------------- MODULE FundingProofs -----------------------------
(***************************************************************************)
(* The lira ramp: money that has not arrived never looks like money that   *)
(* has, and a cash-out shown as sent has been paid, for any number of      *)
(* transfers, keys, visits and callbacks that run at once.  And of the     *)
(* hosted transfer: a saved one is tracked until it is over.               *)
(*                                                                         *)
(* The induction over the ramp carries what each party relies on: which    *)
(* transaction an outcome is of, that the coin of a move waits in the      *)
(* wallet for it, and that a sweep was built for every coin its transfer   *)
(* still has to move.                                                      *)
(***************************************************************************)
EXTENDS LiraRamp, AnchorTransfer, FiniteSetTheorems, TLAPS

\* The node a phone reads shows what the anchor has seen.
FreshNode == RampAssumption /\ RpcLags = FALSE

FlowRecord == [step : FlowSteps, dir : {"none", "add", "cash-out"}, account : Accounts \union {Nothing},
               transfer : Transfers \union {Nothing}]

TickRecord == [step : {"idle", "claim", "claiming", "sweep", "send", "sweeping"}, visit : Visits \union {0},
               transfer : Transfers \union {Nothing}, coins : SUBSET Transfers]

RampTypes == /\ custody \in {"classic", "smart"}
             /\ minted \subseteq Keys /\ stored \in minted \union {Nothing} /\ unseen = {}
             /\ place \in [Transfers -> Places]
             /\ opened \in [Transfers -> Opened \union {Unopened}]
             /\ txs \subseteq RampTx
             /\ outcome \in [Owners -> {"none", "ok", "failed"}]
             /\ visit \in 0 .. MaxVisits /\ (mounted => visit # 0)
             /\ flow \in [Visits -> FlowRecord]
             /\ timer \in [Visits -> Transfers \union {Nothing}]
             /\ shown \in [Visits -> ShownStatuses]
             /\ tick \in [Ticks -> TickRecord]
             /\ recorded \subseteq Transfers

\* The accounts that take part: the classic wallet, or a bridge for a smart one.
Serves(a) == IF custody = "classic" THEN a = "wallet" ELSE a \in Keys

\* begin() knows whom it acts for; a coin to be moved waits in the wallet for the
\* one transaction that moves it.
FlowSound(v) ==
  /\ flow[v].step \notin {"idle", "discover", "account"} => Serves(flow[v].account)
  /\ flow[v].step \in {"move", "moving", "pay", "paying"} =>
       flow[v].transfer \in Transfers /\ opened[flow[v].transfer].dir = "cash-out"
  /\ flow[v].step \in {"move", "moving"} => custody = "smart"
  /\ flow[v].step = "move" =>
       /\ place[flow[v].transfer] = "wallet"
       /\ \A tx \in txs : tx.kind = "move" => tx.for # flow[v].transfer
       /\ \A u \in Visits : flow[u].step = "move" /\ flow[u].transfer = flow[v].transfer => u = v
  /\ flow[v].step = "paying" /\ outcome[v] = "ok" => flow[v].transfer \in paid

\* A deposit stays at the anchor until it completes, then in a claimable balance
\* or in its own account until it is moved on.
TransferSound(t) ==
  /\ opened[t] # Unopened => Serves(opened[t].account)
  /\ opened[t] = Unopened \/ (opened[t].dir = "add" /\ opened[t].state # "completed")
       => place[t] = "anchor"
  /\ place[t] = "claimable" => opened[t].dir = "add"
  /\ opened[t].dir = "add" /\ opened[t].state = "completed" => place[t] # "anchor"
  /\ opened[t].dir = "add" /\ place[t] \in Keys => place[t] = opened[t].account
  /\ \A v \in Visits : timer[v] = t => opened[t] # Unopened

\* Whoever awaits a transaction awaits this one.
OwnedTx(tx, o) ==
  \/ o \in Visits /\ flow[o].step = "moving" /\ tx.kind = "move"
  \/ o \in Visits /\ flow[o].step = "paying" /\ tx.kind = "pay" /\ tx.for = flow[o].transfer
  \/ o \in Ticks /\ tick[o].step = "claiming" /\ tx.kind = "claim" /\ tx.for = tick[o].transfer
  \/ /\ o \in Ticks /\ tick[o].step = "sweeping" /\ tx.kind = "sweep" /\ tx.for = tick[o].transfer
     /\ tx.from = opened[tx.for].account /\ tx.coins = tick[o].coins

MoveTxSound(tx) ==
  /\ custody = "smart" /\ tx.from = Nothing /\ tx.to \in Keys /\ tx.coins = {tx.for}
  /\ place[tx.for] = "wallet" /\ opened[tx.for].dir = "cash-out"
  /\ \A other \in txs : other.kind = "move" /\ other.for = tx.for => other = tx

TxSound(tx) ==
  /\ tx.kind = "move" => MoveTxSound(tx)
  /\ tx.kind = "pay" => Serves(tx.from) /\ tx.to = "treasury"
  /\ tx.kind = "claim" => custody = "classic" /\ tx.to = "wallet" /\ tx.coins = {tx.for}
  /\ tx.kind = "sweep" => custody = "smart" /\ tx.from \in Keys /\ tx.to = "wallet"
  /\ tx.owner # Nothing => /\ OwnedTx(tx, tx.owner) /\ outcome[tx.owner] # "ok"
                           /\ \A other \in txs : other.owner = tx.owner => other = tx

\* A callback that moves money has what its transfer still has to move.
TickSound(s) ==
  tick[s].step # "idle" =>
    LET t == tick[s].transfer IN
    /\ t \in Transfers /\ tick[s].visit \in Visits
    /\ opened[t].state = "completed" /\ opened[t].dir = "add"
    /\ tick[s].step = "claiming" => custody = "classic" /\ (outcome[s] = "ok" => place[t] # "claimable")
    /\ tick[s].step \in {"sweep", "send", "sweeping"} => opened[t].account # "wallet" /\ place[t] # "claimable"
    /\ tick[s].step \in {"send", "sweeping"} => t \in tick[s].coins \/ place[t] # opened[t].account
    /\ tick[s].step = "sweeping" /\ outcome[s] = "ok" => place[t] # opened[t].account

RecordedSound == ReportedMeansArrived /\ \A t \in recorded : opened[t].state = "completed"

RampInv == /\ RampTypes
           /\ \A v \in Visits : FlowSound(v)
           /\ \A t \in Transfers : TransferSound(t)
           /\ \A tx \in txs : TxSound(tx)
           /\ \A s \in Ticks : TickSound(s)
           /\ RecordedSound /\ SentMeansPaid

LEMMA RampNames ==
  ASSUME FreshNode
  PROVE  /\ Keys \intersect {"wallet", "anchor", "claimable", "treasury"} = {}
         /\ Nothing \notin Transfers \union Keys \union Owners /\ Nothing # "wallet"
         /\ Ticks \intersect Visits = {} /\ RpcLags = FALSE /\ MaxVisits \in Nat
         /\ IsFiniteSet(Transfers)
  BY DEF FreshNode, RampAssumption, Owners, Visits

LEMMA UnopenedIsNot == Unopened \notin Opened /\ Unopened.dir = "none" /\ Unopened.state = "none"
  BY DEF Unopened, Opened

LEMMA RampStart == FreshNode /\ RampInit => RampInv
<1> SUFFICES ASSUME FreshNode, RampInit PROVE RampInv
  OBVIOUS
<1> USE RampNames, UnopenedIsNot
<1>1. NoFlow \in FlowRecord /\ NoFlow.step = "idle"
  BY DEF NoFlow, FlowRecord, FlowSteps
<1>2. NoTick \in TickRecord /\ NoTick.step = "idle"
  BY DEF NoTick, TickRecord
<1>3. RampTypes
  BY <1>1, <1>2 DEF RampInit, RampTypes, Places, ShownStatuses
<1>4. \A v \in Visits : FlowSound(v)
  BY <1>1 DEF RampInit, FlowSound
<1>5. \A t \in Transfers : TransferSound(t)
  BY DEF RampInit, TransferSound
<1>6. /\ \A tx \in txs : TxSound(tx)
      /\ \A s \in Ticks : TickSound(s)
  BY <1>2 DEF RampInit, TickSound
<1>7. RecordedSound /\ SentMeansPaid
  BY DEF RampInit, RecordedSound, ReportedMeansArrived, SentMeansPaid
<1> QED BY <1>3, <1>4, <1>5, <1>6, <1>7 DEF RampInv

-----------------------------------------------------------------------------
(* A step of the ledger.                                                   *)

\* The one coin of a move is the coin it takes.
LEMMA OneCoin ==
  ASSUME FreshNode, NEW tx, NEW C \in SUBSET Transfers, NEW t \in Transfers,
         Takes(tx, C), tx.coins = {t}, t \in CoinsIn(Source(tx))
  PROVE  C = {t}
<1>1. IsFiniteSet(C)
  BY RampNames, FS_Subset
<1>2. Cardinality(C) = 1
  BY FS_Singleton DEF Takes
<1>3. PICK x : C = {x}
  BY <1>1, <1>2, FS_Singleton
<1>4. t \in C
  BY DEF Takes
<1> QED BY <1>3, <1>4

LEMMA TxFields ==
  ASSUME RampTypes, NEW tx \in txs
  PROVE  /\ tx.kind \in {"move", "pay", "claim", "sweep"} /\ tx.owner \in Owners \union {Nothing}
         /\ tx.from \in Accounts \union {Nothing} /\ tx.coins \in SUBSET Transfers
         /\ tx.for \in Transfers /\ tx.to \in Places
  BY DEF RampTypes, RampTx

\* Where the coins a transaction takes come from, and where they go.
LEMMA CoinsMove ==
  ASSUME FreshNode, RampInv, NEW tx \in txs, NEW C \in SUBSET Transfers, Takes(tx, C), NEW t \in C
  PROVE  /\ tx.kind = "move" => custody = "smart" /\ t = tx.for /\ opened[t].dir = "cash-out" /\ place[t] = "wallet"
         /\ tx.kind # "move" => tx.to \in {"wallet", "treasury"}
         /\ tx.kind # "move" /\ custody = "smart" => place[t] # "wallet"
         /\ place[t] # "anchor" /\ tx.to \notin {"anchor", "claimable"}
<1>1. TxSound(tx) /\ place \in [Transfers -> Places]
  BY TxFields DEF RampInv, RampTypes
<1>2. place[t] = Source(tx)
  BY DEF Takes, CoinsIn
<1>3. CASE tx.kind = "move"
  <2>1. MoveTxSound(tx) /\ tx.for \in Transfers
    BY <1>1, <1>3, TxFields DEF TxSound, RampInv
  <2>2. tx.for \in CoinsIn(Source(tx))
    BY <1>3, <2>1 DEF Source, CoinsIn, MoveTxSound
  <2>3. C = {tx.for}
    BY <2>1, <2>2, OneCoin DEF MoveTxSound
  <2> QED BY <1>3, <2>1, <2>3, RampNames DEF MoveTxSound
<1>4. CASE tx.kind = "pay"
  BY <1>1, <1>2, <1>4, RampNames DEF TxSound, Source, Serves
<1>5. CASE tx.kind = "claim"
  BY <1>1, <1>2, <1>5, RampNames DEF TxSound, Source
<1>6. CASE tx.kind = "sweep"
  BY <1>1, <1>2, <1>6, RampNames DEF TxSound, Source
<1>7. tx.kind \in {"move", "pay", "claim", "sweep"}
  BY TxFields DEF RampInv
<1> QED BY <1>3, <1>4, <1>5, <1>6, <1>7

\* What the ledger tells: of the transactions that ended, those in ok succeeded.
LEMMA Informed ==
  ASSUME RampTypes, NEW ended, NEW ok, Informs(ended, ok)
  PROVE  /\ outcome' \in [Owners -> {"none", "ok", "failed"}]
         /\ \A o \in Owners : outcome'[o] = "ok" => outcome[o] = "ok" \/ (o \in ok /\ \E tx \in ended : tx.owner = o)
         /\ \A o \in Owners : (\A tx \in ended : tx.owner # o) => outcome'[o] = outcome[o]
  BY DEF RampTypes, Informs

\* Nothing moved: transactions ended, and none of them succeeded.
LEMMA NothingMoved ==
  ASSUME FreshNode, RampInv, txs' \subseteq txs, NEW ended \in SUBSET txs, txs' = txs \ ended, Informs(ended, {}),
         UNCHANGED <<custody, bridgeVars, trusts, place, unseen, paid, opened, screenVars, tick, recorded>>
  PROVE  RampInv'
<1>1. /\ outcome' \in [Owners -> {"none", "ok", "failed"}]
      /\ \A o \in Owners : outcome'[o] = "ok" => outcome[o] = "ok"
  BY Informed DEF RampInv
<1>2. RampTypes'
  BY <1>1 DEF RampInv, RampTypes, bridgeVars, screenVars
<1>3. ASSUME NEW v \in Visits PROVE FlowSound(v)'
  <2>1. v \in Owners /\ FlowSound(v)
    BY DEF RampInv, Owners
  <2> QED BY <1>1, <2>1 DEF FlowSound, Serves, screenVars
<1>4. ASSUME NEW t \in Transfers PROVE TransferSound(t)'
  BY DEF RampInv, TransferSound, Serves, screenVars
<1>5. ASSUME NEW tx \in txs' PROVE TxSound(tx)'
  <2>1. TxSound(tx) /\ tx.owner \in Owners \union {Nothing}
    BY TxFields DEF RampInv
  <2> QED BY <1>1, <2>1 DEF TxSound, MoveTxSound, OwnedTx, Serves, screenVars
<1>6. ASSUME NEW s \in Ticks PROVE TickSound(s)'
  <2>1. s \in Owners /\ TickSound(s)
    BY DEF RampInv, Owners
  <2> QED BY <1>1, <2>1 DEF TickSound
<1>7. RecordedSound' /\ SentMeansPaid'
  BY DEF RampInv, RecordedSound, ReportedMeansArrived, SentMeansPaid, screenVars
<1> QED BY <1>2, <1>3, <1>4, <1>5, <1>6, <1>7 DEF RampInv

LEMMA LapseKeeps == ASSUME FreshNode, RampInv, NEW tx \in txs, Lapse(tx) PROVE RampInv'
  BY NothingMoved DEF Lapse

\* Its rivals on one sequence number go with it, and none of the coins is lost.
LEMMA CoinsMoved ==
  ASSUME FreshNode, RampInv, NEW tx \in txs, NEW C \in SUBSET Transfers, Takes(tx, C),
         txs' = txs \ Competing(tx),
         place' = [t \in Transfers |-> IF t \in C THEN tx.to ELSE place[t]],
         paid' = (IF tx.kind = "pay" THEN paid \union {tx.for} ELSE paid),
         Informs(Competing(tx), {tx.owner}),
         UNCHANGED <<custody, bridgeVars, trusts, unseen, opened, screenVars, tick, recorded>>
  PROVE  RampInv'
<1> USE RampNames
<1>1. /\ outcome' \in [Owners -> {"none", "ok", "failed"}]
      /\ \A o \in Owners : outcome'[o] = "ok" => outcome[o] = "ok" \/ o = tx.owner
      /\ \A o \in Owners : (\A r \in Competing(tx) : r.owner # o) => outcome'[o] = outcome[o]
  BY Informed DEF RampInv
<1>2. /\ Competing(tx) \subseteq txs /\ tx \in Competing(tx)
      /\ tx.for \in Transfers /\ tx.to \in Places /\ TxSound(tx)
  BY TxFields DEF Competing, RampInv
<1>3. /\ place \in [Transfers -> Places] /\ place' \in [Transfers -> Places]
      /\ \A t \in Transfers : place'[t] = IF t \in C THEN tx.to ELSE place[t]
  BY <1>2 DEF RampInv, RampTypes
<1>4. \A t \in C : /\ tx.kind = "move" => custody = "smart" /\ t = tx.for /\ opened[t].dir = "cash-out" /\ place[t] = "wallet"
                   /\ tx.kind # "move" => tx.to \in {"wallet", "treasury"}
                   /\ tx.kind # "move" /\ custody = "smart" => place[t] # "wallet"
                   /\ place[t] # "anchor" /\ tx.to \notin {"anchor", "claimable"}
  BY CoinsMove
<1>5. RampTypes'
  BY <1>1, <1>3 DEF RampInv, RampTypes, bridgeVars, screenVars
<1>6. ASSUME NEW v \in Visits PROVE FlowSound(v)'
  <2>1. v \in Owners /\ FlowSound(v) /\ flow' = flow
    BY DEF RampInv, Owners, screenVars
  <2>2. flow[v].step = "move" => place'[flow[v].transfer] = "wallet"
    <3>1. ASSUME flow[v].step = "move", flow[v].transfer \in C PROVE FALSE
      BY <1>2, <1>4, <2>1, <3>1 DEF FlowSound
    <3> QED BY <1>3, <2>1, <3>1 DEF FlowSound
  <2>3. flow[v].step = "paying" /\ outcome'[v] = "ok" => flow[v].transfer \in paid'
    <3>1. CASE outcome[v] = "ok"
      BY <2>1, <3>1 DEF FlowSound
    <3>2. CASE v = tx.owner /\ flow[v].step = "paying"
      BY <1>2, <2>1, <3>2 DEF TxSound, OwnedTx
    <3> QED BY <1>1, <2>1, <3>1, <3>2
  <2> QED BY <2>1, <2>2, <2>3 DEF FlowSound, Serves
<1>7. ASSUME NEW t \in Transfers PROVE TransferSound(t)'
  <2>1. TransferSound(t) /\ UNCHANGED <<opened, timer>>
    BY DEF RampInv, screenVars
  <2>2. tx.to \in Keys => tx.kind = "move"
    BY <1>2, <1>3, <1>4, TxFields DEF RampInv, TxSound
  <2> QED BY <1>3, <1>4, <2>1, <2>2 DEF TransferSound, Serves
<1>8. ASSUME NEW b \in txs' PROVE TxSound(b)'
  <2>1. b \in txs /\ b # tx /\ b \notin Competing(tx) /\ TxSound(b) /\ b.owner \in Owners \union {Nothing}
    BY <1>2, TxFields DEF RampInv
  <2>2. UNCHANGED <<flow, tick, opened, custody>>
    BY DEF screenVars
  <2>3. ASSUME b.kind = "move" PROVE MoveTxSound(b)'
    <3>1. MoveTxSound(b) /\ b.for \in Transfers
      BY <2>1, <2>3, TxFields DEF TxSound, RampInv
    <3>2. b.for \notin C
      BY <1>2, <1>4, <2>1, <2>3, <3>1 DEF MoveTxSound, TxSound
    <3> QED BY <1>3, <2>2, <3>1, <3>2 DEF MoveTxSound
  <2>4. ASSUME b.owner # Nothing PROVE outcome'[b.owner] # "ok"
    <3>1. \A r \in Competing(tx) : r.owner # b.owner
      BY <1>2, <2>1, <2>4 DEF TxSound
    <3> QED BY <1>1, <2>1, <2>4, <3>1 DEF TxSound
  <2> QED BY <2>1, <2>2, <2>3, <2>4 DEF TxSound, OwnedTx, Serves
<1>9. ASSUME NEW s \in Ticks PROVE TickSound(s)'
  <2>1. s \in Owners /\ TickSound(s) /\ UNCHANGED <<tick, opened, custody>>
    BY DEF RampInv, Owners
  <2> DEFINE t == tick[s].transfer
  <2>2. ASSUME tick[s].step # "idle" PROVE TickSound(s)'
    <3>1. t \in Transfers /\ TransferSound(t) /\ opened[t].dir = "add" /\ opened[t].state = "completed"
      BY <2>1, <2>2 DEF TickSound, RampInv
    <3>2. place'[t] = place[t] \/ place'[t] \in {"wallet", "treasury"}
      BY <1>3, <1>4, <3>1
    <3>3. Serves(opened[t].account)
      BY <3>1, UnopenedIsNot DEF TransferSound
    <3>4. opened[t].account \in Keys \union {"wallet"}
      BY <3>3 DEF Serves
    <3>5. ASSUME tick[s].step = "claiming", outcome'[s] = "ok" PROVE place'[t] # "claimable"
      <4>1. CASE outcome[s] = "ok"
        BY <2>1, <2>2, <3>2, <3>5, <4>1 DEF TickSound
      <4>2. CASE s = tx.owner
        <5>1. tx.kind = "claim" /\ tx.for = t
          BY <1>2, <2>1, <3>5, <4>2 DEF TxSound, OwnedTx
        <5>2. C = {t} /\ tx.to = "wallet"
          BY <1>2, <5>1 DEF Takes, TxSound
        <5> QED BY <1>3, <5>2
      <4> QED BY <1>1, <2>1, <3>5, <4>1, <4>2
    <3>6. ASSUME tick[s].step = "sweeping", outcome'[s] = "ok" PROVE place'[t] # opened[t].account
      <4>1. opened[t].account \in Keys
        BY <2>1, <2>2, <3>4, <3>6 DEF TickSound
      <4>2. CASE place[t] # opened[t].account
        BY <3>2, <4>1, <4>2
      <4>3. CASE outcome[s] = "ok"
        BY <2>1, <2>2, <3>6, <4>2, <4>3 DEF TickSound
      <4>4. CASE s = tx.owner /\ place[t] = opened[t].account
        <5>1. tx.kind = "sweep" /\ tx.for = t /\ tx.from = opened[t].account /\ tx.coins = tick[s].coins
          BY <1>2, <2>1, <3>6, <4>4 DEF TxSound, OwnedTx
        <5>2. t \in tx.coins
          BY <2>1, <2>2, <3>6, <4>4, <5>1 DEF TickSound
        <5>3. t \in C
          BY <3>1, <4>4, <5>1, <5>2 DEF Takes, CoinsIn, Source
        <5>4. tx.to = "wallet"
          BY <1>2, <5>1 DEF TxSound
        <5> QED BY <1>3, <3>1, <4>1, <5>3, <5>4
      <4> QED BY <1>1, <2>1, <3>6, <4>2, <4>3, <4>4
    <3>7. ASSUME tick[s].step \in {"sweep", "send", "sweeping"}
          PROVE  opened[t].account # "wallet" /\ place'[t] # "claimable"
      BY <2>1, <2>2, <3>2, <3>7 DEF TickSound
    <3>8. ASSUME tick[s].step \in {"send", "sweeping"} PROVE t \in tick[s].coins \/ place'[t] # opened[t].account
      BY <2>1, <2>2, <3>2, <3>4, <3>7, <3>8 DEF TickSound
    <3> QED BY <2>1, <2>2, <3>1, <3>5, <3>6, <3>7, <3>8 DEF TickSound
  <2> QED BY <2>1, <2>2 DEF TickSound
<1>10. RecordedSound'
  <2>1. ASSUME NEW t \in recorded, opened[t].dir = "add" PROVE place'[t] \notin {"anchor", "claimable"} \union Keys
    BY <1>3, <1>4, <2>1 DEF RampInv, RampTypes, RecordedSound, ReportedMeansArrived
  <2> QED BY <2>1 DEF RampInv, RecordedSound, ReportedMeansArrived
<1>11. SentMeansPaid'
  BY DEF RampInv, SentMeansPaid, screenVars
<1> QED BY <1>5, <1>6, <1>7, <1>8, <1>9, <1>10, <1>11 DEF RampInv

LEMMA IncludeKeeps == ASSUME FreshNode, RampInv, NEW tx \in txs, IncludeTx(tx) PROVE RampInv'
<1>1. Competing(tx) \subseteq txs
  BY DEF Competing
<1>2. CASE Informs(Competing(tx), {}) /\ UNCHANGED <<place, paid>>
  BY <1>1, <1>2, NothingMoved DEF IncludeTx
<1>3. CASE /\ \E C \in SUBSET Transfers :
                /\ Takes(tx, C)
                /\ place' = [t \in Transfers |-> IF t \in C THEN tx.to ELSE place[t]]
           /\ paid' = IF tx.kind = "pay" THEN paid \union {tx.for} ELSE paid
           /\ Informs(Competing(tx), {tx.owner})
  BY <1>3, CoinsMoved DEF IncludeTx
<1> QED BY <1>2, <1>3 DEF IncludeTx

-----------------------------------------------------------------------------
(* Every other step: what is over stays so, and coins leave the anchor only. *)

Gentle ==
  /\ custody' = custody /\ paid \subseteq paid'
  /\ \A t \in Transfers : opened[t] # Unopened =>
       /\ opened'[t] # Unopened
       /\ opened'[t].dir = opened[t].dir /\ opened'[t].account = opened[t].account
       /\ opened[t].state = "completed" => opened'[t].state = "completed"
  /\ \A t \in Transfers : place[t] # "anchor" => place'[t] = place[t]

\* A transaction nobody awaits any more.
Orphan(tx, o) == IF tx.owner = o THEN [tx EXCEPT !.owner = Nothing] ELSE tx

\* The transactions in flight are those there were, less their owner, and what
\* the owner sends.
Carried(o, sent) ==
  /\ sent \subseteq txs' /\ \A tx \in txs' : tx \in sent \/ \E was \in txs : tx = Orphan(was, o)
  /\ \A tx \in sent : /\ tx.owner = o
                      /\ tx.kind = "move" =>
                           /\ \A was \in txs : was.kind = "move" => was.for # tx.for
                           /\ \A v \in Visits \ {o} : flow[v].step = "move" => flow[v].transfer # tx.for

\* Only the owner's own state changes.
OnlyOf(o) == /\ \A v \in Visits \ {o} : flow'[v] = flow[v]
             /\ \A s \in Ticks \ {o} : tick'[s] = tick[s]
             /\ \A p \in Owners \ {o} : outcome'[p] = outcome[p]

LEMMA OrphanFields ==
  ASSUME RampTypes, NEW tx \in txs, NEW o
  PROVE  /\ Orphan(tx, o) \in RampTx
         /\ Orphan(tx, o).kind = tx.kind /\ Orphan(tx, o).from = tx.from /\ Orphan(tx, o).coins = tx.coins
         /\ Orphan(tx, o).for = tx.for /\ Orphan(tx, o).to = tx.to
         /\ Orphan(tx, o).owner = IF tx.owner = o THEN Nothing ELSE tx.owner
  BY DEF RampTypes, RampTx, Orphan

LEMMA AbandonedCarries ==
  ASSUME RampTypes, NEW o, Abandoned(o)
  PROVE  Carried(o, {}) /\ txs' \subseteq RampTx
<1>1. ASSUME NEW tx \in txs PROVE [tx EXCEPT !.owner = IF @ = o THEN Nothing ELSE @] = Orphan(tx, o)
  BY DEF RampTypes, RampTx, Orphan
<1>2. txs' = {Orphan(tx, o) : tx \in txs}
  BY <1>1 DEF Abandoned
<1> QED BY <1>2, OrphanFields DEF Carried

LEMMA UnownedCarries ==
  ASSUME NEW o, UNCHANGED txs, \A tx \in txs : tx.owner # o
  PROVE  Carried(o, {})
<1>1. \A tx \in txs : tx = Orphan(tx, o)
  BY DEF Orphan
<1> QED BY <1>1 DEF Carried

LEMMA TickRests ==
  ASSUME FreshNode, RampInv, Gentle, NEW s \in Ticks, tick'[s] = tick[s], outcome'[s] = outcome[s]
  PROVE  TickSound(s)'
<1>1. TickSound(s)
  BY DEF RampInv
<1>2. ASSUME tick[s].step # "idle" PROVE TickSound(s)'
  <2> DEFINE t == tick[s].transfer
  <2>1. t \in Transfers /\ TransferSound(t) /\ opened[t].state = "completed" /\ opened[t].dir = "add"
    BY <1>1, <1>2 DEF TickSound, RampInv
  <2>2. opened[t] # Unopened /\ place[t] # "anchor"
    BY <2>1, UnopenedIsNot DEF TransferSound
  <2>3. /\ opened'[t].state = "completed" /\ opened'[t].dir = "add" /\ opened'[t].account = opened[t].account
        /\ place'[t] = place[t] /\ custody' = custody
    BY <2>1, <2>2 DEF Gentle
  <2> QED BY <1>1, <1>2, <2>1, <2>3 DEF TickSound
<1> QED BY <1>1, <1>2 DEF TickSound

LEMMA FlowRests ==
  ASSUME FreshNode, RampInv, Gentle, NEW v \in Visits, flow'[v] = flow[v], outcome'[v] = outcome[v],
         flow[v].step = "move" =>
           /\ \A tx \in txs' : tx.kind = "move" => tx.for # flow[v].transfer
           /\ \A u \in Visits : flow'[u].step = "move" /\ flow'[u].transfer = flow[v].transfer => u = v
  PROVE  FlowSound(v)'
<1>1. FlowSound(v)
  BY DEF RampInv
<1>2. ASSUME flow[v].step \in {"move", "moving", "pay", "paying"} PROVE opened'[flow[v].transfer].dir = "cash-out"
  BY <1>1, <1>2, UnopenedIsNot DEF FlowSound, Gentle
<1>3. ASSUME flow[v].step = "move" PROVE place'[flow[v].transfer] = "wallet"
  BY <1>1, <1>3 DEF FlowSound, Gentle
<1> QED BY <1>1, <1>2, <1>3 DEF FlowSound, Gentle, Serves

LEMMA TransferRests ==
  ASSUME RampInv, NEW t \in Transfers, UNCHANGED <<opened[t], place[t], custody>>,
         \A v \in Visits : timer'[v] = t => opened[t] # Unopened
  PROVE  TransferSound(t)'
  BY DEF RampInv, TransferSound, Serves

LEMMA TxRests ==
  ASSUME FreshNode, RampInv, Gentle, NEW o, NEW sent, Carried(o, sent), OnlyOf(o), NEW tx \in txs' \ sent
  PROVE  TxSound(tx)'
<1>1. PICK was \in txs : tx = Orphan(was, o)
  BY DEF Carried
<1>2. TxSound(was) /\ was.owner \in Owners \union {Nothing} /\ was.for \in Transfers
  BY TxFields DEF RampInv
<1>3. /\ tx.kind = was.kind /\ tx.from = was.from /\ tx.coins = was.coins /\ tx.for = was.for /\ tx.to = was.to
      /\ tx.owner = IF was.owner = o THEN Nothing ELSE was.owner
  BY <1>1, OrphanFields DEF RampInv
<1>4. ASSUME tx.kind = "move" PROVE MoveTxSound(tx)'
  <2>1. MoveTxSound(was)
    BY <1>2, <1>3, <1>4 DEF TxSound
  <2>2. opened'[was.for].dir = "cash-out" /\ place'[was.for] = "wallet" /\ custody' = custody
    BY <1>2, <2>1, UnopenedIsNot DEF Gentle, MoveTxSound
  <2>3. ASSUME NEW other \in txs', other.kind = "move", other.for = tx.for PROVE other = tx
    <3>1. CASE other \in sent
      BY <1>3, <1>4, <2>3, <3>1 DEF Carried
    <3>2. CASE other \notin sent
      <4>1. PICK c \in txs : other = Orphan(c, o)
        BY <2>3, <3>2 DEF Carried
      <4>2. c.kind = "move" /\ c.for = was.for
        BY <1>3, <2>3, <4>1, OrphanFields DEF RampInv
      <4>3. c = was
        BY <2>1, <4>2 DEF MoveTxSound
      <4> QED BY <1>1, <4>1, <4>3
    <3> QED BY <3>1, <3>2
  <2> QED BY <1>3, <2>1, <2>2, <2>3 DEF MoveTxSound
<1>5. ASSUME tx.owner # Nothing
      PROVE  /\ OwnedTx(tx, tx.owner)' /\ outcome'[tx.owner] # "ok"
             /\ \A other \in txs' : other.owner = tx.owner => other = tx
  <2>1. tx = was /\ was.owner # o /\ was.owner \in Owners /\ OwnedTx(was, was.owner)
    BY <1>1, <1>2, <1>3, <1>5 DEF Orphan, TxSound
  <2>2. outcome'[tx.owner] # "ok"
    BY <1>2, <1>5, <2>1 DEF TxSound, OnlyOf
  <2>3. OwnedTx(was, was.owner)'
    <3>1. CASE was.owner \in Visits
      BY <2>1, <3>1, RampNames DEF OwnedTx, OnlyOf
    <3>2. CASE was.owner \in Ticks
      <4>1. tick'[was.owner] = tick[was.owner]
        BY <2>1, <3>2 DEF OnlyOf
      <4>2. ASSUME tick[was.owner].step = "sweeping", was.for = tick[was.owner].transfer
            PROVE  opened'[was.for].account = opened[was.for].account
        <5>1. opened[was.for].state = "completed"
          BY <3>2, <4>2 DEF RampInv, TickSound
        <5> QED BY <1>2, <5>1, UnopenedIsNot DEF Gentle
      <4> QED BY <2>1, <3>2, <4>1, <4>2, RampNames DEF OwnedTx
    <3> QED BY <2>1, <3>1, <3>2 DEF OwnedTx
  <2>4. ASSUME NEW other \in txs', other.owner = tx.owner PROVE other = tx
    <3>1. other \notin sent
      BY <2>1, <2>4 DEF Carried
    <3>2. PICK c \in txs : other = Orphan(c, o)
      BY <2>4, <3>1 DEF Carried
    <3>3. c.owner = was.owner /\ other = c
      BY <1>5, <2>1, <2>4, <3>2, OrphanFields DEF RampInv, Orphan
    <3> QED BY <1>2, <1>5, <2>1, <3>3 DEF TxSound
  <2> QED BY <2>1, <2>2, <2>3, <2>4 DEF OwnedTx
<1> QED BY <1>2, <1>3, <1>4, <1>5 DEF TxSound, Serves, Gentle

\* What is recorded stays where it arrived.
LEMMA RecordRests ==
  ASSUME FreshNode, RampInv, Gentle, NEW t \in recorded
  PROVE  /\ opened'[t].state = "completed"
         /\ opened'[t].dir = "add" => place'[t] \notin {"anchor", "claimable"} \union Keys
<1>1. t \in Transfers /\ opened[t].state = "completed"
  BY DEF RampInv, RampTypes, RecordedSound
<1>2. opened[t].dir = "add" => place[t] \notin {"anchor", "claimable"} \union Keys
  BY DEF RampInv, RecordedSound, ReportedMeansArrived
<1> QED BY <1>1, <1>2, UnopenedIsNot DEF Gentle

\* A step of one owner, or of nobody, keeps the rest of the invariant.
LEMMA OwnStep ==
  ASSUME FreshNode, RampInv, RampTypes', Gentle, NEW o, NEW sent, Carried(o, sent), OnlyOf(o),
         o \in Visits => FlowSound(o)',
         \A v \in Visits \ {o} : o \in Visits /\ flow'[o].step = "move" /\ flow[v].step = "move"
                                   => flow'[o].transfer # flow[v].transfer,
         o \in Ticks => TickSound(o)',
         \A tx \in sent : TxSound(tx)',
         \A t \in Transfers : TransferSound(t)',
         RecordedSound', SentMeansPaid'
  PROVE  RampInv'
<1>1. ASSUME NEW v \in Visits \ {o} PROVE FlowSound(v)'
  <2>1. flow'[v] = flow[v] /\ outcome'[v] = outcome[v] /\ FlowSound(v)
    BY DEF OnlyOf, Owners, RampInv
  <2>2. ASSUME flow[v].step = "move", NEW tx \in txs', tx.kind = "move" PROVE tx.for # flow[v].transfer
    <3>1. CASE tx \in sent
      BY <2>2, <3>1 DEF Carried
    <3>2. ASSUME NEW was \in txs, tx = Orphan(was, o) PROVE tx.for # flow[v].transfer
      <4>1. was.kind = "move" /\ was.for = tx.for
        BY <2>2, <3>2, OrphanFields DEF RampInv
      <4> QED BY <2>1, <2>2, <4>1 DEF FlowSound
    <3> QED BY <2>2, <3>1, <3>2 DEF Carried
  <2>3. ASSUME flow[v].step = "move", NEW u \in Visits, flow'[u].step = "move", flow'[u].transfer = flow[v].transfer
        PROVE  u = v
    <3>1. CASE u = o
      BY <2>3, <3>1
    <3>2. CASE u # o
      BY <2>1, <2>3, <3>2 DEF OnlyOf, FlowSound
    <3> QED BY <3>1, <3>2
  <2> QED BY <2>1, <2>2, <2>3, FlowRests
<1>2. ASSUME NEW s \in Ticks \ {o} PROVE TickSound(s)'
  <2>1. tick'[s] = tick[s] /\ outcome'[s] = outcome[s]
    BY DEF OnlyOf, Owners
  <2> QED BY <2>1, TickRests
<1>3. \A tx \in txs' : TxSound(tx)'
  BY TxRests
<1>4. \A v \in Visits : FlowSound(v)'
  BY <1>1
<1>5. \A s \in Ticks : TickSound(s)'
  BY <1>2
<1> QED BY <1>3, <1>4, <1>5 DEF RampInv

LEMMA NobodysStep ==
  ASSUME FreshNode, RampInv, RampTypes', Gentle, UNCHANGED <<txs, flow, tick, outcome>>,
         \A t \in Transfers : TransferSound(t)',
         RecordedSound', SentMeansPaid'
  PROVE  RampInv'
<1>1. \A tx \in txs : tx = Orphan(tx, Nothing)
  BY DEF RampInv, RampTypes, RampTx, Orphan
<1>2. Carried(Nothing, {}) /\ OnlyOf(Nothing)
  BY <1>1 DEF Carried, OnlyOf
<1>3. Nothing \notin Visits /\ Nothing \notin Ticks
  BY RampNames DEF Owners
<1> HIDE DEF Carried, OnlyOf
<1> QED BY <1>2, <1>3, OwnStep

-----------------------------------------------------------------------------
(* The anchor.                                                             *)

LEMMA AnchorStep ==
  ASSUME FreshNode, RampInv, Gentle, UNCHANGED <<custody, bridgeVars, txs, paid, outcome, screenVars, tick, recorded>>,
         unseen' = {}, place' \in [Transfers -> Places], opened' \in [Transfers -> Opened \union {Unopened}],
         NEW t \in Transfers, \A u \in Transfers \ {t} : UNCHANGED <<opened[u], place[u]>>, TransferSound(t)'
  PROVE  RampInv'
<1>1. RampTypes'
  BY DEF RampInv, RampTypes, bridgeVars, screenVars
<1>2. \A u \in Transfers : TransferSound(u)'
  <2>1. ASSUME NEW u \in Transfers \ {t} PROVE TransferSound(u)'
    <3>1. TransferSound(u) /\ timer' = timer
      BY DEF RampInv, screenVars
    <3> QED BY <3>1, TransferRests DEF TransferSound
  <2> QED BY <2>1
<1>3. RecordedSound'
  <2>1. ASSUME NEW u \in recorded PROVE opened'[u].dir = "add" => opened[u].dir = "add"
    <3>1. u \in Transfers /\ opened[u].state = "completed"
      BY DEF RampInv, RampTypes, RecordedSound
    <3> QED BY <3>1, UnopenedIsNot DEF Gentle
  <2> QED BY <2>1, RecordRests DEF RecordedSound, ReportedMeansArrived
<1>4. SentMeansPaid'
  BY DEF RampInv, SentMeansPaid, screenVars
<1> QED BY <1>1, <1>2, <1>3, <1>4, NobodysStep DEF screenVars

\* A state of the anchor's record that is not final gives way to another.
LEMMA StateMoves ==
  ASSUME FreshNode, RampInv, NEW t \in Transfers, NEW state \in AnchorStates,
         opened' = [opened EXCEPT ![t].state = state], opened[t] # Unopened, opened[t].state # "completed",
         place[t] # "anchor" => place'[t] = place[t],
         \A u \in Transfers \ {t} : place'[u] = place[u], UNCHANGED <<custody, paid>>
  PROVE  /\ Gentle /\ opened' \in [Transfers -> Opened \union {Unopened}]
         /\ opened'[t] # Unopened /\ opened'[t].state = state
         /\ opened'[t].dir = opened[t].dir /\ opened'[t].account = opened[t].account
         /\ \A u \in Transfers \ {t} : opened'[u] = opened[u]
<1>1. opened \in [Transfers -> Opened \union {Unopened}] /\ opened[t] \in Opened
  BY DEF RampInv, RampTypes
<1> DEFINE new == [opened[t] EXCEPT !.state = state]
<1>2. new \in Opened /\ new.state = state /\ new.dir = opened[t].dir /\ new.account = opened[t].account
  BY <1>1 DEF Opened
<1>3. opened' = [opened EXCEPT ![t] = new]
  OBVIOUS
<1> HIDE DEF new
<1>4. opened'[t] = new /\ \A u \in Transfers \ {t} : opened'[u] = opened[u]
  BY <1>1, <1>3
<1>5. new # Unopened
  BY <1>2, UnopenedIsNot
<1>6. opened' \in [Transfers -> Opened \union {Unopened}]
  BY <1>1, <1>2, <1>3
<1>7. Gentle
  BY <1>2, <1>4, <1>5 DEF Gentle
<1> QED BY <1>2, <1>4, <1>5, <1>6, <1>7

LEMMA BankKeeps == ASSUME FreshNode, RampInv, NEW t \in Transfers, BankTransfer(t) PROVE RampInv'
<1>1. /\ opened[t].dir = "add" /\ opened[t].state = "waiting" /\ opened[t] # Unopened
      /\ opened' = [opened EXCEPT ![t].state = "converting"]
      /\ UNCHANGED <<custody, bridgeVars, ledgerVars, screenVars, tick, recorded>>
  BY UnopenedIsNot DEF BankTransfer
<1>2. UNCHANGED <<custody, bridgeVars, trusts, place, unseen, txs, paid, outcome, screenVars, tick, recorded>>
  BY <1>1 DEF ledgerVars
<1>3. "converting" \in AnchorStates
  BY DEF AnchorStates
<1>4. /\ Gentle /\ opened' \in [Transfers -> Opened \union {Unopened}]
      /\ opened'[t] # Unopened /\ opened'[t].state = "converting"
      /\ opened'[t].dir = "add" /\ opened'[t].account = opened[t].account
      /\ \A u \in Transfers \ {t} : opened'[u] = opened[u]
  BY <1>1, <1>2, <1>3, StateMoves
<1>5. TransferSound(t)'
  BY <1>1, <1>2, <1>4 DEF RampInv, TransferSound, Serves
<1>6. place' \in [Transfers -> Places] /\ unseen' = {}
  BY <1>2 DEF RampInv, RampTypes
<1> QED BY <1>2, <1>4, <1>5, <1>6, AnchorStep

LEMMA AnchorEndsKeeps == ASSUME FreshNode, RampInv, NEW t \in Transfers, AnchorEnds(t) PROVE RampInv'
<1>1. UNCHANGED <<custody, bridgeVars, trusts, place, unseen, txs, paid, outcome, screenVars, tick, recorded>>
  BY DEF AnchorEnds, ledgerVars
<1>2. PICK state \in {"completed", "error"} :
        /\ opened' = [opened EXCEPT ![t].state = state]
        /\ opened[t].state \in {"waiting", "converting"}
        /\ state = "completed" => opened[t].dir = "cash-out"
  BY DEF AnchorEnds
<1>3. state \in AnchorStates /\ opened[t] # Unopened
  BY <1>2, UnopenedIsNot DEF AnchorStates
<1>4. /\ Gentle /\ opened' \in [Transfers -> Opened \union {Unopened}]
      /\ opened'[t] # Unopened /\ opened'[t].state = state
      /\ opened'[t].dir = opened[t].dir /\ opened'[t].account = opened[t].account
      /\ \A u \in Transfers \ {t} : opened'[u] = opened[u]
  BY <1>1, <1>2, <1>3, StateMoves
<1>5. TransferSound(t)'
  BY <1>1, <1>2, <1>3, <1>4 DEF RampInv, TransferSound, Serves
<1>6. place' \in [Transfers -> Places] /\ unseen' = {}
  BY <1>1 DEF RampInv, RampTypes
<1> QED BY <1>1, <1>4, <1>5, <1>6, AnchorStep

LEMMA AnchorPaysKeeps == ASSUME FreshNode, RampInv, NEW t \in Transfers, AnchorPays(t) PROVE RampInv'
<1>1. UNCHANGED <<custody, bridgeVars, trusts, txs, paid, outcome, screenVars, tick, recorded>>
  BY DEF AnchorPays
<1>2. /\ opened[t].dir = "add" /\ opened[t].state = "converting" /\ opened[t] # Unopened
      /\ opened' = [opened EXCEPT ![t].state = "completed"]
  BY UnopenedIsNot DEF AnchorPays
<1>3. TransferSound(t) /\ place[t] = "anchor" /\ place \in [Transfers -> Places] /\ unseen = {}
  BY <1>2 DEF RampInv, RampTypes, TransferSound
<1>4. PICK to \in {opened[t].account, "claimable"} : place' = [place EXCEPT ![t] = to] /\ unseen' = {}
  BY <1>3, RampNames DEF AnchorPays
<1>5. Serves(opened[t].account)
  BY <1>2, <1>3 DEF TransferSound
<1>6. to \in Places /\ to # "anchor" /\ (to \in Keys => to = opened[t].account)
  BY <1>4, <1>5, RampNames DEF Serves, Places, Accounts
<1>7. place' \in [Transfers -> Places] /\ place'[t] = to /\ \A u \in Transfers \ {t} : place'[u] = place[u]
  BY <1>3, <1>4, <1>6
<1>8. "completed" \in AnchorStates
  BY DEF AnchorStates
<1>9. /\ Gentle /\ opened' \in [Transfers -> Opened \union {Unopened}]
      /\ opened'[t] # Unopened /\ opened'[t].state = "completed"
      /\ opened'[t].dir = "add" /\ opened'[t].account = opened[t].account
      /\ \A u \in Transfers \ {t} : opened'[u] = opened[u]
  BY <1>1, <1>2, <1>3, <1>7, <1>8, StateMoves
<1>10. TransferSound(t)'
  BY <1>1, <1>3, <1>5, <1>6, <1>7, <1>9 DEF TransferSound, Serves
<1> QED BY <1>1, <1>4, <1>7, <1>9, <1>10, AnchorStep

-----------------------------------------------------------------------------
(* The screen and the session.                                             *)

LEMMA ScreenKeeps ==
  ASSUME FreshNode, RampInv, OpenScreen \/ LeaveScreen \/ SignOut
  PROVE  RampInv'
<1>1. /\ UNCHANGED <<custody, place, unseen, txs, paid, outcome, opened, flow, tick, shown>>
      /\ timer' \in [Visits -> Transfers \union {Nothing}]
      /\ \A v \in Visits : timer'[v] \in {timer[v], Nothing}
      /\ recorded' \subseteq recorded
  <2>1. timer \in [Visits -> Transfers \union {Nothing}]
    BY DEF RampInv, RampTypes
  <2> QED BY <2>1 DEF OpenScreen, LeaveScreen, SignOut, ledgerVars, screenVars, bridgeVars
<1>2. stored' \in minted' \union {Nothing} /\ minted' \subseteq Keys
  BY DEF RampInv, RampTypes, OpenScreen, LeaveScreen, SignOut, bridgeVars
<1>3. visit' \in 0 .. MaxVisits /\ (mounted' => visit' # 0)
  BY RampNames DEF RampInv, RampTypes, OpenScreen, LeaveScreen, SignOut, screenVars
<1>4. RampTypes'
  BY <1>1, <1>2, <1>3 DEF RampInv, RampTypes
<1>5. Gentle
  BY <1>1 DEF Gentle
<1>6. ASSUME NEW t \in Transfers PROVE TransferSound(t)'
  <2>1. TransferSound(t) /\ t # Nothing
    BY RampNames DEF RampInv
  <2> QED BY <1>1, <2>1, TransferRests DEF TransferSound
<1>7. RecordedSound' /\ SentMeansPaid'
  BY <1>1 DEF RampInv, RecordedSound, ReportedMeansArrived, SentMeansPaid
<1> QED BY <1>1, <1>4, <1>5, <1>6, <1>7, NobodysStep

-----------------------------------------------------------------------------
(* begin().                                                                *)

\* Nobody awaits a transaction who did not send one, or who has its answer.
LEMMA Unawaited ==
  ASSUME FreshNode, RampInv, NEW o \in Owners, NEW tx \in txs,
         \/ outcome[o] = "ok"
         \/ o \in Visits /\ flow[o].step \notin {"moving", "paying"}
         \/ o \in Ticks /\ tick[o].step \notin {"claiming", "sweeping"}
  PROVE  tx.owner # o
<1>1. TxSound(tx)
  BY DEF RampInv
<1> QED BY <1>1, RampNames DEF TxSound, OwnedTx

LEMMA FlowStays ==
  ASSUME FreshNode, RampInv, NEW v \in Visits, NEW new \in FlowRecord, flow' = [flow EXCEPT ![v] = new]
  PROVE  /\ flow' \in [Visits -> FlowRecord] /\ flow'[v] = new
         /\ \A u \in Visits \ {v} : flow'[u] = flow[u]
  BY DEF RampInv, RampTypes

\* A step of begin() that leaves nothing behind but the bridge's key.
LEMMA FlowMoves ==
  ASSUME FreshNode, RampInv, NEW v \in Visits, NEW new \in FlowRecord, flow' = [flow EXCEPT ![v] = new],
         flow[v].step \notin {"moving", "paying"}, new.step \notin {"move", "moving", "pay", "paying"},
         new.step \notin {"idle", "discover", "account"} => Serves(new.account),
         stored' \in minted' \union {Nothing}, minted' \subseteq Keys,
         UNCHANGED <<custody, place, unseen, txs, paid, outcome, opened, visit, mounted, timer, shown, tick, recorded>>
  PROVE  RampInv'
<1>1. /\ flow' \in [Visits -> FlowRecord] /\ flow'[v] = new
      /\ \A u \in Visits \ {v} : flow'[u] = flow[u]
  BY FlowStays
<1>2. RampTypes' /\ Gentle
  BY <1>1 DEF RampInv, RampTypes, Gentle
<1>3. Carried(v, {})
  BY Unawaited, UnownedCarries DEF Owners
<1>4. OnlyOf(v)
  BY <1>1 DEF OnlyOf
<1>5. FlowSound(v)'
  BY <1>1 DEF FlowSound, Serves
<1>6. \A t \in Transfers : TransferSound(t)'
  BY DEF RampInv, TransferSound, Serves
<1>7. RecordedSound' /\ SentMeansPaid'
  BY DEF RampInv, RecordedSound, ReportedMeansArrived, SentMeansPaid
<1>8. v \notin Ticks
  BY RampNames
<1> HIDE DEF Carried, OnlyOf
<1> QED BY <1>1, <1>2, <1>3, <1>4, <1>5, <1>6, <1>7, <1>8, OwnStep

\* A step of begin() changes where it is and, at times, for whom it acts.
LEMMA FlowValues ==
  ASSUME FreshNode, RampInv, NEW v \in Visits
  PROVE  /\ NoFlow \in FlowRecord /\ NoFlow.step = "idle"
         /\ \A step \in FlowSteps :
              /\ [flow[v] EXCEPT !.step = step] \in FlowRecord
              /\ [flow[v] EXCEPT !.step = step].step = step
              /\ [flow[v] EXCEPT !.step = step].account = flow[v].account
              /\ [flow[v] EXCEPT !.step = step].transfer = flow[v].transfer
<1>1. flow[v] \in FlowRecord
  BY DEF RampInv, RampTypes
<1> QED BY <1>1, RampNames DEF NoFlow, FlowRecord, FlowSteps

\* An await goes on or throws.
LEMMA AwaitKeeps ==
  ASSUME FreshNode, RampInv, NEW v \in Visits, NEW next \in FlowSteps \ {"move", "moving", "pay", "paying"},
         flow[v].step \notin {"moving", "paying"},
         next \notin {"idle", "discover", "account"} => Serves(flow[v].account),
         Step(v, next) \/ Throws(v),
         UNCHANGED <<custody, bridgeVars, place, unseen, txs, paid, outcome, opened, visit, mounted, timer,
                     shown, tick, recorded>>
  PROVE  RampInv'
<1>1. stored' \in minted' \union {Nothing} /\ minted' \subseteq Keys
  BY DEF RampInv, RampTypes, bridgeVars
<1>2. CASE Throws(v)
  BY <1>1, <1>2, FlowValues, FlowMoves DEF Throws
<1>3. CASE Step(v, next)
  <2> DEFINE new == [flow[v] EXCEPT !.step = next]
  <2>1. flow' = [flow EXCEPT ![v] = new]
    BY <1>3 DEF Step
  <2>2. new \in FlowRecord /\ new.step = next /\ new.account = flow[v].account
    BY FlowValues
  <2> HIDE DEF new
  <2> QED BY <1>1, <2>1, <2>2, FlowMoves
<1> QED BY <1>2, <1>3

LEMMA AwaitsKeep ==
  ASSUME FreshNode, RampInv, NEW v \in Visits,
         Discover(v) \/ FundBridge(v) \/ EnsureTrustline(v) \/ Authenticate(v)
  PROVE  RampInv'
<1>1. FlowSound(v)
  BY DEF RampInv
<1>2. ASSUME NEW step \in {"discover", "float", "trustline", "session"}, NEW next \in {"account", "trustline", "session", "open"},
             flow[v].step = step, step = "discover" => next = "account",
             Step(v, next) \/ Throws(v),
             UNCHANGED <<custody, bridgeVars, place, unseen, txs, paid, outcome, opened, visit, mounted, timer,
                         shown, tick, recorded>>
      PROVE  RampInv'
  <2>1. next \in FlowSteps \ {"move", "moving", "pay", "paying"}
    BY DEF FlowSteps
  <2>2. flow[v].step \notin {"moving", "paying"}
    BY <1>2
  <2>3. next \notin {"idle", "discover", "account"} => Serves(flow[v].account)
    BY <1>1, <1>2 DEF FlowSound
  <2> QED BY <1>2, <2>1, <2>2, <2>3, AwaitKeeps
<1>3. CASE Discover(v)
  BY <1>2, <1>3 DEF Discover, Awaits, flowOnly, ledgerVars
<1>4. CASE FundBridge(v)
  BY <1>2, <1>4 DEF FundBridge, Awaits, flowOnly, ledgerVars, AfterAccount
<1>5. CASE EnsureTrustline(v)
  BY <1>2, <1>5 DEF EnsureTrustline
<1>6. CASE Authenticate(v)
  BY <1>2, <1>6 DEF Authenticate, Awaits, flowOnly, ledgerVars
<1> QED BY <1>3, <1>4, <1>5, <1>6

LEMMA BeginKeeps ==
  ASSUME FreshNode, RampInv, NEW v \in Visits, NEW dir \in {"add", "cash-out"}, Begin(v, dir)
  PROVE  RampInv'
<1> DEFINE new == [NoFlow EXCEPT !.step = "discover", !.dir = dir]
<1>1. new \in FlowRecord /\ new.step = "discover"
  BY DEF NoFlow, FlowRecord, FlowSteps
<1>2. flow' = [flow EXCEPT ![v] = new] /\ flow[v].step = "idle"
  BY DEF Begin, Ready
<1>3. UNCHANGED <<custody, bridgeVars, ledgerVars, opened, visit, mounted, timer, shown, tick, recorded>>
  BY DEF Begin, flowOnly
<1>4. stored' \in minted' \union {Nothing} /\ minted' \subseteq Keys
  BY <1>3 DEF RampInv, RampTypes, bridgeVars
<1> HIDE DEF new
<1> QED BY <1>1, <1>2, <1>3, <1>4, FlowMoves DEF ledgerVars

LEMMA ResolveKeeps ==
  ASSUME FreshNode, RampInv, NEW v \in Visits, ResolveAccount(v)
  PROVE  RampInv'
<1>1. /\ flow[v].step = "account" /\ flow[v] \in FlowRecord
      /\ UNCHANGED <<custody, signedOut, place, unseen, txs, paid, outcome, opened, visit, mounted, timer, shown,
                     tick, recorded>>
  BY DEF ResolveAccount, ledgerVars, RampInv, RampTypes
<1>2. CASE Throws(v) /\ UNCHANGED <<stored, minted>>
  <2>1. stored' \in minted' \union {Nothing} /\ minted' \subseteq Keys
    BY <1>2 DEF RampInv, RampTypes
  <2> QED BY <1>1, <1>2, <2>1, FlowValues, FlowMoves DEF Throws
<1>3. ASSUME NEW a \in Accounts, NEW step \in {"float", "trustline", "session"}, Serves(a),
             flow' = [flow EXCEPT ![v].account = a, ![v].step = step],
             stored' \in minted' \union {Nothing}, minted' \subseteq Keys
      PROVE  RampInv'
  <2> DEFINE new == [[flow[v] EXCEPT !.account = a] EXCEPT !.step = step]
  <2>1. new \in FlowRecord /\ new.step = step /\ new.account = a
    BY <1>1 DEF FlowRecord, FlowSteps
  <2>2. flow' = [flow EXCEPT ![v] = new]
    BY <1>1, <1>3 DEF RampInv, RampTypes
  <2> HIDE DEF new
  <2> QED BY <1>1, <1>3, <2>1, <2>2, FlowMoves
<1>4. CASE /\ custody = "classic" /\ ~signedOut
           /\ flow' = [flow EXCEPT ![v].account = "wallet", ![v].step = AfterAccount(v)]
           /\ UNCHANGED <<stored, minted>>
  <2>1. "wallet" \in Accounts /\ Serves("wallet") /\ AfterAccount(v) \in {"float", "trustline", "session"}
    BY <1>4 DEF Accounts, Serves, AfterAccount
  <2>2. stored' \in minted' \union {Nothing} /\ minted' \subseteq Keys
    BY <1>4 DEF RampInv, RampTypes
  <2> QED BY <1>3, <1>4, <2>1, <2>2
<1>5. ASSUME custody = "smart", NEW k \in Keys, BridgeKey(k),
             flow' = [flow EXCEPT ![v].account = k, ![v].step = "float"]
      PROVE  RampInv'
  <2>1. k \in Accounts /\ Serves(k)
    BY <1>5 DEF Accounts, Serves
  <2>2. stored' \in minted' \union {Nothing} /\ minted' \subseteq Keys
    BY <1>5 DEF RampInv, RampTypes, BridgeKey
  <2> QED BY <1>3, <1>5, <2>1, <2>2
<1> QED BY <1>2, <1>4, <1>5 DEF ResolveAccount

\* A step of begin() on a transfer that is open: what it sends, awaits or shows.
LEMMA FlowActs ==
  ASSUME FreshNode, RampInv, NEW v \in Visits, NEW sent,
         flow' \in [Visits -> FlowRecord], \A u \in Visits \ {v} : flow'[u] = flow[u], flow'[v].step # "move",
         Carried(v, sent), txs' \subseteq RampTx, \A tx \in sent : TxSound(tx)',
         outcome' \in [Owners -> {"none", "ok", "failed"}], \A o \in Owners \ {v} : outcome'[o] = outcome[o],
         FlowSound(v)',
         timer' \in [Visits -> Transfers \union {Nothing}], shown' \in [Visits -> ShownStatuses],
         \A u \in Visits : timer'[u] # Nothing => opened[timer'[u]] # Unopened,
         SentMeansPaid',
         UNCHANGED <<custody, bridgeVars, place, unseen, paid, opened, visit, mounted, tick, recorded>>
  PROVE  RampInv'
<1>1. RampTypes' /\ Gentle
  BY DEF RampInv, RampTypes, Gentle, bridgeVars
<1>2. OnlyOf(v)
  BY DEF OnlyOf
<1>3. \A t \in Transfers : TransferSound(t)'
  BY RampNames DEF RampInv, TransferSound, Serves
<1>4. RecordedSound'
  BY DEF RampInv, RecordedSound, ReportedMeansArrived
<1>5. v \notin Ticks
  BY RampNames
<1> HIDE DEF Carried, OnlyOf
<1> QED BY <1>1, <1>2, <1>3, <1>4, <1>5, OwnStep

\* The screens go on showing what they show.
LEMMA ShownStays ==
  ASSUME FreshNode, RampInv, UNCHANGED <<timer, shown, paid>>
  PROVE  /\ timer' \in [Visits -> Transfers \union {Nothing}] /\ shown' \in [Visits -> ShownStatuses]
         /\ \A u \in Visits : timer'[u] # Nothing => opened[timer'[u]] # Unopened
         /\ SentMeansPaid'
<1>1. \A u \in Visits : timer[u] # Nothing => opened[timer[u]] # Unopened
  BY DEF RampInv, RampTypes, TransferSound
<1> QED BY <1>1 DEF RampInv, RampTypes, SentMeansPaid

LEMMA OpenDepositKeeps ==
  ASSUME FreshNode, RampInv, NEW v \in Visits, NEW t \in Transfers, OpenDeposit(v, t),
         UNCHANGED <<custody, bridgeVars, unseen, txs, paid, outcome, visit, mounted, tick, recorded>>
  PROVE  RampInv'
<1> DEFINE new == [dir |-> "add", account |-> flow[v].account, state |-> "waiting"]
<1>1. /\ flow[v].step = "open" /\ opened[t] = Unopened /\ FlowSound(v)
      /\ opened' = [opened EXCEPT ![t] = new]
      /\ timer' = [timer EXCEPT ![v] = t] /\ shown' = [shown EXCEPT ![v] = "started"]
      /\ flow' = [flow EXCEPT ![v] = NoFlow] /\ place' = place
  BY DEF OpenDeposit, Opens, RampInv
<1>2. Serves(flow[v].account)
  BY <1>1 DEF FlowSound
<1>3. new \in Opened /\ new.dir = "add" /\ new.account = flow[v].account /\ new.state = "waiting" /\ new # Unopened
  BY <1>2 DEF Serves, Accounts, Opened, AnchorStates, Unopened
<1> HIDE DEF new
<1>4. /\ opened' \in [Transfers -> Opened \union {Unopened}] /\ opened'[t] = new
      /\ \A u \in Transfers \ {t} : opened'[u] = opened[u]
  BY <1>1, <1>3 DEF RampInv, RampTypes
<1>5. /\ timer' \in [Visits -> Transfers \union {Nothing}] /\ shown' \in [Visits -> ShownStatuses]
      /\ shown'[v] = "started" /\ \A u \in Visits \ {v} : timer'[u] = timer[u] /\ shown'[u] = shown[u]
      /\ timer'[v] = t
  BY <1>1 DEF RampInv, RampTypes, ShownStatuses
<1>6. /\ flow' \in [Visits -> FlowRecord] /\ flow'[v] = NoFlow /\ NoFlow.step = "idle"
      /\ \A u \in Visits \ {v} : flow'[u] = flow[u]
  BY <1>1, FlowValues, FlowStays
<1>7. RampTypes'
  BY <1>1, <1>4, <1>5, <1>6 DEF RampInv, RampTypes, bridgeVars
<1>8. Gentle
  BY <1>1, <1>4 DEF Gentle
<1>9. Carried(v, {})
  BY <1>1, Unawaited, UnownedCarries DEF Owners
<1>10. OnlyOf(v)
  BY <1>6 DEF OnlyOf
<1>11. FlowSound(v)'
  BY <1>6 DEF FlowSound
<1>12. ASSUME NEW u \in Transfers PROVE TransferSound(u)'
  <2>1. TransferSound(u) /\ place' = place
    BY <1>1 DEF RampInv
  <2>2. CASE u = t
    BY <1>1, <1>2, <1>3, <1>4, <2>1, <2>2, RampNames DEF TransferSound, Serves
  <2>3. CASE u # t
    BY <1>4, <1>5, <2>1, <2>3 DEF TransferSound, Serves
  <2> QED BY <2>2, <2>3
<1>13. RecordedSound'
  <2>1. t \notin recorded
    BY <1>1, UnopenedIsNot DEF RampInv, RecordedSound
  <2> QED BY <1>1, <1>4, <2>1 DEF RampInv, RampTypes, RecordedSound, ReportedMeansArrived
<1>14. SentMeansPaid'
  BY <1>5 DEF RampInv, SentMeansPaid
<1>15. v \notin Ticks
  BY RampNames
<1> HIDE DEF Carried, OnlyOf
<1> QED BY <1>6, <1>7, <1>8, <1>9, <1>10, <1>11, <1>12, <1>13, <1>14, <1>15, OwnStep

LEMMA OpenWithdrawalKeeps ==
  ASSUME FreshNode, RampInv, NEW v \in Visits, NEW t \in Transfers, OpenWithdrawal(v, t),
         UNCHANGED <<custody, bridgeVars, unseen, txs, paid, outcome, visit, mounted, tick, recorded>>
  PROVE  RampInv'
<1> DEFINE new == [dir |-> "cash-out", account |-> flow[v].account, state |-> "waiting"]
           next == IF flow[v].account = "wallet" THEN "pay" ELSE "move"
           on == [[flow[v] EXCEPT !.transfer = t] EXCEPT !.step = next]
<1>1. /\ flow[v].step = "open" /\ opened[t] = Unopened /\ FlowSound(v) /\ flow[v] \in FlowRecord
      /\ opened' = [opened EXCEPT ![t] = new] /\ place' = [place EXCEPT ![t] = "wallet"]
      /\ UNCHANGED <<timer, shown>>
  BY DEF OpenWithdrawal, Opens, RampInv, RampTypes
<1>2. Serves(flow[v].account)
  BY <1>1 DEF FlowSound
<1>3. new \in Opened /\ new.dir = "cash-out" /\ new.account = flow[v].account /\ new # Unopened
  BY <1>2 DEF Serves, Accounts, Opened, AnchorStates, Unopened
<1> HIDE DEF new
<1>4. /\ opened' \in [Transfers -> Opened \union {Unopened}] /\ opened'[t] = new
      /\ \A u \in Transfers \ {t} : opened'[u] = opened[u]
  BY <1>1, <1>3 DEF RampInv, RampTypes
<1>5. /\ place' \in [Transfers -> Places] /\ place'[t] = "wallet"
      /\ \A u \in Transfers \ {t} : place'[u] = place[u]
  BY <1>1 DEF RampInv, RampTypes, Places, Accounts
<1>6. next \in {"pay", "move"} /\ (next = "move" => custody = "smart")
  BY <1>2 DEF Serves, RampInv, RampTypes
<1>7. /\ flow[v] \in FlowRecord
      /\ flow' = [flow EXCEPT ![v] = on]
  BY DEF OpenWithdrawal, RampInv, RampTypes
<1> HIDE DEF next
<1>22. /\ on \in FlowRecord /\ on.transfer = t /\ on.account = flow[v].account
       /\ on.step = next
  BY <1>6, <1>7 DEF FlowRecord, FlowSteps
<1> HIDE DEF on
<1>8. /\ flow' \in [Visits -> FlowRecord] /\ flow'[v] = on
      /\ \A u \in Visits \ {v} : flow'[u] = flow[u]
  BY <1>7, <1>22, FlowStays
<1>9. RampTypes'
  BY <1>1, <1>4, <1>5, <1>8 DEF RampInv, RampTypes, bridgeVars
<1>10. TransferSound(t) /\ place[t] = "anchor"
  BY <1>1 DEF RampInv, TransferSound
<1>11. Gentle
  BY <1>1, <1>4, <1>5, <1>10 DEF Gentle
<1>12. Carried(v, {})
  BY <1>1, Unawaited, UnownedCarries DEF Owners
<1>13. OnlyOf(v)
  BY <1>8 DEF OnlyOf
<1>14. \A tx \in txs : tx.kind = "move" => tx.for # t
  BY <1>1, UnopenedIsNot DEF RampInv, TxSound, MoveTxSound
<1>15. \A u \in Visits : flow[u].step = "move" => flow[u].transfer # t
  BY <1>1, UnopenedIsNot DEF RampInv, FlowSound
<1>16. FlowSound(v)'
  BY <1>2, <1>3, <1>4, <1>5, <1>6, <1>8, <1>14, <1>15, <1>22 DEF FlowSound, Serves
<1>17. ASSUME NEW u \in Transfers PROVE TransferSound(u)'
  <2>1. TransferSound(u)
    BY DEF RampInv
  <2>2. CASE u = t
    BY <1>1, <1>2, <1>3, <1>4, <1>5, <2>1, <2>2, RampNames DEF TransferSound, Serves
  <2>3. CASE u # t
    BY <1>1, <1>4, <1>5, <2>1, <2>3 DEF TransferSound, Serves
  <2> QED BY <2>2, <2>3
<1>18. RecordedSound'
  <2>1. t \notin recorded
    BY <1>1, UnopenedIsNot DEF RampInv, RecordedSound
  <2> QED BY <1>1, <1>4, <1>5, <2>1 DEF RampInv, RampTypes, RecordedSound, ReportedMeansArrived
<1>19. SentMeansPaid'
  BY <1>1 DEF RampInv, SentMeansPaid
<1>20. v \notin Ticks
  BY RampNames
<1>21. \A u \in Visits \ {v} : flow'[v].step = "move" /\ flow[u].step = "move" => flow'[v].transfer # flow[u].transfer
  BY <1>8, <1>15, <1>22
<1> HIDE DEF Carried, OnlyOf
<1> QED BY <1>9, <1>11, <1>12, <1>13, <1>16, <1>17, <1>18, <1>19, <1>20, <1>21, OwnStep

LEMMA OpenKeeps == ASSUME FreshNode, RampInv, NEW v \in Visits, OpenTransfer(v) PROVE RampInv'
<1>1. UNCHANGED <<custody, bridgeVars, unseen, txs, paid, outcome, visit, mounted, tick, recorded>>
  BY DEF OpenTransfer
<1>2. CASE RefusesTransfer(v)
  <2>1. stored' \in minted' \union {Nothing} /\ minted' \subseteq Keys
    BY <1>1 DEF RampInv, RampTypes, bridgeVars
  <2> QED BY <1>1, <1>2, <2>1, FlowValues, FlowMoves DEF RefusesTransfer, Throws
<1> QED BY <1>1, <1>2, OpenDepositKeeps, OpenWithdrawalKeeps DEF OpenTransfer

\* What begin() sends is awaited by it alone.
LEMMA FlowSends ==
  ASSUME FreshNode, RampInv, NEW v \in Visits, NEW tx \in RampTx, tx.owner = v, Sends(v, tx),
         flow[v].step \in {"move", "pay"}
  PROVE  /\ txs' \subseteq RampTx
         /\ outcome' \in [Owners -> {"none", "ok", "failed"}] /\ outcome'[v] = "none"
         /\ \A o \in Owners \ {v} : outcome'[o] = outcome[o]
         /\ \A other \in txs' : other.owner = v => other = tx
         /\ \A other \in txs' : other = tx \/ other \in txs
<1>1. v \in Owners /\ \A other \in txs : other.owner # v
  BY Unawaited DEF Owners
<1> QED BY <1>1 DEF Sends, RampInv, RampTypes

LEMMA MoveToBridgeKeeps == ASSUME FreshNode, RampInv, NEW v \in Visits, MoveToBridge(v) PROVE RampInv'
<1> DEFINE t == flow[v].transfer
           new == [flow[v] EXCEPT !.step = "moving"]
<1>1. /\ flow[v].step = "move" /\ FlowSound(v)
      /\ UNCHANGED <<custody, bridgeVars, trusts, place, unseen, paid, opened, visit, mounted, timer, shown, tick,
                     recorded>>
  BY DEF MoveToBridge, flowSends, RampInv
<1>2. CASE Throws(v) /\ UNCHANGED <<txs, outcome>>
  <2>1. stored' \in minted' \union {Nothing} /\ minted' \subseteq Keys
    BY <1>1 DEF RampInv, RampTypes, bridgeVars
  <2> QED BY <1>1, <1>2, <2>1, FlowValues, FlowMoves DEF Throws
<1>3. CASE Sends(v, NewTx(v, "move", Nothing, {t}, t, flow[v].account)) /\ Step(v, "moving")
  <2>1. /\ t \in Transfers /\ opened[t].dir = "cash-out" /\ custody = "smart" /\ Serves(flow[v].account)
        /\ place[t] = "wallet" /\ \A b \in txs : b.kind = "move" => b.for # t
        /\ \A u \in Visits : flow[u].step = "move" /\ flow[u].transfer = t => u = v
    BY <1>1 DEF FlowSound
  <2>2. new \in FlowRecord /\ new.step = "moving" /\ new.account = flow[v].account /\ new.transfer = t
    BY FlowValues DEF FlowSteps
  <2>3. flow' = [flow EXCEPT ![v] = new]
    BY <1>3 DEF Step
  <2>4. flow[v].account \in Keys
    BY <2>1 DEF Serves
  <2>13. PICK tx : tx = NewTx(v, "move", Nothing, {t}, t, flow[v].account)
    OBVIOUS
  <2>5. tx \in RampTx
    BY <2>1, <2>13, <2>4 DEF NewTx, RampTx, Owners, Places, Accounts
  <2>6. /\ tx.owner = v /\ tx.kind = "move" /\ tx.from = Nothing /\ tx.coins = {t} /\ tx.for = t
        /\ tx.to = flow[v].account
    BY <2>13 DEF NewTx
  <2>14. Sends(v, tx)
    BY <1>3, <2>13
  <2> HIDE DEF new, t
  <2>7. /\ txs' \subseteq RampTx
        /\ outcome' \in [Owners -> {"none", "ok", "failed"}] /\ outcome'[v] = "none"
        /\ \A o \in Owners \ {v} : outcome'[o] = outcome[o]
        /\ \A other \in txs' : other.owner = v => other = tx
        /\ \A other \in txs' : other = tx \/ other \in txs
    BY <1>1, <2>5, <2>6, <2>14, FlowSends
  <2>8. Carried(v, {tx})
    <3>1. \A b \in txs : b = Orphan(b, v)
      BY <1>1, Unawaited DEF Orphan, Owners
    <3>2. tx \in txs'
      BY <2>14 DEF Sends
    <3> QED BY <2>1, <2>6, <2>7, <3>1, <3>2 DEF Carried, t
  <2>9. /\ flow' \in [Visits -> FlowRecord] /\ flow'[v] = new
        /\ \A u \in Visits \ {v} : flow'[u] = flow[u]
    BY <2>2, <2>3, FlowStays
  <2>10. TxSound(tx)'
    <3>1. MoveTxSound(tx)'
      BY <1>1, <2>1, <2>4, <2>6, <2>7 DEF MoveTxSound
    <3>2. OwnedTx(tx, tx.owner)'
      BY <2>2, <2>6, <2>9 DEF OwnedTx
    <3> QED BY <2>6, <2>7, <3>1, <3>2 DEF TxSound
  <2>11. FlowSound(v)'
    BY <1>1, <2>1, <2>2, <2>9 DEF FlowSound, Serves
  <2>12. /\ timer' \in [Visits -> Transfers \union {Nothing}] /\ shown' \in [Visits -> ShownStatuses]
         /\ \A u \in Visits : timer'[u] # Nothing => opened[timer'[u]] # Unopened
         /\ SentMeansPaid'
    BY <1>1, ShownStays
  <2> HIDE DEF Carried
  <2>15. \A b \in {tx} : TxSound(b)'
    BY <2>10
  <2> QED BY <1>1, <2>2, <2>7, <2>8, <2>9, <2>11, <2>12, <2>15, FlowActs
<1> QED BY <1>2, <1>3 DEF MoveToBridge

LEMMA PayAnchorKeeps == ASSUME FreshNode, RampInv, NEW v \in Visits, PayAnchor(v) PROVE RampInv'
<1> DEFINE t == flow[v].transfer
           new == [flow[v] EXCEPT !.step = "paying"]
<1>1. /\ flow[v].step = "pay" /\ FlowSound(v)
      /\ UNCHANGED <<custody, bridgeVars, trusts, place, unseen, paid, opened, visit, mounted, timer, shown, tick,
                     recorded>>
  BY DEF PayAnchor, flowSends, RampInv
<1>2. CASE Throws(v) /\ UNCHANGED <<txs, outcome>>
  <2>1. stored' \in minted' \union {Nothing} /\ minted' \subseteq Keys
    BY <1>1 DEF RampInv, RampTypes, bridgeVars
  <2> QED BY <1>1, <1>2, <2>1, FlowValues, FlowMoves DEF Throws
<1>3. CASE Sends(v, NewTx(v, "pay", flow[v].account, {t}, t, "treasury")) /\ Step(v, "paying")
  <2>1. t \in Transfers /\ opened[t].dir = "cash-out" /\ Serves(flow[v].account)
    BY <1>1 DEF FlowSound
  <2>2. new \in FlowRecord /\ new.step = "paying" /\ new.account = flow[v].account /\ new.transfer = t
    BY FlowValues DEF FlowSteps
  <2>3. flow' = [flow EXCEPT ![v] = new]
    BY <1>3 DEF Step
  <2>4. flow[v].account \in Accounts
    BY <2>1 DEF Serves, Accounts
  <2>13. PICK tx : tx = NewTx(v, "pay", flow[v].account, {t}, t, "treasury")
    OBVIOUS
  <2>5. tx \in RampTx
    BY <2>1, <2>13, <2>4 DEF NewTx, RampTx, Owners, Places
  <2>6. /\ tx.owner = v /\ tx.kind = "pay" /\ tx.from = flow[v].account /\ tx.for = t /\ tx.to = "treasury"
    BY <2>13 DEF NewTx
  <2>14. Sends(v, tx)
    BY <1>3, <2>13
  <2> HIDE DEF new, t
  <2>7. /\ txs' \subseteq RampTx
        /\ outcome' \in [Owners -> {"none", "ok", "failed"}] /\ outcome'[v] = "none"
        /\ \A o \in Owners \ {v} : outcome'[o] = outcome[o]
        /\ \A other \in txs' : other.owner = v => other = tx
        /\ \A other \in txs' : other = tx \/ other \in txs
    BY <1>1, <2>5, <2>6, <2>14, FlowSends
  <2>8. Carried(v, {tx})
    <3>1. \A b \in txs : b = Orphan(b, v)
      BY <1>1, Unawaited DEF Orphan, Owners
    <3>2. tx \in txs'
      BY <2>14 DEF Sends
    <3> QED BY <2>6, <2>7, <3>1, <3>2 DEF Carried
  <2>9. /\ flow' \in [Visits -> FlowRecord] /\ flow'[v] = new
        /\ \A u \in Visits \ {v} : flow'[u] = flow[u]
    BY <2>2, <2>3, FlowStays
  <2>10. TxSound(tx)'
    <3>1. OwnedTx(tx, tx.owner)'
      BY <2>2, <2>6, <2>9 DEF OwnedTx
    <3>2. Serves(tx.from)'
      BY <1>1, <2>1, <2>6 DEF Serves
    <3> QED BY <2>6, <2>7, <3>1, <3>2 DEF TxSound
  <2>11. FlowSound(v)'
    BY <1>1, <2>1, <2>2, <2>7, <2>9 DEF FlowSound, Serves
  <2>12. /\ timer' \in [Visits -> Transfers \union {Nothing}] /\ shown' \in [Visits -> ShownStatuses]
         /\ \A u \in Visits : timer'[u] # Nothing => opened[timer'[u]] # Unopened
         /\ SentMeansPaid'
    BY <1>1, ShownStays
  <2> HIDE DEF Carried
  <2>15. \A b \in {tx} : TxSound(b)'
    BY <2>10
  <2> QED BY <1>1, <2>2, <2>7, <2>8, <2>9, <2>11, <2>12, <2>15, FlowActs
<1> QED BY <1>2, <1>3 DEF PayAnchor

LEMMA MoveEndsKeeps == ASSUME FreshNode, RampInv, NEW v \in Visits, MoveEnds(v) PROVE RampInv'
<1>1. /\ flow[v].step = "moving" /\ FlowSound(v) /\ UNCHANGED outcome
      /\ UNCHANGED <<custody, bridgeVars, trusts, place, unseen, paid, opened, visit, mounted, timer, shown, tick,
                     recorded>>
      /\ outcome \in [Owners -> {"none", "ok", "failed"}] /\ txs \subseteq RampTx
  BY DEF MoveEnds, flowSends, RampInv, RampTypes
<1>2. /\ timer' \in [Visits -> Transfers \union {Nothing}] /\ shown' \in [Visits -> ShownStatuses]
      /\ \A u \in Visits : timer'[u] # Nothing => opened[timer'[u]] # Unopened
      /\ SentMeansPaid'
  BY <1>1, ShownStays
<1>3. CASE outcome[v] = "ok" /\ Step(v, "pay") /\ UNCHANGED txs
  <2> DEFINE new == [flow[v] EXCEPT !.step = "pay"]
  <2>1. new \in FlowRecord /\ new.step = "pay" /\ new.account = flow[v].account /\ new.transfer = flow[v].transfer
    BY FlowValues DEF FlowSteps
  <2>2. flow' = [flow EXCEPT ![v] = new]
    BY <1>3 DEF Step
  <2> HIDE DEF new
  <2>3. Carried(v, {})
    BY <1>3, Unawaited, UnownedCarries DEF Owners
  <2>4. /\ flow' \in [Visits -> FlowRecord] /\ flow'[v] = new
        /\ \A u \in Visits \ {v} : flow'[u] = flow[u]
    BY <2>1, <2>2, FlowStays
  <2>5. FlowSound(v)'
    BY <1>1, <2>1, <2>4 DEF FlowSound, Serves
  <2> HIDE DEF Carried
  <2>6. \A tx \in {} : TxSound(tx)'
    OBVIOUS
  <2> QED BY <1>1, <1>2, <1>3, <2>1, <2>3, <2>4, <2>5, <2>6, FlowActs
<1>4. CASE Throws(v) /\ Abandoned(v)
  <2>1. Carried(v, {}) /\ txs' \subseteq RampTx
    BY <1>4, AbandonedCarries DEF RampInv
  <2>2. flow' = [flow EXCEPT ![v] = NoFlow] /\ NoFlow \in FlowRecord /\ NoFlow.step = "idle"
    BY <1>4, FlowValues DEF Throws
  <2>3. /\ flow' \in [Visits -> FlowRecord] /\ flow'[v] = NoFlow
        /\ \A u \in Visits \ {v} : flow'[u] = flow[u]
    BY <2>2, FlowStays
  <2>4. FlowSound(v)'
    BY <2>2, <2>3 DEF FlowSound
  <2> HIDE DEF Carried
  <2>5. \A tx \in {} : TxSound(tx)'
    OBVIOUS
  <2> QED BY <1>1, <1>2, <2>1, <2>2, <2>3, <2>4, <2>5, FlowActs
<1> QED BY <1>3, <1>4 DEF MoveEnds

LEMMA PaymentEndsKeeps == ASSUME FreshNode, RampInv, NEW v \in Visits, PaymentEnds(v) PROVE RampInv'
<1> DEFINE t == flow[v].transfer
<1>1. /\ flow[v].step = "paying" /\ FlowSound(v) /\ Abandoned(v) /\ UNCHANGED outcome
      /\ flow' = [flow EXCEPT ![v] = NoFlow] /\ NoFlow \in FlowRecord /\ NoFlow.step = "idle"
      /\ UNCHANGED <<custody, bridgeVars, trusts, place, unseen, paid, opened, visit, mounted, tick, recorded>>
      /\ outcome \in [Owners -> {"none", "ok", "failed"}]
  BY FlowValues DEF PaymentEnds, RampInv, RampTypes
<1>2. Carried(v, {}) /\ txs' \subseteq RampTx
  BY <1>1, AbandonedCarries DEF RampInv
<1>3. /\ flow' \in [Visits -> FlowRecord] /\ flow'[v] = NoFlow
      /\ \A u \in Visits \ {v} : flow'[u] = flow[u]
  BY <1>1, FlowStays
<1>9. \A tx \in {} : TxSound(tx)'
  OBVIOUS
<1>4. FlowSound(v)'
  BY <1>1, <1>3 DEF FlowSound
<1>5. /\ timer \in [Visits -> Transfers \union {Nothing}] /\ shown \in [Visits -> ShownStatuses]
      /\ \A u \in Visits : timer[u] # Nothing => opened[timer[u]] # Unopened
  BY DEF RampInv, RampTypes, TransferSound
<1>6. t \in Transfers /\ opened[t] # Unopened
  BY <1>1, UnopenedIsNot DEF FlowSound
<1>7. CASE UNCHANGED <<timer, shown>>
  <2>1. /\ timer' \in [Visits -> Transfers \union {Nothing}] /\ shown' \in [Visits -> ShownStatuses]
        /\ \A u \in Visits : timer'[u] # Nothing => opened[timer'[u]] # Unopened
        /\ SentMeansPaid'
    BY <1>1, <1>7, ShownStays
  <2> HIDE DEF Carried
  <2> QED BY <1>1, <1>2, <1>3, <1>4, <1>9, <2>1, FlowActs
<1>8. CASE Paid(v) /\ timer' = [timer EXCEPT ![v] = t] /\ shown' = [shown EXCEPT ![v] = "sent"]
  <2>1. t \in paid
    BY <1>1, <1>8 DEF Paid, FlowSound
  <2> HIDE DEF t
  <2>2. /\ timer' \in [Visits -> Transfers \union {Nothing}] /\ shown' \in [Visits -> ShownStatuses]
        /\ timer'[v] = t /\ \A u \in Visits \ {v} : timer'[u] = timer[u] /\ shown'[u] = shown[u]
    BY <1>5, <1>6, <1>8 DEF ShownStatuses
  <2>3. \A u \in Visits : timer'[u] # Nothing => opened[timer'[u]] # Unopened
    BY <1>5, <1>6, <2>2
  <2>4. SentMeansPaid'
    BY <1>1, <2>1, <2>2 DEF RampInv, SentMeansPaid
  <2> HIDE DEF Carried
  <2> QED BY <1>1, <1>2, <1>3, <1>4, <1>9, <2>2, <2>3, <2>4, FlowActs
<1> QED BY <1>7, <1>8 DEF PaymentEnds

-----------------------------------------------------------------------------
(* The interval's callback.                                                *)

\* What may be recorded: a deposit that is over, and whose coin is not on a bridge.
Arrived(t) == /\ t \in Transfers /\ opened[t].state = "completed"
              /\ opened[t].dir = "add" => place[t] \notin {"anchor", "claimable"} \union Keys

\* A deposit that completed is in its own account, or was moved on.
LEMMA Completed ==
  ASSUME FreshNode, RampInv, NEW t \in Transfers, opened[t].state = "completed",
         place[t] # "claimable",
         opened[t].dir = "add" => opened[t].account = "wallet" \/ place[t] # opened[t].account
  PROVE  Arrived(t)
<1>1. TransferSound(t)
  BY DEF RampInv
<1> QED BY <1>1, RampNames DEF TransferSound, Arrived

\* A callback starts, goes on or ends; the screens it does not belong to keep
\* what they show.
LEMMA TickActs ==
  ASSUME FreshNode, RampInv, NEW s \in Ticks, NEW sent,
         tick' \in [Ticks -> TickRecord], \A u \in Ticks \ {s} : tick'[u] = tick[u],
         Carried(s, sent), txs' \subseteq RampTx, \A tx \in sent : TxSound(tx)',
         outcome' \in [Owners -> {"none", "ok", "failed"}], \A o \in Owners \ {s} : outcome'[o] = outcome[o],
         TickSound(s)',
         timer' \in [Visits -> Transfers \union {Nothing}], shown' \in [Visits -> ShownStatuses],
         \A u \in Visits : timer'[u] = Nothing \/ (timer'[u] = timer[u] /\ shown'[u] = shown[u]),
         \A t \in recorded' : t \in recorded \/ Arrived(t),
         UNCHANGED <<custody, bridgeVars, trusts, place, unseen, paid, opened, visit, mounted, flow>>
  PROVE  RampInv'
<1>1. recorded' \subseteq Transfers
  BY DEF RampInv, RampTypes, Arrived
<1>2. RampTypes' /\ Gentle
  BY <1>1 DEF RampInv, RampTypes, Gentle, bridgeVars
<1>3. OnlyOf(s)
  BY DEF OnlyOf
<1>4. ASSUME NEW t \in Transfers PROVE TransferSound(t)'
  <2>1. TransferSound(t) /\ t # Nothing
    BY RampNames DEF RampInv
  <2> QED BY <2>1, TransferRests DEF TransferSound
<1>5. RecordedSound'
  BY DEF RampInv, RecordedSound, ReportedMeansArrived, Arrived
<1>6. SentMeansPaid'
  BY DEF RampInv, SentMeansPaid
<1>7. s \notin Visits
  BY RampNames
<1> HIDE DEF Carried, OnlyOf
<1> QED BY <1>2, <1>3, <1>4, <1>5, <1>6, <1>7, OwnStep

LEMMA TickStays ==
  ASSUME FreshNode, RampInv, NEW s \in Ticks, NEW new \in TickRecord, tick' = [tick EXCEPT ![s] = new]
  PROVE  /\ tick' \in [Ticks -> TickRecord] /\ tick'[s] = new
         /\ \A u \in Ticks \ {s} : tick'[u] = tick[u]
  BY DEF RampInv, RampTypes

LEMMA TickValues ==
  ASSUME FreshNode, RampInv, NEW s \in Ticks
  PROVE  /\ NoTick \in TickRecord /\ NoTick.step = "idle"
         /\ tick[s].step = "idle" \/ (tick[s].visit \in Visits /\ tick[s].transfer \in Transfers)
         /\ \A step \in {"claiming", "sweeping"} :
              /\ [tick[s] EXCEPT !.step = step] \in TickRecord
              /\ [tick[s] EXCEPT !.step = step].step = step
              /\ [tick[s] EXCEPT !.step = step].visit = tick[s].visit
              /\ [tick[s] EXCEPT !.step = step].transfer = tick[s].transfer
              /\ [tick[s] EXCEPT !.step = step].coins = tick[s].coins
<1>1. tick[s] \in TickRecord /\ TickSound(s)
  BY DEF RampInv, RampTypes
<1>2. NoTick \in TickRecord /\ NoTick.step = "idle"
  BY DEF NoTick, TickRecord
<1>3. tick[s].step = "idle" \/ (tick[s].visit \in Visits /\ tick[s].transfer \in Transfers)
  BY <1>1 DEF TickSound
<1> QED BY <1>1, <1>2, <1>3 DEF TickRecord

LEMMA ScreenTold ==
  ASSUME RampInv, NEW v \in Visits, NEW line \in ShownStatuses, ClearTimer(v, line)
  PROVE  /\ timer' \in [Visits -> Transfers \union {Nothing}] /\ shown' \in [Visits -> ShownStatuses]
         /\ \A u \in Visits : timer'[u] = Nothing \/ (timer'[u] = timer[u] /\ shown'[u] = shown[u])
  BY DEF ClearTimer, RampInv, RampTypes

LEMMA ScreenAsIs ==
  ASSUME RampInv, UNCHANGED <<timer, shown>>
  PROVE  /\ timer' \in [Visits -> Transfers \union {Nothing}] /\ shown' \in [Visits -> ShownStatuses]
         /\ \A u \in Visits : timer'[u] = Nothing \/ (timer'[u] = timer[u] /\ shown'[u] = shown[u])
  BY DEF RampInv, RampTypes

LEMMA PollKeeps == ASSUME FreshNode, RampInv, NEW s \in Ticks, NEW v \in Visits, Poll(s, v) PROVE RampInv'
<1>1. PICK t : t = timer[v]
  OBVIOUS
<1>2. /\ t \in Transfers /\ tick[s].step = "idle" /\ s \in Owners
      /\ UNCHANGED <<custody, bridgeVars, trusts, place, unseen, txs, paid, outcome, opened, visit, mounted, flow>>
      /\ txs \subseteq RampTx /\ outcome \in [Owners -> {"none", "ok", "failed"}]
      /\ tick \in [Ticks -> TickRecord] /\ TransferSound(t)
  BY <1>1 DEF Poll, ledgerVars, RampInv, RampTypes, Owners
<1>3. Carried(s, {})
  BY <1>2, Unawaited, UnownedCarries
<1>4. \A tx \in {} : TxSound(tx)'
  OBVIOUS
<1>5. /\ "failed" \in ShownStatuses /\ "done" \in ShownStatuses
  BY DEF ShownStatuses
<1> HIDE DEF Carried
<1>6. ASSUME ClearTimer(v, "failed") \/ ClearTimer(v, "done"), tick' = tick,
             \A u \in recorded' : u \in recorded \/ Arrived(u)
      PROVE  RampInv'
  <2>1. TickSound(s)'
    BY <1>2, <1>6 DEF TickSound
  <2>2. /\ timer' \in [Visits -> Transfers \union {Nothing}] /\ shown' \in [Visits -> ShownStatuses]
        /\ \A u \in Visits : timer'[u] = Nothing \/ (timer'[u] = timer[u] /\ shown'[u] = shown[u])
    BY <1>5, <1>6, ScreenTold
  <2> QED BY <1>2, <1>3, <1>4, <1>6, <2>1, <2>2, TickActs
<1>7. CASE ClearTimer(v, "failed") /\ UNCHANGED <<tick, recorded>>
  BY <1>6, <1>7
<1>8. CASE /\ opened[t].state = "completed" /\ place[t] # "claimable" /\ ~NeedsSweep(t)
           /\ Settle(v, t) /\ UNCHANGED tick
  <2>1. Arrived(t)
    BY <1>2, <1>8, Completed DEF NeedsSweep
  <2>2. ClearTimer(v, "done") /\ recorded' = recorded \union {t} /\ tick' = tick
    BY <1>8 DEF Settle
  <2> QED BY <1>6, <2>1, <2>2
<1>9. ASSUME NEW step \in {"claim", "sweep"}, opened[t].state = "completed", opened[t].dir = "add",
             step = "sweep" => opened[t].account # "wallet" /\ place[t] # "claimable",
             tick' = [tick EXCEPT ![s] = [NoTick EXCEPT !.step = step, !.visit = v, !.transfer = t]],
             UNCHANGED <<timer, shown, recorded>>
      PROVE  RampInv'
  <2> DEFINE new == [NoTick EXCEPT !.step = step, !.visit = v, !.transfer = t]
  <2>1. new \in TickRecord /\ new.step = step /\ new.visit = v /\ new.transfer = t
    BY <1>2 DEF NoTick, TickRecord
  <2>2. tick' = [tick EXCEPT ![s] = new]
    BY <1>9
  <2> HIDE DEF new
  <2>3. /\ tick' \in [Ticks -> TickRecord] /\ tick'[s] = new
        /\ \A u \in Ticks \ {s} : tick'[u] = tick[u]
    BY <2>1, <2>2, TickStays
  <2>4. TickSound(s)'
    BY <1>2, <1>9, <2>1, <2>3 DEF TickSound
  <2>5. /\ timer' \in [Visits -> Transfers \union {Nothing}] /\ shown' \in [Visits -> ShownStatuses]
        /\ \A u \in Visits : timer'[u] = Nothing \/ (timer'[u] = timer[u] /\ shown'[u] = shown[u])
    BY <1>9, ScreenAsIs
  <2>6. recorded' = recorded
    BY <1>9
  <2> QED BY <1>2, <1>3, <1>4, <2>3, <2>4, <2>5, <2>6, TickActs
<1>10. CASE /\ opened[t].state = "completed" /\ place[t] = "claimable"
            /\ tick' = [tick EXCEPT ![s] = [NoTick EXCEPT !.step = "claim", !.visit = v, !.transfer = t]]
            /\ UNCHANGED <<timer, shown, recorded>>
  <2>1. opened[t].dir = "add"
    BY <1>2, <1>10 DEF TransferSound
  <2> QED BY <1>9, <1>10, <2>1
<1>11. CASE /\ opened[t].state = "completed" /\ place[t] # "claimable" /\ NeedsSweep(t)
            /\ tick' = [tick EXCEPT ![s] = [NoTick EXCEPT !.step = "sweep", !.visit = v, !.transfer = t]]
            /\ UNCHANGED <<timer, shown, recorded>>
  BY <1>9, <1>11 DEF NeedsSweep
<1> QED BY <1>1, <1>7, <1>8, <1>10, <1>11 DEF Poll

LEMMA FailsKeeps ==
  ASSUME FreshNode, RampInv, NEW s \in Ticks, tick[s].step # "idle", NEW line \in {"unclaimed", "unswept"},
         Fails(s, line), UNCHANGED tickOnly
  PROVE  RampInv'
<1>1. /\ UNCHANGED <<custody, bridgeVars, trusts, place, unseen, paid, opened, visit, mounted, flow, outcome, recorded>>
      /\ ClearTimer(tick[s].visit, line) /\ Abandoned(s) /\ tick' = [tick EXCEPT ![s] = NoTick]
      /\ outcome \in [Owners -> {"none", "ok", "failed"}]
  BY DEF Fails, tickOnly, RampInv, RampTypes
<1>2. Carried(s, {}) /\ txs' \subseteq RampTx
  BY <1>1, AbandonedCarries DEF RampInv
<1>3. \A tx \in {} : TxSound(tx)'
  OBVIOUS
<1>4. /\ tick' \in [Ticks -> TickRecord] /\ tick'[s] = NoTick /\ NoTick.step = "idle"
      /\ \A u \in Ticks \ {s} : tick'[u] = tick[u]
  BY <1>1, TickValues, TickStays
<1>5. TickSound(s)'
  BY <1>4 DEF TickSound
<1>6. tick[s].visit \in Visits /\ line \in ShownStatuses
  BY TickValues DEF ShownStatuses
<1>7. /\ timer' \in [Visits -> Transfers \union {Nothing}] /\ shown' \in [Visits -> ShownStatuses]
      /\ \A u \in Visits : timer'[u] = Nothing \/ (timer'[u] = timer[u] /\ shown'[u] = shown[u])
  BY <1>1, <1>6, ScreenTold
<1> HIDE DEF Carried
<1> QED BY <1>1, <1>2, <1>3, <1>4, <1>5, <1>7, TickActs

LEMMA SettlesKeeps ==
  ASSUME FreshNode, RampInv, NEW s \in Ticks, tick[s].step # "idle", Arrived(tick[s].transfer),
         Settle(tick[s].visit, tick[s].transfer), tick' = [tick EXCEPT ![s] = NoTick],
         \A tx \in txs : tx.owner # s, UNCHANGED <<txs, outcome>>, UNCHANGED tickOnly
  PROVE  RampInv'
<1>1. /\ UNCHANGED <<custody, bridgeVars, trusts, place, unseen, paid, opened, visit, mounted, flow>>
      /\ ClearTimer(tick[s].visit, "done") /\ recorded' = recorded \union {tick[s].transfer}
      /\ outcome \in [Owners -> {"none", "ok", "failed"}] /\ txs \subseteq RampTx
  BY DEF Settle, tickOnly, RampInv, RampTypes
<1>2. Carried(s, {})
  BY UnownedCarries
<1>3. \A tx \in {} : TxSound(tx)'
  OBVIOUS
<1>4. /\ tick' \in [Ticks -> TickRecord] /\ tick'[s] = NoTick /\ NoTick.step = "idle"
      /\ \A u \in Ticks \ {s} : tick'[u] = tick[u]
  BY TickValues, TickStays
<1>5. TickSound(s)'
  BY <1>4 DEF TickSound
<1>6. tick[s].visit \in Visits /\ "done" \in ShownStatuses
  BY TickValues DEF ShownStatuses
<1>7. /\ timer' \in [Visits -> Transfers \union {Nothing}] /\ shown' \in [Visits -> ShownStatuses]
      /\ \A u \in Visits : timer'[u] = Nothing \/ (timer'[u] = timer[u] /\ shown'[u] = shown[u])
  BY <1>1, <1>6, ScreenTold
<1>8. \A t \in recorded' : t \in recorded \/ Arrived(t)
  BY <1>1
<1> HIDE DEF Carried
<1> QED BY <1>1, <1>2, <1>3, <1>4, <1>5, <1>7, <1>8, TickActs

\* What a callback sends is awaited by it alone.
LEMMA TickSends ==
  ASSUME FreshNode, RampInv, NEW s \in Ticks, NEW tx \in RampTx, tx.owner = s, tx.kind # "move", Sends(s, tx),
         tick[s].step \in {"claim", "send"}
  PROVE  /\ txs' \subseteq RampTx /\ Carried(s, {tx})
         /\ outcome' \in [Owners -> {"none", "ok", "failed"}] /\ outcome'[s] = "none"
         /\ \A o \in Owners \ {s} : outcome'[o] = outcome[o]
         /\ \A other \in txs' : other.owner = s => other = tx
<1>1. s \in Owners /\ \A other \in txs : other.owner # s
  BY Unawaited DEF Owners
<1>2. \A b \in txs : b = Orphan(b, s)
  BY <1>1 DEF Orphan
<1>3. Carried(s, {tx})
  BY <1>2 DEF Carried, Sends
<1> QED BY <1>1, <1>3 DEF Sends, RampInv, RampTypes

\* A callback sends its transaction, and awaits it.
LEMMA TickAwaits ==
  ASSUME FreshNode, RampInv, NEW s \in Ticks, NEW tx \in RampTx, tx.owner = s, tx.kind # "move", Sends(s, tx),
         tick[s].step \in {"claim", "send"}, NEW next \in {"claiming", "sweeping"},
         tick' = [tick EXCEPT ![s].step = next],
         next = "claiming" => tick[s].step = "claim" /\ custody = "classic" /\ tx.kind = "claim" /\ tx.to = "wallet"
                              /\ tx.coins = {tx.for} /\ tx.for = tick[s].transfer,
         next = "sweeping" => tick[s].step = "send" /\ custody = "smart" /\ tx.kind = "sweep" /\ tx.to = "wallet"
                              /\ tx.from \in Keys /\ tx.from = opened[tx.for].account
                              /\ tx.for = tick[s].transfer /\ tx.coins = tick[s].coins,
         UNCHANGED <<timer, shown, recorded>>, UNCHANGED tickOnly
  PROVE  RampInv'
<1> DEFINE new == [tick[s] EXCEPT !.step = next]
<1>1. /\ new \in TickRecord /\ new.step = next /\ new.visit = tick[s].visit
      /\ new.transfer = tick[s].transfer /\ new.coins = tick[s].coins
  BY TickValues
<1>2. tick' = [tick EXCEPT ![s] = new]
  OBVIOUS
<1> HIDE DEF new
<1>3. /\ tick' \in [Ticks -> TickRecord] /\ tick'[s] = new
      /\ \A u \in Ticks \ {s} : tick'[u] = tick[u]
  BY <1>1, <1>2, TickStays
<1>4. UNCHANGED <<custody, bridgeVars, trusts, place, unseen, paid, opened, visit, mounted, flow>>
  BY DEF tickOnly
<1>5. /\ txs' \subseteq RampTx /\ Carried(s, {tx})
      /\ outcome' \in [Owners -> {"none", "ok", "failed"}] /\ outcome'[s] = "none"
      /\ \A o \in Owners \ {s} : outcome'[o] = outcome[o]
      /\ \A other \in txs' : other.owner = s => other = tx
  BY TickSends
<1>6. TickSound(s)
  BY DEF RampInv
<1>7. TickSound(s)'
  BY <1>1, <1>3, <1>4, <1>5, <1>6 DEF TickSound
<1>8. OwnedTx(tx, s)'
  BY <1>1, <1>3, <1>4 DEF OwnedTx
<1>9. \A b \in {tx} : TxSound(b)'
  BY <1>4, <1>5, <1>8 DEF TxSound
<1>10. /\ timer' \in [Visits -> Transfers \union {Nothing}] /\ shown' \in [Visits -> ShownStatuses]
       /\ \A u \in Visits : timer'[u] = Nothing \/ (timer'[u] = timer[u] /\ shown'[u] = shown[u])
  BY ScreenAsIs
<1> HIDE DEF Carried
<1> QED BY <1>3, <1>4, <1>5, <1>7, <1>9, <1>10, TickActs

LEMMA ClaimKeeps == ASSUME FreshNode, RampInv, NEW s \in Ticks, Claim(s) PROVE RampInv'
<1>1. tick[s].step = "claim" /\ UNCHANGED tickOnly /\ tick[s].transfer \in Transfers
  BY TickValues DEF Claim
<1>2. CASE Fails(s, "unclaimed")
  BY <1>1, <1>2, FailsKeeps
<1>3. CASE /\ custody = "classic"
           /\ Sends(s, NewTx(s, "claim", "wallet", {tick[s].transfer}, tick[s].transfer, "wallet"))
           /\ tick' = [tick EXCEPT ![s].step = "claiming"]
           /\ UNCHANGED <<timer, shown, recorded>>
  <2>1. PICK tx : tx = NewTx(s, "claim", "wallet", {tick[s].transfer}, tick[s].transfer, "wallet")
    OBVIOUS
  <2>2. tx \in RampTx
    BY <1>1, <2>1 DEF NewTx, RampTx, Owners, Places, Accounts
  <2>3. /\ tx.owner = s /\ tx.kind = "claim" /\ tx.to = "wallet" /\ tx.coins = {tx.for}
        /\ tx.for = tick[s].transfer
    BY <2>1 DEF NewTx
  <2>4. Sends(s, tx)
    BY <1>3, <2>1
  <2> QED BY <1>1, <1>3, <2>2, <2>3, <2>4, TickAwaits
<1> QED BY <1>2, <1>3 DEF Claim

LEMMA ReadKeeps == ASSUME FreshNode, RampInv, NEW s \in Ticks, ReadBalance(s) PROVE RampInv'
<1>1. PICK t \in Transfers : t = tick[s].transfer /\ tick[s].step = "sweep"
  BY TickValues DEF ReadBalance
<1>2. PICK balance \in SUBSET Transfers : balance = CoinsIn(opened[t].account)
  BY DEF CoinsIn
<1>3. balance = CoinsIn(opened[t].account) \ unseen /\ UNCHANGED tickOnly
  BY <1>2 DEF ReadBalance, RampInv, RampTypes
<1>4. /\ TickSound(s) /\ s \in Owners /\ txs \subseteq RampTx /\ outcome \in [Owners -> {"none", "ok", "failed"}]
      /\ tick \in [Ticks -> TickRecord]
  BY DEF RampInv, RampTypes, Owners
<1>5. \A tx \in txs : tx.owner # s
  BY <1>1, <1>4, Unawaited
<1>6. opened[t].state = "completed" /\ opened[t].dir = "add" /\ place[t] # "claimable"
  BY <1>1, <1>4 DEF TickSound
<1>7. CASE Fails(s, "unswept")
  BY <1>1, <1>3, <1>7, FailsKeeps
<1>8. CASE /\ balance = {}
           /\ Settle(tick[s].visit, t)
           /\ tick' = [tick EXCEPT ![s] = NoTick]
           /\ UNCHANGED <<txs, outcome>>
  <2>1. place[t] # opened[t].account
    BY <1>2, <1>8 DEF CoinsIn
  <2>2. Arrived(t)
    BY <1>6, <2>1, Completed
  <2> QED BY <1>1, <1>3, <1>5, <1>8, <2>2, SettlesKeeps
<1>9. CASE /\ tick' = [tick EXCEPT ![s].step = "send", ![s].coins = balance]
           /\ UNCHANGED <<txs, outcome, timer, shown, recorded>>
  <2> DEFINE new == [[tick[s] EXCEPT !.step = "send"] EXCEPT !.coins = balance]
  <2>1. tick[s] \in TickRecord
    BY <1>4
  <2>2. /\ new \in TickRecord /\ new.step = "send" /\ new.visit = tick[s].visit
        /\ new.transfer = t /\ new.coins = balance
    BY <1>1, <2>1 DEF TickRecord
  <2>3. tick' = [tick EXCEPT ![s] = new]
    BY <1>4, <1>9
  <2> HIDE DEF new
  <2>4. /\ tick' \in [Ticks -> TickRecord] /\ tick'[s] = new
        /\ \A u \in Ticks \ {s} : tick'[u] = tick[u]
    BY <2>2, <2>3, TickStays
  <2>5. UNCHANGED <<custody, bridgeVars, trusts, place, unseen, paid, opened, visit, mounted, flow>>
    BY <1>3 DEF tickOnly
  <2>6. t \in balance \/ place[t] # opened[t].account
    BY <1>2 DEF CoinsIn
  <2>7. TickSound(s)'
    BY <1>1, <1>4, <2>2, <2>4, <2>5, <2>6 DEF TickSound
  <2>8. Carried(s, {}) /\ txs' \subseteq RampTx /\ recorded' = recorded
    BY <1>4, <1>5, <1>9, UnownedCarries
  <2>9. \A tx \in {} : TxSound(tx)'
    OBVIOUS
  <2>10. /\ timer' \in [Visits -> Transfers \union {Nothing}] /\ shown' \in [Visits -> ShownStatuses]
         /\ \A u \in Visits : timer'[u] = Nothing \/ (timer'[u] = timer[u] /\ shown'[u] = shown[u])
    BY <1>9, ScreenAsIs
  <2>11. outcome' \in [Owners -> {"none", "ok", "failed"}] /\ \A o \in Owners \ {s} : outcome'[o] = outcome[o]
    BY <1>4, <1>9
  <2> HIDE DEF Carried
  <2> QED BY <2>4, <2>5, <2>7, <2>8, <2>9, <2>10, <2>11, TickActs
<1> QED BY <1>1, <1>2, <1>3, <1>7, <1>8, <1>9 DEF ReadBalance

LEMMA SweepKeeps == ASSUME FreshNode, RampInv, NEW s \in Ticks, SendSweep(s) PROVE RampInv'
<1>1. PICK t \in Transfers : t = tick[s].transfer /\ tick[s].step = "send" /\ UNCHANGED tickOnly
  BY TickValues DEF SendSweep
<1>2. CASE Fails(s, "unswept")
  BY <1>1, <1>2, FailsKeeps
<1>3. CASE /\ Sends(s, NewTx(s, "sweep", opened[t].account, tick[s].coins, t, "wallet"))
           /\ tick' = [tick EXCEPT ![s].step = "sweeping"]
           /\ UNCHANGED <<timer, shown, recorded>>
  <2>1. PICK tx : tx = NewTx(s, "sweep", opened[t].account, tick[s].coins, t, "wallet")
    OBVIOUS
  <2>2. TickSound(s) /\ TransferSound(t) /\ custody \in {"classic", "smart"} /\ tick[s] \in TickRecord
    BY DEF RampInv, RampTypes
  <2>3. opened[t].state = "completed" /\ opened[t].account # "wallet"
    BY <1>1, <2>2 DEF TickSound
  <2>4. custody = "smart" /\ opened[t].account \in Keys
    BY <2>2, <2>3, UnopenedIsNot DEF TransferSound, Serves
  <2>5. tick[s].coins \in SUBSET Transfers
    BY <2>2 DEF TickRecord
  <2>6. tx \in RampTx
    BY <1>1, <2>1, <2>4, <2>5 DEF NewTx, RampTx, Owners, Places, Accounts
  <2>7. /\ tx.owner = s /\ tx.kind = "sweep" /\ tx.to = "wallet" /\ tx.from = opened[t].account
        /\ tx.coins = tick[s].coins /\ tx.for = t
    BY <2>1 DEF NewTx
  <2>8. Sends(s, tx)
    BY <1>3, <2>1
  <2> QED BY <1>1, <1>3, <2>4, <2>6, <2>7, <2>8, TickAwaits
<1> QED BY <1>1, <1>2, <1>3 DEF SendSweep

LEMMA MoneyMovedKeeps == ASSUME FreshNode, RampInv, NEW s \in Ticks, MoneyMoved(s) PROVE RampInv'
<1>1. PICK t \in Transfers : t = tick[s].transfer /\ tick[s].step \in {"claiming", "sweeping"} /\ UNCHANGED tickOnly
  BY TickValues DEF MoneyMoved
<1>2. CASE Fails(s, "unclaimed") \/ Fails(s, "unswept")
  BY <1>1, <1>2, FailsKeeps
<1>3. CASE /\ outcome[s] = "ok"
           /\ Settle(tick[s].visit, tick[s].transfer)
           /\ tick' = [tick EXCEPT ![s] = NoTick]
           /\ UNCHANGED <<txs, outcome>>
  <2>1. TickSound(s) /\ TransferSound(t) /\ s \in Owners
    BY DEF RampInv, Owners
  <2>2. /\ opened[t].state = "completed" /\ opened[t].dir = "add" /\ place[t] # "claimable"
        /\ tick[s].step = "claiming" => custody = "classic"
        /\ tick[s].step = "sweeping" => place[t] # opened[t].account
    BY <1>1, <1>3, <2>1 DEF TickSound
  <2>3. opened[t].account = "wallet" \/ place[t] # opened[t].account
    BY <1>1, <2>1, <2>2, UnopenedIsNot DEF TransferSound, Serves
  <2>4. Arrived(t)
    BY <2>2, <2>3, Completed
  <2>5. \A tx \in txs : tx.owner # s
    BY <1>3, <2>1, Unawaited
  <2> QED BY <1>1, <1>3, <2>4, <2>5, SettlesKeeps
<1> QED BY <1>2, <1>3 DEF MoneyMoved

-----------------------------------------------------------------------------
LEMMA RampStep == FreshNode /\ RampInv /\ [RampNext]_rampVars => RampInv'
<1> SUFFICES ASSUME FreshNode, RampInv, [RampNext]_rampVars PROVE RampInv'
  OBVIOUS
<1>1. CASE UNCHANGED rampVars
  <2>1. UNCHANGED <<custody, stored, minted, signedOut, trusts, place, unseen, txs, paid, outcome, opened, visit,
                    mounted, flow, timer, shown, tick, recorded>>
    BY <1>1 DEF rampVars, bridgeVars, ledgerVars, screenVars
  <2> QED BY <2>1 DEF RampInv, RampTypes, FlowSound, TransferSound, TxSound, MoveTxSound, OwnedTx, TickSound,
                      RecordedSound, ReportedMeansArrived, SentMeansPaid, Serves
<1>2. ASSUME NEW tx \in txs, IncludeTx(tx) \/ Lapse(tx) PROVE RampInv'
  BY <1>2, IncludeKeeps, LapseKeeps
<1>3. ASSUME NEW t \in Transfers, BankTransfer(t) \/ AnchorPays(t) \/ AnchorEnds(t) PROVE RampInv'
  BY <1>3, BankKeeps, AnchorPaysKeeps, AnchorEndsKeeps
<1>4. CASE NodeCatchesUp
  BY <1>4 DEF NodeCatchesUp, RampInv, RampTypes
<1>5. CASE OpenScreen \/ LeaveScreen \/ SignOut
  BY <1>5, ScreenKeeps
<1>6. ASSUME NEW v \in Visits, FlowStep(v) \/ \E dir \in {"add", "cash-out"} : Begin(v, dir) PROVE RampInv'
  BY <1>6, AwaitsKeep, ResolveKeeps, OpenKeeps, MoveToBridgeKeeps, MoveEndsKeeps, PayAnchorKeeps, PaymentEndsKeeps,
     BeginKeeps DEF FlowStep
<1>7. ASSUME NEW s \in Ticks, TickStep(s) \/ \E v \in Visits : Poll(s, v) PROVE RampInv'
  BY <1>7, ClaimKeeps, ReadKeeps, SweepKeeps, MoneyMovedKeeps, PollKeeps DEF TickStep
<1> QED BY <1>1, <1>2, <1>3, <1>4, <1>5, <1>6, <1>7 DEF RampNext

LEMMA RampAlways == ASSUME FreshNode PROVE RampSpec => []RampInv
<1>1. RampInit => RampInv
  BY RampStart
<1>2. RampInv /\ [RampNext]_rampVars => RampInv'
  BY RampStep
<1> QED BY <1>1, <1>2, PTL DEF RampSpec

\* Types: what the phone, the anchor and the ledger keep is of its type, and a
\* callback that runs has a deposit that completed.
THEOREM RampTypesHold == ASSUME FreshNode PROVE RampSpec => []RampTypeOK
<1>1. RampInv => RampTypeOK
  <2> SUFFICES ASSUME RampInv PROVE RampTypeOK
    OBVIOUS
  <2>1. \A v \in Visits : /\ flow[v].step \in FlowSteps
                          /\ timer[v] # Nothing => opened[timer[v]] # Unopened
                          /\ shown[v] \in ShownStatuses
    BY DEF RampInv, RampTypes, FlowRecord, TransferSound
  <2>2. \A s \in Ticks : tick[s].step # "idle" => opened[tick[s].transfer].state = "completed"
    BY DEF RampInv, TickSound
  <2> QED BY <2>1, <2>2 DEF RampTypeOK, RampInv, RampTypes
<1> QED BY <1>1, RampAlways, PTL

\* "Money that has not arrived must never look like money that has": a
\* deposit enters the activity list when its coin is neither at the anchor, nor
\* unclaimed, nor on a bridge, whatever callbacks run at once and whatever was
\* abandoned before -- as long as the phone's node shows what the anchor saw.
THEOREM MoneyArrived == ASSUME FreshNode PROVE RampSpec => []ReportedMeansArrived
<1>1. RampInv => ReportedMeansArrived
  BY DEF RampInv, RecordedSound
<1> QED BY <1>1, RampAlways, PTL

\* A cash-out the screen shows as sent was paid: the payment with its memo is on
\* the ledger before the line is drawn.
THEOREM SentIsPaid == ASSUME FreshNode PROVE RampSpec => []SentMeansPaid
<1>1. RampInv => SentMeansPaid
  BY DEF RampInv
<1> QED BY <1>1, RampAlways, PTL

-----------------------------------------------------------------------------
(* The hosted transfer.                                                    *)

Statuses == {"unknown", "incomplete", "pending_user", "pending_external", "completed", "error"}
FollowSteps == {"browser", "sleep"} \union FollowCalls

VisitRecord == [kind : Kinds \union {Nowhere}, step : {"closed", "idle"} \union StartCalls \union FollowSteps,
                on : HostedTransfers \union {Nowhere}, shown : HostedTransfers \union {Nowhere},
                phase : Statuses \union {"none"}, url : HostedTransfers \union {Nowhere}, reads : Nat]

\* The calls that open a transfer stand for none, those that follow one for it.
VisitSound(record) == /\ record.step \in StartCalls => record.on = Nowhere
                      /\ record.step \in FollowSteps => record.on \in HostedTransfers

AtInv == /\ screen \in [Openings -> VisitRecord] /\ \A v \in Openings : VisitSound(screen[v])
         /\ saved \in HostedTransfers \union {Nowhere}
         /\ status \in [HostedTransfers -> Statuses]

LEMMA ClosedVisit == NoVisit \in VisitRecord /\ VisitSound(NoVisit) /\ NoVisit.step = "closed"
  BY DEF NoVisit, VisitRecord, VisitSound, StartCalls, FollowSteps, FollowCalls

LEMMA EndedRests ==
  ASSUME NEW v, NEW record \in VisitRecord
  PROVE  Ended(v, record) \in VisitRecord /\ VisitSound(Ended(v, record))
<1> DEFINE new == [record EXCEPT !.step = "idle"]
<1>1. new \in VisitRecord /\ new.step = "idle"
  BY DEF VisitRecord
<1> HIDE DEF new
<1>2. VisitSound(new)
  BY <1>1 DEF VisitSound, StartCalls, FollowSteps, FollowCalls
<1>3. Ended(v, record) = new \/ Ended(v, record) = NoVisit
  BY DEF Ended, new
<1> QED BY <1>1, <1>2, <1>3, ClosedVisit

LEMMA VisitMoves ==
  ASSUME AtInv, NEW v \in Openings, NEW new \in VisitRecord, VisitSound(new), screen' = [screen EXCEPT ![v] = new],
         saved' \in HostedTransfers \union {Nowhere}, status' \in [HostedTransfers -> Statuses]
  PROVE  AtInv'
  BY DEF AtInv

\* The same visit at another step.
LEMMA VisitSteps ==
  ASSUME AtInv, NEW v \in Openings, NEW step \in {"closed", "idle"} \union StartCalls \union FollowSteps
  PROVE  /\ [screen[v] EXCEPT !.step = step] \in VisitRecord
         /\ [screen[v] EXCEPT !.step = step].step = step
         /\ [screen[v] EXCEPT !.step = step].on = screen[v].on
<1>1. screen[v] \in VisitRecord
  BY DEF AtInv
<1> QED BY <1>1 DEF VisitRecord

LEMMA VisitOnScreen ==
  ASSUME AtInv, NEW v \in Openings,
         (\E kind \in Kinds : OpenVisit(v, kind)) \/ LeavePage(v) \/ Start(v) \/ Refresh(v)
           \/ ForgetSavedStatus(v) \/ ReturnToAnchor(v)
  PROVE  AtInv'
<1>1. screen[v] \in VisitRecord /\ VisitSound(screen[v])
  BY DEF AtInv
<1>2. ASSUME NEW kind \in Kinds, OpenVisit(v, kind) PROVE AtInv'
  <2> DEFINE new == [NoVisit EXCEPT !.kind = kind, !.step = "idle"]
  <2>1. new \in VisitRecord /\ new.step = "idle"
    BY DEF NoVisit, VisitRecord
  <2>2. screen' = [screen EXCEPT ![v] = new] /\ UNCHANGED <<saved, status>>
    BY <1>2 DEF OpenVisit, anchorVars
  <2> HIDE DEF new
  <2>3. VisitSound(new)
    BY <2>1 DEF VisitSound, StartCalls, FollowSteps, FollowCalls
  <2> QED BY <2>1, <2>2, <2>3, VisitMoves DEF AtInv
<1>3. CASE LeavePage(v)
  <2>1. PICK new \in {NoVisit, screen[v]} : screen' = [screen EXCEPT ![v] = new] /\ UNCHANGED <<saved, status>>
    BY <1>3 DEF LeavePage, anchorVars
  <2> QED BY <1>1, <2>1, ClosedVisit, VisitMoves DEF AtInv
<1>4. CASE Start(v)
  <2> DEFINE new == [[[[screen[v] EXCEPT !.step = "describe"] EXCEPT !.on = Nowhere] EXCEPT !.shown = Nowhere]
                     EXCEPT !.phase = "none"]
  <2>1. new \in VisitRecord /\ new.step = "describe" /\ new.on = Nowhere
    BY <1>1 DEF VisitRecord, StartCalls
  <2>2. screen' = [screen EXCEPT ![v] = new] /\ UNCHANGED <<saved, status>>
    BY <1>4 DEF Start, anchorVars, AtInv
  <2> HIDE DEF new
  <2>3. VisitSound(new)
    BY <2>1 DEF VisitSound, FollowSteps, FollowCalls
  <2> QED BY <2>1, <2>2, <2>3, VisitMoves DEF AtInv
<1>5. CASE Refresh(v)
  <2> DEFINE new == [[screen[v] EXCEPT !.step = "describe_again"] EXCEPT !.on = saved]
  <2>1. saved \in HostedTransfers
    BY <1>5 DEF Refresh, MatchingSaved, AtInv
  <2>2. new \in VisitRecord /\ new.step = "describe_again" /\ new.on = saved
    BY <1>1, <2>1 DEF VisitRecord, FollowSteps, FollowCalls
  <2>3. screen' = [screen EXCEPT ![v] = new] /\ UNCHANGED <<saved, status>>
    BY <1>5 DEF Refresh, anchorVars, AtInv
  <2> HIDE DEF new
  <2>4. VisitSound(new)
    BY <2>1, <2>2 DEF VisitSound, StartCalls
  <2> QED BY <2>2, <2>3, <2>4, VisitMoves DEF AtInv
<1>6. CASE ForgetSavedStatus(v)
  <2> DEFINE new == [[[screen[v] EXCEPT !.shown = Nowhere] EXCEPT !.phase = "none"] EXCEPT !.url = Nowhere]
  <2>1. new \in VisitRecord /\ new.step = screen[v].step /\ new.on = screen[v].on
    BY <1>1 DEF VisitRecord
  <2>2. screen' = [screen EXCEPT ![v] = new] /\ saved' = Nowhere /\ status' = status
    BY <1>6 DEF ForgetSavedStatus, anchorVars, AtInv
  <2> HIDE DEF new
  <2>3. VisitSound(new)
    BY <1>1, <2>1 DEF VisitSound
  <2> QED BY <2>1, <2>2, <2>3, VisitMoves DEF AtInv
<1>7. CASE ReturnToAnchor(v)
  BY <1>7 DEF ReturnToAnchor, anchorVars, AtInv
<1> QED BY <1>2, <1>3, <1>4, <1>5, <1>6, <1>7

\* An answer comes, or a call throws; the page is closed.
LEMMA VisitCalls == ASSUME AtInv, NEW v \in Openings, Answers(v) PROVE AtInv'
<1>1. screen[v] \in VisitRecord /\ VisitSound(screen[v])
  BY DEF AtInv
<1>2. ASSUME NEW step \in StartCalls \ {"describe"}, screen[v].step \in StartCalls,
             screen' = [screen EXCEPT ![v].step = step], UNCHANGED <<saved, status>>
      PROVE  AtInv'
  <2> DEFINE new == [screen[v] EXCEPT !.step = step]
  <2>1. new \in VisitRecord /\ new.step = step /\ new.on = screen[v].on
    BY <1>2, VisitSteps
  <2>2. screen' = [screen EXCEPT ![v] = new]
    BY <1>2
  <2> HIDE DEF new
  <2>3. VisitSound(new)
    BY <1>1, <1>2, <2>1 DEF VisitSound, StartCalls, FollowSteps, FollowCalls
  <2> QED BY <1>2, <2>1, <2>2, <2>3, VisitMoves DEF AtInv
<1>3. ASSUME screen' = [screen EXCEPT ![v] = Ended(v, screen[v])], saved' = saved,
             status' \in [HostedTransfers -> Statuses]
      PROVE  AtInv'
  <2>1. Ended(v, screen[v]) \in VisitRecord /\ VisitSound(Ended(v, screen[v]))
    BY <1>1, EndedRests
  <2> QED BY <1>3, <2>1, VisitMoves DEF AtInv
<1>4. ASSUME NEW call \in StartCalls, NEW step \in (StartCalls \ {"describe"}) \union {"throws"}, Answered(v, call, step)
      PROVE  AtInv'
  <2>1. screen[v].step = call /\ UNCHANGED <<saved, status>>
    BY <1>4 DEF Answered, anchorVars
  <2>2. CASE step = "throws"
    BY <1>3, <1>4, <2>1, <2>2 DEF Answered, AtInv
  <2>3. CASE step \in StartCalls \ {"describe"}
    <3>1. step # "throws"
      BY <2>3 DEF StartCalls
    <3>2. screen' = [screen EXCEPT ![v].step = step]
      BY <1>4, <3>1 DEF Answered
    <3> QED BY <1>2, <2>1, <2>3, <3>2
  <2> QED BY <2>2, <2>3
<1>5. CASE Describe(v) \/ GetChallenge(v) \/ Approve(v) \/ GetToken(v)
  <2>1. CASE Describe(v)
    BY <1>4, <2>1 DEF Describe, StartCalls
  <2>2. CASE GetChallenge(v)
    BY <1>4, <2>2 DEF GetChallenge, StartCalls
  <2>3. CASE Approve(v)
    BY <1>4, <2>3 DEF Approve, StartCalls
  <2>4. CASE GetToken(v)
    BY <1>4, <2>4 DEF GetToken, StartCalls
  <2> QED BY <1>5, <2>1, <2>2, <2>3, <2>4
<1>6. ASSUME NEW t \in HostedTransfers, PageOpened(v, t) PROVE status' \in [HostedTransfers -> Statuses]
  BY <1>6 DEF PageOpened, AtInv, Statuses
<1>7. CASE StartInteractive(v)
  <2>1. PICK t \in HostedTransfers : /\ PageOpened(v, t) /\ saved' = t
                                     /\ screen' = [screen EXCEPT ![v].step = "browser", ![v].on = t, ![v].url = t]
    BY <1>7 DEF StartInteractive
  <2> DEFINE new == [[[screen[v] EXCEPT !.step = "browser"] EXCEPT !.on = t] EXCEPT !.url = t]
  <2>2. new \in VisitRecord /\ new.step = "browser" /\ new.on = t
    BY <1>1 DEF VisitRecord, FollowSteps
  <2>3. screen' = [screen EXCEPT ![v] = new]
    BY <2>1 DEF AtInv
  <2> HIDE DEF new
  <2>4. VisitSound(new)
    BY <2>2 DEF VisitSound, StartCalls
  <2>5. status' \in [HostedTransfers -> Statuses] /\ saved' \in HostedTransfers \union {Nowhere}
    BY <1>6, <2>1
  <2> QED BY <2>2, <2>3, <2>4, <2>5, VisitMoves
<1>8. CASE StartLost(v)
  <2>1. screen' = [screen EXCEPT ![v] = Ended(v, screen[v])] /\ saved' = saved
    BY <1>8 DEF StartLost
  <2>2. status' \in [HostedTransfers -> Statuses]
    BY <1>6, <1>8 DEF StartLost
  <2> QED BY <1>3, <2>1, <2>2
<1>9. CASE CallFails(v)
  <2>1. screen' = [screen EXCEPT ![v] = Ended(v, screen[v])] /\ UNCHANGED <<saved, status>>
    BY <1>9 DEF CallFails, anchorVars
  <2> QED BY <1>3, <2>1 DEF AtInv
<1>10. ASSUME NEW new \in VisitRecord, new.step \in FollowSteps, new.on = screen[v].on,
              screen[v].step \in FollowSteps, screen' = [screen EXCEPT ![v] = new], UNCHANGED <<saved, status>>
       PROVE  AtInv'
  <2>1. VisitSound(new)
    BY <1>1, <1>10 DEF VisitSound, StartCalls, FollowSteps, FollowCalls
  <2> QED BY <1>10, <2>1, VisitMoves DEF AtInv
<1>11. CASE Resume(v)
  <2> DEFINE new == [[screen[v] EXCEPT !.step = "read"] EXCEPT !.reads = 0]
  <2>1. new \in VisitRecord /\ new.step = "read" /\ new.on = screen[v].on
    BY <1>1 DEF VisitRecord, FollowSteps, FollowCalls
  <2>2. screen' = [screen EXCEPT ![v] = new]
    BY <1>11 DEF Resume, AtInv
  <2>3. UNCHANGED <<saved, status>> /\ screen[v].step = "describe_again"
    BY <1>11 DEF Resume, anchorVars
  <2> HIDE DEF new
  <2> QED BY <1>10, <2>1, <2>2, <2>3 DEF FollowSteps, FollowCalls
<1>12. CASE IntervalEnds(v)
  <2> DEFINE new == [screen[v] EXCEPT !.step = "read"]
  <2>1. new \in VisitRecord /\ new.step = "read" /\ new.on = screen[v].on
    BY VisitSteps DEF FollowSteps, FollowCalls
  <2>2. screen' = [screen EXCEPT ![v] = new]
    BY <1>12 DEF IntervalEnds
  <2>3. UNCHANGED <<saved, status>> /\ screen[v].step = "sleep"
    BY <1>12 DEF IntervalEnds, anchorVars
  <2> HIDE DEF new
  <2> QED BY <1>10, <2>1, <2>2, <2>3 DEF FollowSteps, FollowCalls
<1>13. CASE ReadTransaction(v)
  <2>1. screen[v].step = "read" /\ screen[v].on \in HostedTransfers /\ status' = status
    BY <1>1, <1>13 DEF ReadTransaction, anchorVars, VisitSound, FollowSteps, FollowCalls
  <2>2. PICK s \in Statuses : s = status[screen[v].on]
    BY <2>1 DEF AtInv
  <2>3. PICK reads \in Nat : reads = screen[v].reads + 1
    BY <1>1 DEF VisitRecord
  <2>4. PICK heard : heard = [screen[v] EXCEPT !.shown = screen[v].on, !.phase = s, !.reads = reads]
    OBVIOUS
  <2>5. heard \in VisitRecord /\ heard.step = "read" /\ heard.on = screen[v].on
    BY <1>1, <2>1, <2>4 DEF VisitRecord
  <2>6. CASE PollEnds(s, reads)
    <3>1. screen' = [screen EXCEPT ![v] = Ended(v, heard)] /\ saved' \in HostedTransfers \union {Nowhere}
      BY <1>13, <2>2, <2>3, <2>4, <2>6 DEF ReadTransaction, AtInv
    <3>2. Ended(v, heard) \in VisitRecord /\ VisitSound(Ended(v, heard))
      BY <2>5, EndedRests
    <3> QED BY <2>1, <3>1, <3>2, VisitMoves DEF AtInv
  <2>7. CASE ~PollEnds(s, reads)
    <3> DEFINE new == [heard EXCEPT !.step = "sleep"]
    <3>1. screen' = [screen EXCEPT ![v] = new] /\ saved' = saved
      BY <1>13, <2>2, <2>3, <2>4, <2>7 DEF ReadTransaction
    <3>2. new \in VisitRecord /\ new.step = "sleep" /\ new.on = screen[v].on
      BY <2>5 DEF VisitRecord, FollowSteps
    <3> HIDE DEF new
    <3> QED BY <1>10, <2>1, <3>1, <3>2 DEF FollowSteps, FollowCalls
  <2> QED BY <2>6, <2>7
<1> QED BY <1>5, <1>7, <1>8, <1>9, <1>11, <1>12, <1>13 DEF Answers

LEMMA AtStart == AtInit => AtInv
<1> SUFFICES ASSUME AtInit PROVE AtInv
  OBVIOUS
<1> QED BY ClosedVisit DEF AtInit, AtInv, Statuses

LEMMA AtStep == AtInv /\ [AtNext]_atVars => AtInv'
<1> SUFFICES ASSUME AtInv, [AtNext]_atVars PROVE AtInv'
  OBVIOUS
<1>1. CASE UNCHANGED atVars
  BY <1>1 DEF atVars, AtInv
<1>2. ASSUME NEW v \in Openings,
             (\E kind \in Kinds : OpenVisit(v, kind)) \/ LeavePage(v) \/ Start(v) \/ Refresh(v)
               \/ ForgetSavedStatus(v) \/ ReturnToAnchor(v) \/ Answers(v)
      PROVE  AtInv'
  BY <1>2, VisitOnScreen, VisitCalls
<1>3. CASE BrowserCloses
  <2>1. /\ screen' = [v \in Openings |-> IF screen[v].step = "browser"
                                          THEN [screen[v] EXCEPT !.step = "describe_again"] ELSE screen[v]]
        /\ UNCHANGED <<saved, status>>
    BY <1>3 DEF BrowserCloses, anchorVars
  <2>2. ASSUME NEW v \in Openings PROVE screen'[v] \in VisitRecord /\ VisitSound(screen'[v])
    <3> DEFINE new == [screen[v] EXCEPT !.step = "describe_again"]
    <3>1. new \in VisitRecord /\ new.step = "describe_again" /\ new.on = screen[v].on
      BY VisitSteps DEF FollowSteps, FollowCalls
    <3>2. screen[v] \in VisitRecord /\ VisitSound(screen[v])
      BY DEF AtInv
    <3>3. screen'[v] = IF screen[v].step = "browser" THEN new ELSE screen[v]
      BY <2>1
    <3> HIDE DEF new
    <3> QED BY <3>1, <3>2, <3>3 DEF VisitSound, StartCalls, FollowSteps
  <2>3. screen' \in [Openings -> VisitRecord]
    BY <2>1, <2>2
  <2> QED BY <2>1, <2>2, <2>3 DEF AtInv
<1>4. CASE CustomerActs
  <2>1. status' \in [HostedTransfers -> Statuses] /\ UNCHANGED <<saved, screen>>
    BY <1>4 DEF CustomerActs, AtInv, Statuses
  <2> QED BY <2>1 DEF AtInv
<1>5. CASE Restart
  <2>1. screen' = [v \in Openings |-> NoVisit] /\ UNCHANGED <<saved, status>>
    BY <1>5 DEF Restart, anchorVars
  <2> QED BY <2>1, ClosedVisit DEF AtInv
<1>6. ASSUME NEW t \in HostedTransfers, AnchorMoves(t) PROVE AtInv'
  <2>1. status' \in [HostedTransfers -> Statuses] /\ UNCHANGED <<saved, screen>>
    BY <1>6 DEF AnchorMoves, AtInv, Statuses
  <2> QED BY <2>1 DEF AtInv
<1> QED BY <1>1, <1>2, <1>3, <1>4, <1>5, <1>6 DEF AtNext

\* "Its ID is stored securely so status checks can resume": the saved transfer
\* leaves the store when it is over, when the customer forgets it, or when calls
\* that stand for another end late -- never by a failed call, an exhausted poll
\* or the end of the process.
THEOREM TransferTracked == AtSpec => TrackedUntilOver
<1>1. ASSUME AtInv, AtNext, saved # Nowhere, saved' # saved
      PROVE  Over(saved) \/ \E v \in Openings : ForgetSavedStatus(v) \/ LateCalls(v)
  <2>1. ASSUME NEW v \in Openings, StartInteractive(v) PROVE LateCalls(v)
    BY <1>1, <2>1 DEF StartInteractive, LateCalls, Busy, AtInv, VisitSound, StartCalls
  <2>2. ASSUME NEW v \in Openings, ReadTransaction(v) PROVE Over(saved) \/ LateCalls(v)
    <3>1. IsFinal(status[screen[v].on]) /\ screen[v].step = "read"
      BY <1>1, <2>2 DEF ReadTransaction
    <3> QED BY <3>1 DEF Over, IsFinal, LateCalls, Busy
  <2>3. ASSUME NEW v \in Openings, Answers(v) PROVE StartInteractive(v) \/ ReadTransaction(v)
    BY <1>1, <2>3 DEF Answers, Describe, GetChallenge, Approve, GetToken, Answered, StartLost, CallFails, Resume,
       IntervalEnds
  <2>4. ASSUME NEW v \in Openings,
               (\E kind \in Kinds : OpenVisit(v, kind)) \/ LeavePage(v) \/ Start(v) \/ Refresh(v) \/ ReturnToAnchor(v)
        PROVE  FALSE
    BY <1>1, <2>4 DEF OpenVisit, LeavePage, Start, Refresh, ReturnToAnchor
  <2>5. ~BrowserCloses /\ ~CustomerActs /\ ~Restart /\ \A t \in HostedTransfers : ~AnchorMoves(t)
    BY <1>1 DEF BrowserCloses, CustomerActs, Restart, AnchorMoves
  <2> QED BY <1>1, <2>1, <2>2, <2>3, <2>4, <2>5 DEF AtNext
<1>2. AtInv /\ [AtNext]_atVars =>
        [saved # Nowhere /\ saved' # saved =>
           Over(saved) \/ \E v \in Openings : ForgetSavedStatus(v) \/ LateCalls(v)]_atVars
  BY <1>1 DEF atVars
<1> QED BY <1>2, AtStart, AtStep, PTL DEF AtSpec, TrackedUntilOver

================================================================================
