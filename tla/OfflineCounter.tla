---------------------------- MODULE OfflineCounter ----------------------------
(***************************************************************************)
(* Paying over the counter from a phone with no network: the merchant's    *)
(* listener (useOfflineCounter, offlineCounter), the radio conversation    *)
(* (offlineChannel, offlineSession), and the customer's half               *)
(* (offlineCustomer, offlineAuthorization, PaymentConfirmationScreen).     *)
(*                                                                         *)
(* Each direction of a link delivers in order, what it holds is lost with  *)
(* it, and either phone may stop waiting before the other one answers.     *)
(* The counter serves one customer at a time; a customer it leaves without *)
(* an offer pays over its own network if it has one.                       *)
(***************************************************************************)
EXTENDS Naturals, Sequences

CONSTANTS Customers,   \* phones, their links and the accounts they pay from
          Requests,    \* payment requests the merchant may put up
          Terms,       \* what an authorization entry says: AsShown, or something else
          AsShown,
          MaxAttempts, \* bound: times customers press Approve
          Nothing      \* no request, no customer

ASSUME CounterAssumption == /\ AsShown \in Terms /\ MaxAttempts \in Nat
                            /\ Nothing \notin Customers \union Requests

VARIABLES shown,      \* the request on the merchant's screen
          session,    \* the counter's conversation: `busy` and its channel
          lingering,  \* customers whose finished channel is about to be released
          line,       \* what the counter's status line says, and of which request
          linked,     \* customers connected to the counter
          toCounter,  \* toCounter[c]: messages under way
          toCustomer, \* toCustomer[c]
          heard,      \* heard[c]: the customer's channel, messages not taken yet
          pay,        \* pay[c]: the confirmation screen of c
          attempts,   \* times Approve was pressed, for the bound
          inFlight,   \* settlement transactions sent
          settled     \* settled[r]: who paid r and on which terms

counterVars == <<shown, session, lingering, line>>
radioVars   == <<linked, toCounter, toCustomer>>
payerVars   == <<heard, pay, attempts>>
chainVars   == <<inFlight, settled>>
ocVars      == <<counterVars, radioVars, payerVars, chainVars>>

\* payer, authRequest, authorization, result and decline.
Offer    == [kind : {"authRequest"}, intent : Requests, terms : Terms]
Approval == [kind : {"authorization"}, intent : Requests, terms : Terms]
Message  == [kind : {"payer", "decline", "confirmed", "failed"}, intent : Requests]
              \union Offer \union Approval
Msg(kind, r) == [kind |-> kind, intent |-> r]
Entry(kind, r, terms) == [kind |-> kind, intent |-> r, terms |-> terms]

\* terms: of the simulated call; signed: of the entry that came back; approvals:
\* those that arrived and were not read.
Free == [step |-> "free", peer |-> Nothing, intent |-> Nothing, terms |-> AsShown, signed |-> AsShown,
         approvals |-> <<>>]
Idle == [intent |-> Nothing, says |-> "idle"]
Away == [step |-> "away", intent |-> Nothing, told |-> "nothing"]
Unpaid == [customer |-> Nothing, terms |-> AsShown]

Transaction == [intent : Requests, customer : Customers, terms : Terms, signed : Terms]

SessionSteps == {"free", "preparing", "asking", "sending", "confirming"}
PaySteps == {"away", "reading", "claimed", "signed", "alone", "watching", "ended"}

LineTexts == {"idle", "preparing", "awaiting approval", "submitting", "confirmed", "failed"}

\* What the customer's screen says in the end: a receipt, that no funds were
\* moved, or that nobody knows.
Outcomes == {"nothing", "paid", "unmoved", "unknown"}

OcInit == /\ shown = Nothing /\ session = Free /\ lingering = {} /\ line = Idle
          /\ linked = {}
          /\ toCounter = [c \in Customers |-> <<>>] /\ toCustomer = [c \in Customers |-> <<>>]
          /\ heard = [c \in Customers |-> <<>>] /\ pay = [c \in Customers |-> Away]
          /\ attempts = 0
          /\ inFlight = {} /\ settled = [r \in Requests |-> Unpaid]

-----------------------------------------------------------------------------
(* The radio.                                                              *)

\* sendProximityMessage: without the link the promise rejects.
SayToCounter(c, m) == toCounter' = IF c \in linked THEN [toCounter EXCEPT ![c] = Append(@, m)]
                                                    ELSE toCounter
SayToCustomer(c, m) == toCustomer' = IF c \in linked THEN [toCustomer EXCEPT ![c] = Append(@, m)]
                                                      ELSE toCustomer

\* releasePeer, walking away, the radio: what was under way is gone.
Unlink(c) == /\ linked' = linked \ {c}
             /\ toCounter' = [toCounter EXCEPT ![c] = <<>>]
             /\ toCustomer' = [toCustomer EXCEPT ![c] = <<>>]

DropLink(c) == c \in linked /\ Unlink(c) /\ UNCHANGED <<counterVars, payerVars, chainVars>>

\* The opening request, read off the air while the counter shows it.
Meet(c) == /\ shown # Nothing /\ c \notin linked
           /\ pay[c].step = "away" \/ (pay[c].step = "ended" /\ pay[c].intent # shown)
           /\ linked' = linked \union {c}
           /\ pay' = [pay EXCEPT ![c] = [Away EXCEPT !.step = "reading", !.intent = shown]]
           /\ UNCHANGED <<counterVars, toCounter, toCustomer, heard, attempts, chainVars>>

-----------------------------------------------------------------------------
(* The merchant's phone.                                                   *)

\* A new request, or none: cancelled, expired or paid.  The line starts afresh
\* only when no session runs.
Show(r) == /\ r # shown /\ shown' = r
           /\ line' = IF session.step = "free" THEN Idle ELSE line
           /\ UNCHANGED <<session, lingering, radioVars, payerVars, chainVars>>

\* The screen still shows the session's request.
Says(text) == line' = IF shown = session.intent THEN [intent |-> shown, says |-> text] ELSE line

Hears(c, kind) == toCounter[c] # <<>> /\ Head(toCounter[c]).kind = kind
Consume(c) == toCounter' = [toCounter EXCEPT ![c] = Tail(@)]

\* A payer for the request on screen, with nobody being served.  Without a
\* ledger the customer is told so and the counter stays free.
TakePayer(c) ==
  /\ Hears(c, "payer") /\ Consume(c)
  /\ session.step = "free" /\ Head(toCounter[c]).intent = shown
  /\ \/ /\ session' = [Free EXCEPT !.step = "preparing", !.peer = c, !.intent = shown]
        /\ line' = [intent |-> shown, says |-> "preparing"]
        /\ UNCHANGED toCustomer
     \/ /\ SayToCustomer(c, Msg("decline", shown))
        /\ line' = [intent |-> shown, says |-> "failed"]
        /\ UNCHANGED session
  /\ UNCHANGED <<shown, lingering, linked, payerVars, chainVars>>

\* The listener takes no payer while it is busy, or of another request.
IgnorePayer(c) == /\ Hears(c, "payer") /\ Consume(c)
                  /\ session.step # "free" \/ Head(toCounter[c]).intent # shown
                  /\ UNCHANGED <<counterVars, linked, toCustomer, payerVars, chainVars>>

\* finally: free for the next customer, and the channel released a moment later.
EndSession(text, kind) ==
  /\ session' = Free
  /\ lingering' = lingering \union {session.peer}
  /\ Says(text)
  /\ SayToCustomer(session.peer, Msg(kind, session.intent))

\* Simulated: the one entry to sign goes to the customer.  What another
\* merchant's phone puts in it is not this code's to say.
SendOffer ==
  /\ session.step = "preparing" /\ session.peer \in linked
  /\ \E terms \in Terms :
       /\ SayToCustomer(session.peer, Entry("authRequest", session.intent, terms))
       /\ session' = [session EXCEPT !.step = "asking", !.terms = terms]
  /\ Says("awaiting approval")
  /\ UNCHANGED <<shown, lingering, linked, toCounter, payerVars, chainVars>>

\* The channel is addressed to one peer and keeps what arrives before it is read.
TakeApproval(c) ==
  /\ Hears(c, "authorization") /\ Consume(c)
  /\ session' = IF session.step \in {"preparing", "asking"} /\ c = session.peer
                THEN [session EXCEPT !.approvals = Append(@, Head(toCounter[c]))] ELSE session
  /\ UNCHANGED <<shown, lingering, line, linked, toCustomer, payerVars, chainVars>>

\* The answer is to one payment; the entry in it goes into the transaction as it
\* came, whichever offer it answers.
RightApproval(m) == m.intent = session.intent

ReadApproval ==
  /\ session.step = "asking" /\ session.approvals # <<>>
  /\ LET m == Head(session.approvals)
     IN IF RightApproval(m)
        THEN /\ session' = [session EXCEPT !.step = "sending", !.signed = m.terms, !.approvals = <<>>]
             /\ Says("submitting")
             /\ UNCHANGED <<lingering, toCustomer>>
        ELSE EndSession("failed", "failed")
  /\ UNCHANGED <<shown, linked, toCounter, payerVars, chainVars>>

\* A decline rejects whoever is waiting.  While nobody is, it is put aside as a
\* message of its own kind, which nobody reads.
TakeDecline(c) ==
  /\ Hears(c, "decline") /\ Consume(c)
  /\ IF session.step = "asking" /\ session.approvals = <<>> /\ c = session.peer
     THEN EndSession("failed", "failed")
     ELSE UNCHANGED <<session, lingering, line, toCustomer>>
  /\ UNCHANGED <<shown, linked, payerVars, chainVars>>

\* The relayer signs and the network takes the transaction.
Submit ==
  /\ session.step = "sending"
  /\ inFlight' = inFlight \union
       {[intent |-> session.intent, customer |-> session.peer, terms |-> session.terms,
         signed |-> session.signed]}
  /\ session' = [session EXCEPT !.step = "confirming"] /\ Says("submitting")
  /\ UNCHANGED <<shown, lingering, radioVars, payerVars, settled>>

\* Mutant: the counter reports what it sent.
SettledUnread(r, c) == TRUE

SettledBy(r, c) == settled[r].customer = c

\* The receipt, said to the customer first.
Confirm == /\ session.step = "confirming" /\ SettledBy(session.intent, session.peer)
           /\ EndSession("confirmed", "confirmed")
           /\ UNCHANGED <<shown, linked, toCounter, payerVars, chainVars>>

\* The simulation or a send fails, two minutes pass without an approval, the
\* relayer or the network refuses, the confirmation does not come.
FailSession == /\ session.step # "free"
               /\ EndSession("failed", "failed")
               /\ UNCHANGED <<shown, linked, toCounter, payerVars, chainVars>>

\* A second and a half later: channel.close({release: true}).
Release(c) == /\ c \in lingering /\ lingering' = lingering \ {c}
              /\ Unlink(c)
              /\ UNCHANGED <<shown, session, line, payerVars, chainVars>>

-----------------------------------------------------------------------------
(* The customer's phone.                                                   *)

\* The channel hears what arrives while it is open.
Hear(c) == /\ toCustomer[c] # <<>>
           /\ toCustomer' = [toCustomer EXCEPT ![c] = Tail(@)]
           /\ heard' = IF pay[c].step \in {"claimed", "signed"}
                       THEN [heard EXCEPT ![c] = Append(@, Head(toCustomer[c]))] ELSE heard
           /\ UNCHANGED <<counterVars, linked, toCounter, pay, attempts, chainVars>>

Heard(c, kinds) == {i \in 1 .. Len(heard[c]) : heard[c][i].kind \in kinds}

payOnly == UNCHANGED <<counterVars, linked, toCustomer, attempts, chainVars>>

\* Approve: a new channel, and who is paying.  A send that fails leaves the phone
\* to its own network.
Approve(c) ==
  /\ pay[c].step = "reading" \/ (pay[c].step = "ended" /\ pay[c].told # "paid")
  /\ attempts < MaxAttempts /\ attempts' = attempts + 1
  /\ SayToCounter(c, Msg("payer", pay[c].intent))
  /\ heard' = [heard EXCEPT ![c] = <<>>]
  /\ pay' = [pay EXCEPT ![c] = [@ EXCEPT !.step = IF c \in linked THEN "claimed" ELSE "alone",
                                         !.told = "nothing"]]
  /\ UNCHANGED <<counterVars, linked, toCustomer, chainVars>>

\* It ends with an error: the counter is sent a decline, the channel is closed.
Ends(c, told) == /\ pay' = [pay EXCEPT ![c].step = "ended", ![c].told = told]
                 /\ heard' = [heard EXCEPT ![c] = <<>>]

\* Mutant: the entry is signed as it came.
MatchesAlways(m, r) == TRUE

\* firstMismatch: every field the request signed is compared by its value.
SameAsShown(terms) == terms = AsShown

\* assertAuthorizationMatchesIntent.
Matches(m, r) == m.intent = r /\ SameAsShown(m.terms)

SignOffer(c) ==
  \E i \in Heard(c, {"authRequest"}) :
    /\ pay[c].step = "claimed"
    /\ Matches(heard[c][i], pay[c].intent)
    /\ SayToCounter(c, Entry("authorization", pay[c].intent, heard[c][i].terms))
    /\ pay' = [pay EXCEPT ![c].step = "signed"] /\ heard' = [heard EXCEPT ![c] = <<>>]
    /\ payOnly

\* An entry that does not match, or a prompt that is dismissed: nothing was signed.
RefuseOffer(c) == /\ pay[c].step = "claimed" /\ Heard(c, {"authRequest"}) # {}
                  /\ SayToCounter(c, Msg("decline", pay[c].intent))
                  /\ Ends(c, "unmoved")
                  /\ payOnly

\* No offer in time, a decline, a word about another payment: the phone turns to
\* its own network, since nothing is signed.
NoOffer(c) == /\ pay[c].step = "claimed"
              /\ SayToCounter(c, Msg("decline", pay[c].intent))
              /\ pay' = [pay EXCEPT ![c].step = "alone"] /\ heard' = [heard EXCEPT ![c] = <<>>]
              /\ payOnly

ConfirmedHere(m, r) == m.kind = "confirmed" /\ m.intent = r

TakeReceipt(c) ==
  /\ pay[c].step = "signed"
  /\ \E i \in Heard(c, {"confirmed", "failed"}) : ConfirmedHere(heard[c][i], pay[c].intent)
  /\ Ends(c, "paid") /\ UNCHANGED toCounter /\ payOnly

\* describeSettlementError of a failed result, of a decline, or of two minutes
\* without one: each ends in "No funds were moved."
NoReceipt(c) == /\ pay[c].step = "signed"
                /\ SayToCounter(c, Msg("decline", pay[c].intent))
                /\ Ends(c, "unmoved")
                /\ payOnly

\* settlePaymentIntent over the phone's own network, countersigned by the merchant.
PayAlone(c) ==
  /\ pay[c].step = "alone"
  /\ inFlight' = inFlight \union {[intent |-> pay[c].intent, customer |-> c, terms |-> AsShown,
                                signed |-> AsShown]}
  /\ pay' = [pay EXCEPT ![c].step = "watching"]
  /\ UNCHANGED <<counterVars, radioVars, heard, attempts, settled>>

\* Nothing was sent: no network, no countersignature, a simulation that refuses.
CannotPayAlone(c) == pay[c].step = "alone" /\ Ends(c, "unmoved") /\ UNCHANGED toCounter /\ payOnly

WatchAlone(c) ==
  /\ pay[c].step = "watching"
  /\ \/ SettledBy(pay[c].intent, c) /\ Ends(c, "paid")
     \/ Ends(c, "unknown")
  /\ UNCHANGED toCounter /\ payOnly

\* The screen goes away and lets the merchant go.
Leave(c) == /\ pay[c].step \in {"reading", "ended"}
            /\ pay' = [pay EXCEPT ![c] = Away]
            /\ Unlink(c)
            /\ UNCHANGED <<counterVars, heard, attempts, chainVars>>

-----------------------------------------------------------------------------
(* The ledger: an intent settles once, for the wallet that signed this call. *)

Authorized(tx) == tx.signed = tx.terms

Land(tx) == /\ inFlight' = inFlight \ {tx}
            /\ settled' = IF settled[tx.intent] = Unpaid /\ Authorized(tx)
                          THEN [settled EXCEPT ![tx.intent] = [customer |-> tx.customer, terms |-> tx.terms]]
                          ELSE settled
            /\ UNCHANGED <<counterVars, radioVars, payerVars>>

Expire(tx) == inFlight' = inFlight \ {tx} /\ UNCHANGED <<counterVars, radioVars, payerVars, settled>>

SessionStep == SendOffer \/ ReadApproval \/ Submit \/ Confirm \/ FailSession

PayerStep(c) == \/ Hear(c) \/ SignOffer(c) \/ RefuseOffer(c) \/ NoOffer(c) \/ TakeReceipt(c)
                \/ NoReceipt(c) \/ PayAlone(c) \/ CannotPayAlone(c) \/ WatchAlone(c)

CounterHears(c) == TakePayer(c) \/ IgnorePayer(c) \/ TakeApproval(c) \/ TakeDecline(c)

OcNext == \/ SessionStep \/ \E r \in Requests \union {Nothing} : Show(r)
          \/ \E tx \in inFlight : Land(tx) \/ Expire(tx)
          \/ \E c \in Customers : \/ DropLink(c) \/ Meet(c) \/ CounterHears(c) \/ Release(c)
                                  \/ Approve(c) \/ PayerStep(c) \/ Leave(c)

OcSpec == OcInit /\ [][OcNext]_ocVars

-----------------------------------------------------------------------------
\* Every variable has the shape the screens, the radio and the ledger give it.
OcTypeOK ==
  /\ shown \in Requests \union {Nothing} /\ lingering \subseteq Customers /\ linked \subseteq Customers
  /\ session \in [step : SessionSteps, peer : Customers \union {Nothing},
                  intent : Requests \union {Nothing}, terms : Terms, signed : Terms,
                  approvals : Seq(Approval)]
  /\ line \in [intent : Requests \union {Nothing}, says : LineTexts]
  /\ toCounter \in [Customers -> Seq(Message)] /\ toCustomer \in [Customers -> Seq(Message)]
  /\ heard \in [Customers -> Seq(Message)]
  /\ pay \in [Customers -> [step : PaySteps, intent : Requests \union {Nothing}, told : Outcomes]]
  /\ attempts \in 0 .. MaxAttempts
  /\ inFlight \subseteq Transaction
  /\ settled \in [Requests -> [customer : Customers \union {Nothing}, terms : Terms]]

\* A receipt is only shown for a payment of this request that the ledger has
\* settled for this customer, whoever reported it.
ReceiptIsTrue ==
  \A c \in Customers : pay[c].told = "paid" => settled[pay[c].intent].customer = c

\* "An entry that pays a different amount, a different recipient or out of a
\* different wallet" is never what a customer is charged for.
ChargedAsShown == \A r \in Requests : settled[r] # Unpaid => settled[r].terms = AsShown

-----------------------------------------------------------------------------
\* What the sources say and the code does not keep (README, section 4): no run
\* lists these.
\* A phone that says no funds were moved is right.
UnmovedIsTrue ==
  \A c \in Customers : pay[c].told = "unmoved" => settled[pay[c].intent].customer # c

\* "A new request starts with nothing said about it."
LineIsAboutShown == line.intent \in {Nothing, shown}

=============================================================================
