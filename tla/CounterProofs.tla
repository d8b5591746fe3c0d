----------------------------- MODULE CounterProofs -----------------------------
(***************************************************************************)
(* A payment at the counter without the customer's network: what holds of  *)
(* the conversation and of the Bluetooth link it is held over.             *)
(*                                                                         *)
(* The conversation, for any number of customers, requests and attempts:   *)
(* nobody is shown a receipt for a payment the ledger has not settled, and *)
(* nobody is charged for what the screen did not show.  Both follow from   *)
(* what each queue can hold.  A "confirmed" on its way to a customer names *)
(* a request the ledger has settled for that customer, and what is settled *)
(* stays so.  An approval on its way to the counter was signed for the     *)
(* terms on the screen, whichever offer it answers and whichever session   *)
(* reads it, and the ledger only takes the call that was signed.           *)
(*                                                                         *)
(* The link, for messages of any number and length: the last operation of  *)
(* the hook's queue is always what the screen wants, so that what is       *)
(* served when the queue has run is what is wanted.  A phone hears whole   *)
(* messages in the order they were said, because frames are in that order  *)
(* all along the way: those heard, those on the pile, those on the air and *)
(* those not yet sent.  What an iPhone said over a link nothing went wrong *)
(* with is heard, because no frame of it is ever anywhere else.            *)
(***************************************************************************)
EXTENDS OfflineCounter, ProximityLink, SequenceTheorems, FiniteSetTheorems, TLAPS

\* What a customer's phone says.
Signed == [kind : {"authorization"}, intent : Requests, terms : {AsShown}]
FromCustomer == [kind : {"payer", "decline"}, intent : Requests] \union Signed

\* What may be said to c.
ToldTruly(m, c) == m.kind = "confirmed" => SettledBy(m.intent, c)
ForCustomer(c) == {m \in Message : ToldTruly(m, c)}

MerchantSound ==
  /\ shown \in Requests \union {Nothing} /\ lingering \subseteq Customers /\ linked \subseteq Customers
  /\ session \in [step : SessionSteps, peer : Customers \union {Nothing},
                  intent : Requests \union {Nothing}, terms : Terms, signed : {AsShown},
                  approvals : Seq(Signed)]
  /\ session.step # "free" => session.peer \in Customers /\ session.intent \in Requests
  /\ line \in [intent : Requests \union {Nothing}, says : LineTexts]

PayerSound(c) == /\ pay[c].step # "away" => pay[c].intent \in Requests
                 /\ pay[c].told = "paid" => pay[c].intent \in Requests /\ SettledBy(pay[c].intent, c)

PayersSound ==
  /\ pay \in [Customers -> [step : PaySteps, intent : Requests \union {Nothing}, told : Outcomes]]
  /\ attempts \in 0 .. MaxAttempts
  /\ \A c \in Customers : PayerSound(c)

ChainSound ==
  /\ inFlight \subseteq Transaction
  /\ settled \in [Requests -> [customer : Customers \union {Nothing}, terms : Terms]]
  /\ \A sent \in inFlight : sent.signed = AsShown
  /\ ChargedAsShown

CounterQueues == /\ toCounter \in [Customers -> Seq(Message)]
                 /\ \A c \in Customers : toCounter[c] \in Seq(FromCustomer)

CustomerQueues == /\ toCustomer \in [Customers -> Seq(Message)] /\ heard \in [Customers -> Seq(Message)]
                  /\ \A c \in Customers : /\ toCustomer[c] \in Seq(ForCustomer(c))
                                          /\ heard[c] \in Seq(ForCustomer(c))

OcInv == MerchantSound /\ PayersSound /\ ChainSound /\ CounterQueues /\ CustomerQueues

-----------------------------------------------------------------------------
(* Queues.                                                                 *)

LEMMA FirstTaken ==
  ASSUME NEW S, NEW q \in Seq(S), q # <<>>
  PROVE  Head(q) \in S /\ Tail(q) \in Seq(S)
  BY HeadTailProperties

LEMMA Added ==
  ASSUME NEW S, NEW q \in Seq(S), NEW m \in S
  PROVE  Append(q, m) \in Seq(S)
  BY AppendProperties

LEMMA Nobody == <<>> \in Seq(Message) /\ <<>> \in Seq(Approval) /\ <<>> \in Seq(Signed) /\ <<>> \in Seq(FromCustomer)
                /\ \A c : <<>> \in Seq(ForCustomer(c))
  BY EmptySeq

\* A message of a kind has the fields of the kind.
LEMMA Kinds ==
  ASSUME NEW m \in Message
  PROVE  /\ m.intent \in Requests
         /\ m.kind = "authRequest" => m.terms \in Terms
         /\ m.kind = "authorization" => m \in Approval
  BY DEF Message, Offer, Approval

LEMMA MessagesOf ==
  ASSUME NEW r \in Requests, NEW t \in Terms
  PROVE  /\ \A k \in {"payer", "decline", "confirmed", "failed"} : Msg(k, r) \in Message
         /\ Entry("authRequest", r, t) \in Message /\ Entry("authorization", r, t) \in Message
         /\ Entry("authorization", r, t) \in Approval
         /\ \A k \in {"payer", "decline"} : Msg(k, r) \in FromCustomer
         /\ Entry("authorization", r, AsShown) \in FromCustomer
         /\ \A c : /\ Msg("decline", r) \in ForCustomer(c) /\ Msg("failed", r) \in ForCustomer(c)
                   /\ Entry("authRequest", r, t) \in ForCustomer(c)
                   /\ SettledBy(r, c) => Msg("confirmed", r) \in ForCustomer(c)
  BY DEF Msg, Entry, Message, Offer, Approval, FromCustomer, Signed, ForCustomer, ToldTruly

-----------------------------------------------------------------------------
(* The radio.  An answer stays true as long as the ledger keeps what it    *)
(* settled.                                                                *)

LEMMA SaidToCounter ==
  ASSUME CounterQueues, NEW c \in Customers, NEW m \in FromCustomer, m \in Message,
         SayToCounter(c, m)
  PROVE  CounterQueues'
<1>1. Append(toCounter[c], m) \in Seq(Message) /\ Append(toCounter[c], m) \in Seq(FromCustomer)
  BY Added DEF CounterQueues
<1> QED BY <1>1 DEF SayToCounter, CounterQueues

LEMMA TakenByCounter ==
  ASSUME CounterQueues, NEW c \in Customers, toCounter[c] # <<>>, Consume(c)
  PROVE  CounterQueues'
<1>1. Tail(toCounter[c]) \in Seq(Message) /\ Tail(toCounter[c]) \in Seq(FromCustomer)
  BY FirstTaken DEF CounterQueues
<1> QED BY <1>1 DEF Consume, CounterQueues

LEMMA SaidToCustomer ==
  ASSUME CustomerQueues, NEW c \in Customers, NEW m \in ForCustomer(c), SayToCustomer(c, m),
         UNCHANGED <<heard, settled>>
  PROVE  CustomerQueues'
<1>1. m \in Message
  BY DEF ForCustomer
<1>2. Append(toCustomer[c], m) \in Seq(Message) /\ Append(toCustomer[c], m) \in Seq(ForCustomer(c))
  BY <1>1, Added DEF CustomerQueues
<1>3. \A d \in Customers : ForCustomer(d)' = ForCustomer(d)
  BY DEF ForCustomer, ToldTruly, SettledBy
<1> QED BY <1>2, <1>3 DEF SayToCustomer, CustomerQueues

LEMMA Unlinked ==
  ASSUME CounterQueues, CustomerQueues, NEW c \in Customers, Unlink(c), UNCHANGED <<heard, settled>>
  PROVE  CounterQueues' /\ CustomerQueues'
<1>1. \A d \in Customers : ForCustomer(d)' = ForCustomer(d)
  BY DEF ForCustomer, ToldTruly, SettledBy
<1> QED BY <1>1, Nobody DEF Unlink, CounterQueues, CustomerQueues

LEMMA QueuesKept ==
  ASSUME CounterQueues, CustomerQueues
  PROVE  /\ UNCHANGED toCounter => CounterQueues'
         /\ UNCHANGED <<toCustomer, heard, settled>> => CustomerQueues'
<1>1. UNCHANGED settled => \A d \in Customers : ForCustomer(d)' = ForCustomer(d)
  BY DEF ForCustomer, ToldTruly, SettledBy
<1> QED BY <1>1 DEF CounterQueues, CustomerQueues

\* What the channel forgets or takes is no longer there to be false.
LEMMA HeardKept ==
  ASSUME CustomerQueues, NEW c \in Customers, UNCHANGED <<toCustomer, settled>>,
         heard' = [heard EXCEPT ![c] = <<>>]
  PROVE  CustomerQueues'
<1>1. \A d \in Customers : ForCustomer(d)' = ForCustomer(d)
  BY DEF ForCustomer, ToldTruly, SettledBy
<1> QED BY <1>1, Nobody DEF CustomerQueues

-----------------------------------------------------------------------------
(* What the invariant gives, and where it starts.                          *)

LEMMA Shapes == OcInv => OcTypeOK
<1> SUFFICES ASSUME OcInv PROVE OcTypeOK
  OBVIOUS
<1>1. Seq(Signed) \subseteq Seq(Approval)
  <2>1. Signed \subseteq Approval
    BY CounterAssumption DEF Signed, Approval
  <2> QED BY <2>1, SeqMonotonic
<1>2. session \in [step : SessionSteps, peer : Customers \union {Nothing},
                  intent : Requests \union {Nothing}, terms : Terms, signed : Terms,
                  approvals : Seq(Approval)]
  BY <1>1, CounterAssumption DEF OcInv, MerchantSound
<1> QED BY <1>2 DEF OcInv, OcTypeOK, MerchantSound, PayersSound, ChainSound, CounterQueues, CustomerQueues

LEMMA Receipts == OcInv => ReceiptIsTrue
  BY DEF OcInv, PayersSound, PayerSound, SettledBy, ReceiptIsTrue

LEMMA Charges == OcInv => ChargedAsShown
  BY DEF OcInv, ChainSound

LEMMA Resting ==
  /\ Free \in [step : SessionSteps, peer : Customers \union {Nothing},
              intent : Requests \union {Nothing}, terms : Terms, signed : {AsShown},
              approvals : Seq(Signed)]
  /\ Free.step = "free"
  /\ Away \in [step : PaySteps, intent : Requests \union {Nothing}, told : Outcomes]
  /\ Away.step = "away" /\ Away.told = "nothing"
  BY CounterAssumption, Nobody DEF Free, SessionSteps, Away, PaySteps, Outcomes

LEMMA CounterStarts == OcInit => OcInv
<1> SUFFICES ASSUME OcInit PROVE OcInv
  OBVIOUS
<1> USE CounterAssumption, Nobody DEF OcInit
<1>1. MerchantSound
  BY DEF MerchantSound, Free, Idle, SessionSteps, LineTexts
<1>2. PayersSound
  BY DEF PayersSound, PayerSound, Away, PaySteps, Outcomes
<1>3. ChainSound
  BY DEF ChainSound, Unpaid, ChargedAsShown
<1>4. CounterQueues /\ CustomerQueues
  BY DEF CounterQueues, CustomerQueues
<1> QED BY <1>1, <1>2, <1>3, <1>4 DEF OcInv

\* Parts that a step does not touch.
LEMMA RestKept ==
  ASSUME OcInv
  PROVE  /\ UNCHANGED <<counterVars, linked>> => MerchantSound'
         /\ UNCHANGED <<pay, attempts, settled>> => PayersSound'
         /\ UNCHANGED chainVars => ChainSound'
         /\ UNCHANGED toCounter => CounterQueues'
         /\ UNCHANGED <<toCustomer, heard, settled>> => CustomerQueues'
  BY QueuesKept DEF OcInv, MerchantSound, PayersSound, PayerSound, SettledBy, ChainSound, ChargedAsShown,
                    counterVars, chainVars

-----------------------------------------------------------------------------
(* The merchant's phone.                                                   *)

LEMMA LineSaid ==
  ASSUME OcInv, NEW text \in LineTexts, Says(text)
  PROVE  line' \in [intent : Requests \union {Nothing}, says : LineTexts]
  BY DEF OcInv, MerchantSound, Says

LEMMA ShowStep ==
  ASSUME OcInv, NEW r \in Requests \union {Nothing}, Show(r)
  PROVE  OcInv'
<1>1. MerchantSound'
  BY DEF OcInv, MerchantSound, Show, Idle, LineTexts, radioVars
<1> QED BY <1>1, RestKept DEF Show, OcInv, radioVars, payerVars, chainVars

LEMMA TakePayerStep ==
  ASSUME OcInv, NEW c \in Customers, TakePayer(c)
  PROVE  OcInv'
<1>1. Head(toCounter[c]) \in Message /\ shown \in Requests
  BY FirstTaken, Kinds DEF TakePayer, Hears, OcInv, CounterQueues
<1>2. CounterQueues'
  BY TakenByCounter DEF TakePayer, Hears, OcInv
<1>3. MerchantSound'
  <2>0. Free \in [step : SessionSteps, peer : Customers \union {Nothing},
                 intent : Requests \union {Nothing}, terms : Terms, signed : {AsShown},
                 approvals : Seq(Signed)]
    BY Resting
  <2>1. UNCHANGED <<shown, lingering, linked>>
    BY DEF TakePayer
  <2>2. CASE line' = [intent |-> shown, says |-> "failed"] /\ UNCHANGED session
    BY <1>1, <2>1, <2>2 DEF OcInv, MerchantSound, LineTexts
  <2>3. CASE /\ session' = [Free EXCEPT !.step = "preparing", !.peer = c, !.intent = shown]
             /\ line' = [intent |-> shown, says |-> "preparing"]
    <3>1. /\ session' \in [step : SessionSteps, peer : Customers \union {Nothing},
                         intent : Requests \union {Nothing}, terms : Terms, signed : {AsShown},
                         approvals : Seq(Signed)]
          /\ session'.peer = c /\ session'.intent = shown
      BY <1>1, <2>0, <2>3 DEF SessionSteps
    <3>2. line' \in [intent : Requests \union {Nothing}, says : LineTexts]
      BY <1>1, <2>3 DEF LineTexts
    <3> QED BY <1>1, <2>1, <3>1, <3>2 DEF OcInv, MerchantSound
  <2> QED BY <2>2, <2>3 DEF TakePayer
<1>4. CustomerQueues'
  <2>1. Msg("decline", shown) \in ForCustomer(c)
    BY <1>1, MessagesOf, CounterAssumption
  <2>2. SayToCustomer(c, Msg("decline", shown)) => CustomerQueues'
    BY <2>1, SaidToCustomer DEF TakePayer, OcInv, payerVars, chainVars
  <2> QED BY <2>2, RestKept DEF TakePayer, payerVars, chainVars
<1> QED BY <1>2, <1>3, <1>4, RestKept DEF TakePayer, OcInv, payerVars, chainVars

LEMMA IgnorePayerStep ==
  ASSUME OcInv, NEW c \in Customers, IgnorePayer(c)
  PROVE  OcInv'
<1>1. CounterQueues'
  BY TakenByCounter DEF IgnorePayer, Hears, OcInv
<1> QED BY <1>1, RestKept DEF IgnorePayer, OcInv, payerVars, chainVars

\* A session that ends says the truth about it.
LEMMA SessionEnds ==
  ASSUME OcInv, NEW text \in LineTexts, NEW kind \in {"failed", "confirmed"}, EndSession(text, kind),
         session.step # "free", kind = "confirmed" => SettledBy(session.intent, session.peer),
         UNCHANGED <<shown, linked, payerVars, chainVars>>, CounterQueues'
  PROVE  OcInv'
<1>1. session.peer \in Customers /\ session.intent \in Requests
  BY DEF OcInv, MerchantSound
<1>2. MerchantSound'
  BY <1>1, LineSaid, Nobody, CounterAssumption DEF EndSession, OcInv, MerchantSound, Free, SessionSteps
<1>3. Msg(kind, session.intent) \in ForCustomer(session.peer)
  BY <1>1, MessagesOf, CounterAssumption
<1>4. CustomerQueues'
  BY <1>1, <1>3, SaidToCustomer DEF EndSession, OcInv, payerVars, chainVars
<1> QED BY <1>2, <1>4, RestKept DEF OcInv, payerVars, chainVars

LEMMA SendOfferStep ==
  ASSUME OcInv, SendOffer
  PROVE  OcInv'
<1>1. PICK terms \in Terms :
        /\ SayToCustomer(session.peer, Entry("authRequest", session.intent, terms))
        /\ session' = [session EXCEPT !.step = "asking", !.terms = terms]
  BY DEF SendOffer
<1>2. session.peer \in Customers /\ session.intent \in Requests
  BY DEF SendOffer, OcInv, MerchantSound
<1>3. MerchantSound'
  <2>1. line' \in [intent : Requests \union {Nothing}, says : LineTexts]
    BY LineSaid DEF SendOffer, LineTexts
  <2> QED BY <1>1, <1>2, <2>1 DEF SendOffer, OcInv, MerchantSound, SessionSteps
<1>4. Entry("authRequest", session.intent, terms) \in ForCustomer(session.peer)
  BY <1>2, MessagesOf
<1>5. CustomerQueues'
  BY <1>1, <1>2, <1>4, SaidToCustomer DEF SendOffer, OcInv, payerVars, chainVars
<1> QED BY <1>3, <1>5, RestKept DEF SendOffer, OcInv, payerVars, chainVars

\* Whatever is buffered was signed for the terms shown.
LEMMA TakeApprovalStep ==
  ASSUME OcInv, NEW c \in Customers, TakeApproval(c)
  PROVE  OcInv'
<1>1. Head(toCounter[c]) \in FromCustomer /\ Head(toCounter[c]).kind = "authorization"
  BY FirstTaken DEF TakeApproval, Hears, OcInv, CounterQueues
<1>2. Head(toCounter[c]) \in Signed
  BY <1>1 DEF FromCustomer
<1>3. CounterQueues'
  BY TakenByCounter DEF TakeApproval, Hears, OcInv
<1>4. MerchantSound'
  <2>1. session.approvals \in Seq(Signed)
    BY DEF OcInv, MerchantSound
  <2>2. Append(session.approvals, Head(toCounter[c])) \in Seq(Signed)
    BY <1>2, <2>1, Added
  <2> QED BY <2>2 DEF TakeApproval, OcInv, MerchantSound
<1> QED BY <1>3, <1>4, RestKept DEF TakeApproval, OcInv, payerVars, chainVars

LEMMA ReadApprovalStep ==
  ASSUME OcInv, ReadApproval
  PROVE  OcInv'
<1> DEFINE m == Head(session.approvals)
<1>1. m \in Signed
  BY FirstTaken DEF ReadApproval, OcInv, MerchantSound
<1>2. CASE RightApproval(m)
  <2>1. line' \in [intent : Requests \union {Nothing}, says : LineTexts]
    BY <1>2, LineSaid DEF ReadApproval, LineTexts
  <2>2. MerchantSound'
    BY <1>1, <1>2, <2>1, Nobody DEF ReadApproval, OcInv, MerchantSound, SessionSteps, Signed
  <2> QED BY <1>2, <2>2, RestKept DEF ReadApproval, OcInv, payerVars, chainVars
<1>3. CASE ~RightApproval(m)
  <2>1. EndSession("failed", "failed") /\ UNCHANGED toCounter
    BY <1>3 DEF ReadApproval
  <2> QED BY <2>1, RestKept, SessionEnds DEF ReadApproval, LineTexts
<1> QED BY <1>2, <1>3

LEMMA TakeDeclineStep ==
  ASSUME OcInv, NEW c \in Customers, TakeDecline(c)
  PROVE  OcInv'
<1>1. CounterQueues'
  BY TakenByCounter DEF TakeDecline, Hears, OcInv
<1>2. CASE EndSession("failed", "failed") /\ session.step = "asking"
  BY <1>1, <1>2, SessionEnds DEF TakeDecline, LineTexts
<1>3. CASE UNCHANGED <<session, lingering, line, toCustomer>>
  BY <1>1, <1>3, RestKept DEF TakeDecline, OcInv, counterVars, payerVars, chainVars
<1> QED BY <1>2, <1>3 DEF TakeDecline

LEMMA SubmitStep ==
  ASSUME OcInv, Submit
  PROVE  OcInv'
<1>1. session.peer \in Customers /\ session.intent \in Requests /\ session.signed = AsShown
  BY DEF Submit, OcInv, MerchantSound
<1>2. MerchantSound'
  <2>1. line' \in [intent : Requests \union {Nothing}, says : LineTexts]
    BY LineSaid DEF Submit, LineTexts
  <2> QED BY <1>1, <2>1 DEF Submit, OcInv, MerchantSound, SessionSteps, radioVars
<1>3. ChainSound'
  BY <1>1, CounterAssumption DEF Submit, OcInv, MerchantSound, ChainSound, ChargedAsShown, Transaction
<1> QED BY <1>2, <1>3, RestKept DEF Submit, OcInv, radioVars, payerVars

LEMMA ConfirmStep ==
  ASSUME OcInv, Confirm
  PROVE  OcInv'
  BY RestKept, SessionEnds DEF Confirm, LineTexts

LEMMA FailSessionStep ==
  ASSUME OcInv, FailSession
  PROVE  OcInv'
  BY RestKept, SessionEnds DEF FailSession, LineTexts

LEMMA ReleaseStep ==
  ASSUME OcInv, NEW c \in Customers, Release(c)
  PROVE  OcInv'
<1>1. CounterQueues' /\ CustomerQueues'
  BY Unlinked DEF Release, OcInv, payerVars, chainVars
<1>2. MerchantSound'
  BY DEF Release, Unlink, OcInv, MerchantSound
<1> QED BY <1>1, <1>2, RestKept DEF Release, OcInv, payerVars, chainVars

-----------------------------------------------------------------------------
(* The customer's phone, the radio and the ledger.                         *)

\* A screen that changes in one place.
LEMMA ScreenTurns ==
  ASSUME OcInv, NEW c \in Customers, NEW p, pay' = [pay EXCEPT ![c] = p],
         p \in [step : PaySteps, intent : Requests \union {Nothing}, told : Outcomes],
         p.step # "away" => p.intent \in Requests,
         p.told = "paid" => p.intent \in Requests /\ SettledBy(p.intent, c),
         attempts' \in 0 .. MaxAttempts, UNCHANGED settled
  PROVE  PayersSound'
  BY DEF OcInv, PayersSound, PayerSound, SettledBy

LEMMA DropLinkStep ==
  ASSUME OcInv, NEW c \in Customers, DropLink(c)
  PROVE  OcInv'
<1>1. CounterQueues' /\ CustomerQueues'
  BY Unlinked DEF DropLink, OcInv, payerVars, chainVars
<1>2. MerchantSound'
  BY DEF DropLink, Unlink, OcInv, MerchantSound, counterVars
<1> QED BY <1>1, <1>2, RestKept DEF DropLink, OcInv, payerVars, chainVars

LEMMA MeetStep ==
  ASSUME OcInv, NEW c \in Customers, Meet(c)
  PROVE  OcInv'
<1>1. Away \in [step : PaySteps, intent : Requests \union {Nothing}, told : Outcomes] /\ Away.told = "nothing"
  BY Resting
<1>2. shown \in Requests
  BY DEF Meet, OcInv, MerchantSound
<1> DEFINE p == [Away EXCEPT !.step = "reading", !.intent = shown]
<1>3. /\ p \in [step : PaySteps, intent : Requests \union {Nothing}, told : Outcomes]
      /\ p.told = "nothing" /\ p.intent \in Requests
  <2>1. Away \in [step : PaySteps, intent : Requests \union {Nothing}, told : Outcomes]
    BY <1>1
  <2> QED BY <1>1, <1>2, <2>1 DEF PaySteps
<1>4. pay' = [pay EXCEPT ![c] = p] /\ UNCHANGED <<attempts, settled>>
  BY DEF Meet, chainVars
<1> HIDE DEF p
<1>5. PayersSound'
  BY <1>3, <1>4, ScreenTurns DEF OcInv, PayersSound
<1>6. MerchantSound'
  BY DEF Meet, OcInv, MerchantSound, counterVars
<1> QED BY <1>5, <1>6, RestKept DEF Meet, OcInv, chainVars

LEMMA HearStep ==
  ASSUME OcInv, NEW c \in Customers, Hear(c)
  PROVE  OcInv'
<1>1. /\ Head(toCustomer[c]) \in Message /\ Tail(toCustomer[c]) \in Seq(Message)
      /\ Head(toCustomer[c]) \in ForCustomer(c) /\ Tail(toCustomer[c]) \in Seq(ForCustomer(c))
  BY FirstTaken DEF Hear, OcInv, CustomerQueues
<1>2. /\ Append(heard[c], Head(toCustomer[c])) \in Seq(Message)
      /\ Append(heard[c], Head(toCustomer[c])) \in Seq(ForCustomer(c))
  BY <1>1, Added DEF OcInv, CustomerQueues
<1>3. \A d \in Customers : ForCustomer(d)' = ForCustomer(d)
  BY DEF Hear, chainVars, ForCustomer, ToldTruly, SettledBy
<1>4. CustomerQueues'
  BY <1>1, <1>2, <1>3 DEF Hear, OcInv, CustomerQueues
<1> QED BY <1>4, RestKept DEF Hear, OcInv, chainVars

LEMMA ApproveStep ==
  ASSUME OcInv, NEW c \in Customers, Approve(c)
  PROVE  OcInv'
<1>1. pay[c] \in [step : PaySteps, intent : Requests \union {Nothing}, told : Outcomes] /\ pay[c].intent \in Requests
  BY DEF Approve, OcInv, PayersSound, PayerSound
<1>2. CounterQueues'
  <2>1. Msg("payer", pay[c].intent) \in FromCustomer /\ Msg("payer", pay[c].intent) \in Message
    BY <1>1, MessagesOf, CounterAssumption
  <2> QED BY <2>1, SaidToCounter DEF Approve, OcInv
<1>3. CustomerQueues'
  BY HeardKept DEF Approve, OcInv, chainVars
<1>4. PayersSound'
  <2> DEFINE p == [pay[c] EXCEPT !.step = IF c \in linked THEN "claimed" ELSE "alone", !.told = "nothing"]
  <2>1. /\ p \in [step : PaySteps, intent : Requests \union {Nothing}, told : Outcomes]
        /\ p.told = "nothing" /\ p.intent \in Requests
    BY <1>1 DEF PaySteps, Outcomes
  <2>2. pay' = [pay EXCEPT ![c] = p] /\ attempts' \in 0 .. MaxAttempts /\ UNCHANGED settled
    BY CounterAssumption DEF Approve, chainVars, OcInv, PayersSound
  <2> HIDE DEF p
  <2> QED BY <2>1, <2>2, ScreenTurns
<1> QED BY <1>2, <1>3, <1>4, RestKept DEF Approve, OcInv, chainVars

\* A screen that ends says "paid" only of what the ledger settled.
LEMMA ScreenEnds ==
  ASSUME OcInv, NEW c \in Customers, NEW told \in Outcomes, Ends(c, told), pay[c].step # "away",
         told = "paid" => SettledBy(pay[c].intent, c), UNCHANGED toCounter \/ CounterQueues', payOnly
  PROVE  OcInv'
<1>1. pay[c] \in [step : PaySteps, intent : Requests \union {Nothing}, told : Outcomes] /\ pay[c].intent \in Requests
  BY DEF OcInv, PayersSound, PayerSound
<1>2. PayersSound'
  <2> DEFINE p == [pay[c] EXCEPT !.step = "ended", !.told = told]
  <2>1. /\ p \in [step : PaySteps, intent : Requests \union {Nothing}, told : Outcomes]
        /\ p.told = told /\ p.intent = pay[c].intent
    BY <1>1 DEF PaySteps
  <2>2. pay' = [pay EXCEPT ![c] = p] /\ UNCHANGED <<attempts, settled>>
    BY DEF Ends, payOnly, chainVars, OcInv, PayersSound
  <2> HIDE DEF p
  <2> QED BY <1>1, <2>1, <2>2, ScreenTurns DEF OcInv, PayersSound
<1>3. CustomerQueues'
  BY HeardKept DEF Ends, payOnly, OcInv, chainVars
<1> QED BY <1>2, <1>3, RestKept DEF payOnly, OcInv, chainVars

\* A decline on the air.
LEMMA Declined ==
  ASSUME OcInv, NEW c \in Customers, pay[c].step # "away", SayToCounter(c, Msg("decline", pay[c].intent))
  PROVE  CounterQueues'
<1>1. pay[c].intent \in Requests
  BY DEF OcInv, PayersSound, PayerSound
<1>2. Msg("decline", pay[c].intent) \in FromCustomer /\ Msg("decline", pay[c].intent) \in Message
  BY <1>1, MessagesOf, CounterAssumption
<1> QED BY <1>2, SaidToCounter DEF OcInv

\* What is signed is what is shown.
LEMMA SignOfferStep ==
  ASSUME OcInv, NEW c \in Customers, SignOffer(c)
  PROVE  OcInv'
<1>1. PICK i \in Heard(c, {"authRequest"}) :
        /\ pay[c].step = "claimed"
        /\ Matches(heard[c][i], pay[c].intent)
        /\ SayToCounter(c, Entry("authorization", pay[c].intent, heard[c][i].terms))
        /\ pay' = [pay EXCEPT ![c].step = "signed"] /\ heard' = [heard EXCEPT ![c] = <<>>]
        /\ payOnly
  BY DEF SignOffer
<1>2. pay[c] \in [step : PaySteps, intent : Requests \union {Nothing}, told : Outcomes] /\ pay[c].intent \in Requests
  BY <1>1 DEF OcInv, PayersSound, PayerSound
<1>3. heard[c][i].terms = AsShown
  BY <1>1 DEF Matches, SameAsShown
<1>4. CounterQueues'
  <2>1. /\ Entry("authorization", pay[c].intent, heard[c][i].terms) \in FromCustomer
        /\ Entry("authorization", pay[c].intent, heard[c][i].terms) \in Message
    BY <1>2, <1>3, MessagesOf, CounterAssumption
  <2> QED BY <1>1, <2>1, SaidToCounter DEF OcInv
<1>5. CustomerQueues'
  BY <1>1, HeardKept DEF payOnly, OcInv, chainVars
<1>6. PayersSound'
  <2> DEFINE p == [pay[c] EXCEPT !.step = "signed"]
  <2>1. /\ p \in [step : PaySteps, intent : Requests \union {Nothing}, told : Outcomes]
        /\ p.told = pay[c].told /\ p.intent = pay[c].intent
    BY <1>2 DEF PaySteps
  <2>2. pay' = [pay EXCEPT ![c] = p] /\ UNCHANGED <<attempts, settled>>
    BY <1>1 DEF payOnly, chainVars, OcInv, PayersSound
  <2> HIDE DEF p
  <2> QED BY <1>2, <2>1, <2>2, ScreenTurns DEF OcInv, PayersSound, PayerSound
<1> QED BY <1>1, <1>4, <1>5, <1>6, RestKept DEF payOnly, OcInv, chainVars

LEMMA RefuseOfferStep ==
  ASSUME OcInv, NEW c \in Customers, RefuseOffer(c)
  PROVE  OcInv'
  BY Declined, ScreenEnds DEF RefuseOffer, Outcomes

LEMMA NoOfferStep ==
  ASSUME OcInv, NEW c \in Customers, NoOffer(c)
  PROVE  OcInv'
<1>1. pay[c] \in [step : PaySteps, intent : Requests \union {Nothing}, told : Outcomes]
  BY DEF OcInv, PayersSound
<1>2. CounterQueues'
  BY Declined DEF NoOffer
<1>3. CustomerQueues'
  BY HeardKept DEF NoOffer, payOnly, OcInv, chainVars
<1>4. PayersSound'
  <2> DEFINE p == [pay[c] EXCEPT !.step = "alone"]
  <2>1. /\ p \in [step : PaySteps, intent : Requests \union {Nothing}, told : Outcomes]
        /\ p.told = pay[c].told /\ p.intent = pay[c].intent
    BY <1>1 DEF PaySteps
  <2>2. pay' = [pay EXCEPT ![c] = p] /\ UNCHANGED <<attempts, settled>> /\ pay[c].step # "away"
    BY DEF NoOffer, payOnly, chainVars, OcInv, PayersSound
  <2> HIDE DEF p
  <2> QED BY <2>1, <2>2, ScreenTurns DEF OcInv, PayersSound, PayerSound
<1> QED BY <1>2, <1>3, <1>4, RestKept DEF NoOffer, payOnly, OcInv, chainVars

\* The receipt was true when it was sent, and still is.
LEMMA TakeReceiptStep ==
  ASSUME OcInv, NEW c \in Customers, TakeReceipt(c)
  PROVE  OcInv'
<1>1. PICK i \in 1 .. Len(heard[c]) : ConfirmedHere(heard[c][i], pay[c].intent)
  BY DEF TakeReceipt, Heard
<1>2. heard[c][i] \in ForCustomer(c)
  BY <1>1, ElementOfSeq DEF OcInv, CustomerQueues
<1>3. SettledBy(pay[c].intent, c)
  BY <1>1, <1>2 DEF ConfirmedHere, ForCustomer, ToldTruly
<1> QED BY <1>3, ScreenEnds DEF TakeReceipt, Outcomes

LEMMA NoReceiptStep ==
  ASSUME OcInv, NEW c \in Customers, NoReceipt(c)
  PROVE  OcInv'
  BY Declined, ScreenEnds DEF NoReceipt, Outcomes

LEMMA PayAloneStep ==
  ASSUME OcInv, NEW c \in Customers, PayAlone(c)
  PROVE  OcInv'
<1>1. pay[c] \in [step : PaySteps, intent : Requests \union {Nothing}, told : Outcomes] /\ pay[c].intent \in Requests
  BY DEF PayAlone, OcInv, PayersSound, PayerSound
<1>2. ChainSound'
  BY <1>1, CounterAssumption DEF PayAlone, OcInv, ChainSound, ChargedAsShown, Transaction
<1>3. PayersSound'
  <2> DEFINE p == [pay[c] EXCEPT !.step = "watching"]
  <2>1. /\ p \in [step : PaySteps, intent : Requests \union {Nothing}, told : Outcomes]
        /\ p.told = pay[c].told /\ p.intent = pay[c].intent
    BY <1>1 DEF PaySteps
  <2>2. pay' = [pay EXCEPT ![c] = p] /\ UNCHANGED <<attempts, settled>>
    BY DEF PayAlone, OcInv, PayersSound
  <2> HIDE DEF p
  <2> QED BY <1>1, <2>1, <2>2, ScreenTurns DEF OcInv, PayersSound, PayerSound
<1> QED BY <1>2, <1>3, RestKept DEF PayAlone, OcInv, counterVars, radioVars

LEMMA CannotPayAloneStep ==
  ASSUME OcInv, NEW c \in Customers, CannotPayAlone(c)
  PROVE  OcInv'
  BY ScreenEnds DEF CannotPayAlone, Outcomes

LEMMA WatchAloneStep ==
  ASSUME OcInv, NEW c \in Customers, WatchAlone(c)
  PROVE  OcInv'
  BY ScreenEnds DEF WatchAlone, Outcomes

LEMMA LeaveStep ==
  ASSUME OcInv, NEW c \in Customers, Leave(c)
  PROVE  OcInv'
<1>1. CounterQueues' /\ CustomerQueues'
  BY Unlinked DEF Leave, OcInv, chainVars
<1>2. MerchantSound'
  BY DEF Leave, Unlink, OcInv, MerchantSound, counterVars
<1>3. PayersSound'
  <2>1. /\ Away \in [step : PaySteps, intent : Requests \union {Nothing}, told : Outcomes]
        /\ Away.step = "away" /\ Away.told = "nothing"
    BY Resting
  <2>2. pay' = [pay EXCEPT ![c] = Away] /\ UNCHANGED <<attempts, settled>>
    BY DEF Leave, chainVars
  <2> QED BY <2>1, <2>2, ScreenTurns DEF OcInv, PayersSound
<1> QED BY <1>1, <1>2, <1>3, RestKept DEF Leave, OcInv, chainVars

\* The ledger settles what was signed, once, and keeps it.
LEMMA LandStep ==
  ASSUME OcInv, NEW sent \in inFlight, Land(sent)
  PROVE  OcInv'
<1>1. sent \in Transaction /\ sent.signed = AsShown
  BY DEF OcInv, ChainSound
<1>2. /\ settled \in [Requests -> [customer : Customers \union {Nothing}, terms : Terms]]
      /\ settled' \in [Requests -> [customer : Customers \union {Nothing}, terms : Terms]]
  BY <1>1 DEF Land, OcInv, ChainSound, Transaction
<1>3. ChainSound'
  <2>1. \A r \in Requests : settled'[r] = settled[r] \/ (r = sent.intent /\ settled'[r].terms = AsShown)
    BY <1>1, <1>2 DEF Land, Authorized, Transaction
  <2>2. inFlight' \subseteq inFlight
    BY DEF Land
  <2> QED BY <1>2, <2>1, <2>2 DEF OcInv, ChainSound, ChargedAsShown, Unpaid
<1>4. \A r \in Requests, c \in Customers : SettledBy(r, c) => SettledBy(r, c)'
  <2>1. \A r \in Requests : settled[r] # Unpaid => settled'[r] = settled[r]
    BY <1>1, <1>2 DEF Land, Transaction
  <2>2. Unpaid.customer = Nothing
    BY DEF Unpaid
  <2> QED BY <2>1, <2>2, CounterAssumption DEF SettledBy
<1>5. \A c \in Customers : Seq(ForCustomer(c)) \subseteq Seq(ForCustomer(c)')
  <2>1. \A c \in Customers : ForCustomer(c) \subseteq ForCustomer(c)'
    BY <1>4, Kinds DEF ForCustomer, ToldTruly
  <2> QED BY <2>1, SeqMonotonic
<1>6. CustomerQueues'
  BY <1>5 DEF Land, radioVars, payerVars, OcInv, CustomerQueues
<1>7. PayersSound'
  BY <1>4 DEF Land, payerVars, OcInv, PayersSound, PayerSound
<1> QED BY <1>3, <1>6, <1>7, RestKept DEF Land, radioVars, payerVars, OcInv

LEMMA ExpireStep ==
  ASSUME OcInv, NEW sent \in inFlight, Expire(sent)
  PROVE  OcInv'
<1>1. ChainSound'
  BY DEF Expire, OcInv, ChainSound, ChargedAsShown
<1> QED BY <1>1, RestKept DEF Expire, OcInv, radioVars, payerVars

-----------------------------------------------------------------------------
LEMMA EveryStep == OcInv /\ [OcNext]_ocVars => OcInv'
<1> SUFFICES ASSUME OcInv, [OcNext]_ocVars PROVE OcInv'
  OBVIOUS
<1>1. CASE UNCHANGED ocVars
  BY <1>1, RestKept DEF ocVars, counterVars, radioVars, payerVars, chainVars, OcInv
<1>2. CASE SessionStep
  BY <1>2, SendOfferStep, ReadApprovalStep, SubmitStep, ConfirmStep, FailSessionStep DEF SessionStep
<1>3. ASSUME NEW r \in Requests \union {Nothing}, Show(r) PROVE OcInv'
  BY <1>3, ShowStep
<1>4. ASSUME NEW sent \in inFlight, Land(sent) \/ Expire(sent) PROVE OcInv'
  BY <1>4, LandStep, ExpireStep
<1>5. ASSUME NEW c \in Customers, CounterHears(c) PROVE OcInv'
  BY <1>5, TakePayerStep, IgnorePayerStep, TakeApprovalStep, TakeDeclineStep DEF CounterHears
<1>6. ASSUME NEW c \in Customers, PayerStep(c) PROVE OcInv'
  BY <1>6, HearStep, SignOfferStep, RefuseOfferStep, NoOfferStep, TakeReceiptStep, NoReceiptStep,
     PayAloneStep, CannotPayAloneStep, WatchAloneStep DEF PayerStep
<1>7. ASSUME NEW c \in Customers, DropLink(c) \/ Meet(c) \/ Release(c) \/ Approve(c) \/ Leave(c)
      PROVE  OcInv'
  BY <1>7, DropLinkStep, MeetStep, ReleaseStep, ApproveStep, LeaveStep
<1> QED BY <1>1, <1>2, <1>3, <1>4, <1>5, <1>6, <1>7 DEF OcNext

\* The invariant of the two phones, the radio between them and the ledger.
THEOREM CounterSound == OcSpec => []OcInv
  BY CounterStarts, EveryStep, PTL DEF OcSpec

\* Type correctness of the conversation.
THEOREM CounterTypes == OcSpec => []OcTypeOK
<1>1. OcInv => OcTypeOK
  BY Shapes
<1> QED BY <1>1, CounterSound, PTL

\* TakeReceipt believes a message and WatchAlone its own network: either way
\* the ledger has settled this request for this customer.
THEOREM ReceiptsAreTrue == OcSpec => []ReceiptIsTrue
<1>1. OcInv => ReceiptIsTrue
  BY Receipts
<1> QED BY <1>1, CounterSound, PTL

\* assertAuthorizationMatchesIntent is enough: no offer, and no answer read by
\* another session than it was given to, charges what the screen did not show.
THEOREM ChargesAsShown == OcSpec => []ChargedAsShown
<1>1. OcInv => ChargedAsShown
  BY Charges
<1> QED BY <1>1, CounterSound, PTL

-----------------------------------------------------------------------------
(* The link: the merchant's broadcast.                                     *)

Offered == Broadcasts \union {Silence}
Operations == [op : {"start", "stop"}, request : Offered, active : BOOLEAN, begun : BOOLEAN]

\* What the last operation of the queue will leave behind is what the screen
\* wants, and nothing has told it to stand back.
EndsAsWanted(q, w) == LET o == q[Len(q)]
                      IN  IF w = Silence THEN o.op = "stop"
                          ELSE o.op = "start" /\ o.request = w /\ o.active

HookTypes ==
  /\ os \in Platforms /\ upsets \in Nat
  /\ wanted \in Offered /\ ops \in Seq(Operations) /\ broadcast \in Offered /\ onAir \in BOOLEAN

OpsSound ==
  /\ \A i \in 1 .. Len(ops) : /\ ops[i].op = "start" => ops[i].request # Silence
                              /\ ops[i].begun => i = 1 /\ ops[i].op = "start"
  /\ ops # <<>> => EndsAsWanted(ops, wanted)

\* A head start under way has published its request, or will when the radio is on.
HeadSound == ops # <<>> /\ ops[1].begun =>
               broadcast \in {ops[1].request, Silence} /\ (upsets = 0 => onAir)

HookInv == /\ HookTypes /\ OpsSound /\ HeadSound /\ ServedIsWanted
           /\ Merchant = "android" => broadcast = Silence

LEMMA HookStarts == ASSUME LinkAssumption PROVE PlInit => HookInv
<1> SUFFICES ASSUME PlInit PROVE HookInv
  OBVIOUS
<1>1. <<>> \in Seq(Operations) /\ Len(<<>>) = 0
  BY EmptySeq
<1>2. HookTypes
  BY <1>1 DEF PlInit, HookTypes, Offered
<1>3. ops = <<>> /\ Len(ops) = 0
  BY <1>1 DEF PlInit
<1>4. OpsSound /\ HeadSound
  BY <1>3 DEF OpsSound, HeadSound
<1> QED BY <1>2, <1>4 DEF PlInit, HookInv, ServedIsWanted

LEMMA HookRests ==
  ASSUME HookInv, UNCHANGED <<os, hookVars, broadcast, onAir>>, upsets' = upsets \/ Upset
  PROVE  HookInv'
<1>1. upsets' \in Nat /\ (upsets' = 0 => upsets = 0)
  BY DEF Upset, HookInv, HookTypes
<1> QED BY <1>1 DEF HookInv, HookTypes, OpsSound, HeadSound, ServedIsWanted, hookVars, Merchant, EndsAsWanted

LEMMA StartsAndStops ==
  /\ Stop \in Operations /\ Stop.op = "stop" /\ ~Stop.begun
  /\ \A q \in Offered : /\ Start(q) \in Operations /\ Start(q).op = "start" /\ ~Start(q).begun
                        /\ Start(q).active /\ Start(q).request = q
  BY DEF Stop, Start, Operations, Offered

LEMMA HookOffers ==
  ASSUME LinkAssumption, HookInv, NEW q \in Offered, OfferRequest(q)
  PROVE  HookInv'
<1> DEFINE more == (IF wanted = Silence THEN <<>> ELSE <<Stop>>)
           last == IF q = Silence THEN Stop ELSE Start(q)
           base == Deactivated(ops)
<1>0. ops' = base \o (more \o <<last>>) /\ wanted' = q
  BY DEF OfferRequest, Queued
<1>1. /\ base \in Seq(Operations) /\ Len(base) = Len(ops)
      /\ \A i \in 1 .. Len(ops) : /\ base[i].op = ops[i].op /\ base[i].request = ops[i].request
                                  /\ base[i].begun = ops[i].begun
  <2>1. ops \in [1 .. Len(ops) -> Operations] /\ Len(ops) \in Nat /\ DOMAIN ops = 1 .. Len(ops)
    BY LenProperties DEF HookInv, HookTypes
  <2>2. \A o \in Operations : LET p == [o EXCEPT !.active = FALSE]
                              IN  /\ p \in Operations /\ p.op = o.op /\ p.request = o.request
                                  /\ p.begun = o.begun
    BY DEF Operations
  <2>3. base = [i \in 1 .. Len(ops) |-> [ops[i] EXCEPT !.active = FALSE]]
    BY <2>1 DEF Deactivated
  <2>4. base \in [1 .. Len(ops) -> Operations]
    BY <2>1, <2>2, <2>3
  <2>5. base \in Seq(Operations) /\ Len(base) = Len(ops)
    BY <2>1, <2>4, SeqDef
  <2> QED BY <2>1, <2>2, <2>3, <2>5
<1> HIDE DEF base
<1>2. last \in Operations /\ ~last.begun /\ (last.op = "start" => last.request # Silence)
  BY StartsAndStops
<1>3. more \in Seq(Operations) /\ Len(more) \in Nat /\ \A i \in 1 .. Len(more) : more[i] = Stop
  BY StartsAndStops
<1>4. IF q = Silence THEN last.op = "stop" ELSE last.op = "start" /\ last.request = q /\ last.active
  BY StartsAndStops
<1> HIDE DEF last, more
<1>5. /\ more \o <<last>> \in Seq(Operations) /\ Len(more \o <<last>>) = Len(more) + 1
      /\ \A i \in 1 .. Len(more) : (more \o <<last>>)[i] = Stop
      /\ (more \o <<last>>)[Len(more) + 1] = last
  <2>1. <<last>> \in Seq(Operations) /\ Len(<<last>>) = 1 /\ <<last>>[1] = last
    BY <1>2
  <2> HIDE DEF last
  <2> QED BY <2>1, <1>3, ConcatProperties
<1> DEFINE tail == more \o <<last>>
<1> HIDE DEF tail
<1>6. /\ ops' \in Seq(Operations) /\ Len(ops') = Len(ops) + Len(tail) /\ Len(tail) \in Nat \ {0}
      /\ \A i \in 1 .. Len(ops) : ops'[i] = base[i]
      /\ \A i \in 1 .. Len(ops') : i > Len(ops) => ops'[i] = tail[i - Len(ops)] /\ i - Len(ops) \in 1 .. Len(tail)
      /\ Len(ops) \in Nat
  <2>1. tail \in Seq(Operations) /\ Len(tail) \in Nat \ {0}
    BY <1>3, <1>5 DEF tail
  <2>2. Len(ops) \in Nat
    BY LenProperties DEF HookInv, HookTypes
  <2>3. ops' = base \o tail
    BY <1>0 DEF tail
  <2>4. /\ ops' \in Seq(Operations) /\ Len(ops') = Len(base) + Len(tail)
        /\ \A i \in 1 .. Len(base) + Len(tail) :
             ops'[i] = IF i <= Len(base) THEN base[i] ELSE tail[i - Len(base)]
    <3> HIDE <1>0
    <3>1. base \in Seq(Operations)
      BY <1>1
    <3> QED BY <2>1, <2>3, <3>1, ConcatProperties
  <2>5. Len(base) = Len(ops)
    BY <1>1
  <2> QED BY <2>1, <2>2, <2>4, <2>5
<1>7. \A i \in 1 .. Len(tail) : ~tail[i].begun /\ (tail[i].op = "start" => tail[i].request # Silence)
  BY <1>2, <1>3, <1>5, StartsAndStops DEF tail
<1>8. OpsSound'
  <2>1. \A i \in 1 .. Len(ops') : /\ ops'[i].op = "start" => ops'[i].request # Silence
                                  /\ ops'[i].begun => i = 1 /\ ops'[i].op = "start"
    <3> TAKE i \in 1 .. Len(ops')
    <3>1. CASE i \in 1 .. Len(ops)
      BY <3>1, <1>1, <1>6 DEF HookInv, OpsSound
    <3>2. CASE i > Len(ops)
      BY <3>2, <1>6, <1>7
    <3> QED BY <3>1, <3>2, <1>6
  <2>2. ops'[Len(ops')] = last
    BY <1>3, <1>5, <1>6 DEF tail
  <2>3. EndsAsWanted(ops, wanted)'
    BY <2>2, <1>0, <1>4 DEF EndsAsWanted
  <2> QED BY <2>1, <2>3 DEF OpsSound
<1>9. ops' # <<>>
  BY <1>6, EmptySeq
<1>10. HeadSound'
  <2> SUFFICES ASSUME ops'[1].begun PROVE HeadSound'
    BY DEF HeadSound
  <2>1. 1 \in 1 .. Len(ops) /\ ops # <<>> /\ ops'[1].request = ops[1].request /\ ops[1].begun
    BY <1>1, <1>6, <1>7, EmptySeq
  <2> QED BY <2>1 DEF HeadSound, HookInv, OfferRequest, serverVars
<1> QED BY <1>6, <1>8, <1>9, <1>10 DEF HookInv, HookTypes, ServedIsWanted, OfferRequest, serverVars, Merchant

LEMMA Popped ==
  ASSUME HookInv, ops # <<>>, ops' = Tail(ops), UNCHANGED wanted
  PROVE  /\ ops' \in Seq(Operations) /\ OpsSound' /\ HeadSound'
         /\ ops' = <<>> => EndsAsWanted(<<ops[1]>>, wanted)
<1>1. /\ ops' \in Seq(Operations) /\ Len(ops') = Len(ops) - 1
      /\ \A i \in 1 .. Len(ops') : ops'[i] = ops[i + 1]
      /\ Len(ops) \in Nat \ {0}
  BY HeadTailProperties, EmptySeq DEF HookInv, HookTypes
<1>2. \A i \in 1 .. Len(ops') : /\ ops'[i].op = "start" => ops'[i].request # Silence
                                /\ ~ops'[i].begun
  BY <1>1 DEF HookInv, OpsSound
<1>3. ops' # <<>> => EndsAsWanted(ops, wanted)'
  <2> SUFFICES ASSUME ops' # <<>> PROVE EndsAsWanted(ops, wanted)'
    OBVIOUS
  <2>1. Len(ops') \in Nat \ {0}
    BY <1>1, EmptySeq
  <2>2. ops'[Len(ops')] = ops[Len(ops)]
    BY <1>1, <2>1
  <2> QED BY <2>2 DEF HookInv, OpsSound, EndsAsWanted
<1>4. OpsSound'
  BY <1>2, <1>3 DEF OpsSound
<1>5. HeadSound'
  <2> SUFFICES ASSUME ops' # <<>> PROVE HeadSound'
    BY DEF HeadSound
  <2>1. 1 \in 1 .. Len(ops')
    BY <1>1, EmptySeq
  <2> QED BY <1>2, <2>1 DEF HeadSound
<1>6. Len(ops') = 0 => EndsAsWanted(<<ops[1]>>, wanted)
  <2> SUFFICES ASSUME Len(ops') = 0 PROVE EndsAsWanted(<<ops[1]>>, wanted)
    OBVIOUS
  <2>1. Len(ops) = 1
    BY <1>1
  <2> QED BY <2>1 DEF HookInv, OpsSound, EndsAsWanted
<1>7. ops' = <<>> => Len(ops') = 0
  BY EmptySeq
<1> QED BY <1>1, <1>4, <1>5, <1>6, <1>7

LEMMA Begins ==
  ASSUME HookInv, ops # <<>>, ops[1].op = "start", ~ops[1].begun, UNCHANGED wanted,
         ops' = [ops EXCEPT ![1].begun = TRUE]
  PROVE  /\ ops' \in Seq(Operations) /\ OpsSound' /\ ops' # <<>>
         /\ ops'[1].request = ops[1].request
<1>1. Len(ops) \in Nat \ {0} /\ ops \in [1 .. Len(ops) -> Operations] /\ DOMAIN ops = 1 .. Len(ops)
  BY LenProperties, EmptySeq DEF HookInv, HookTypes
<1> DEFINE o == [ops[1] EXCEPT !.begun = TRUE]
<1>2. ops[1] \in Operations /\ 1 \in 1 .. Len(ops)
  BY <1>1
<1>3. /\ o \in Operations /\ o.op = ops[1].op /\ o.request = ops[1].request
      /\ o.active = ops[1].active
  BY <1>2 DEF Operations
<1>4. ops' = [ops EXCEPT ![1] = o]
  BY <1>1
<1> HIDE DEF o
<1>5. /\ ops' \in Seq(Operations) /\ Len(ops') = Len(ops)
      /\ \A j \in 1 .. Len(ops) : ops'[j] = IF j = 1 THEN o ELSE ops[j]
  <2>1. ops \in Seq(Operations)
    BY DEF HookInv, HookTypes
  <2>2. /\ [ops EXCEPT ![1] = o] \in Seq(Operations) /\ Len([ops EXCEPT ![1] = o]) = Len(ops)
        /\ \A j \in 1 .. Len(ops) : [ops EXCEPT ![1] = o][j] = IF j = 1 THEN o ELSE ops[j]
    <3>1. o \in Operations /\ 1 \in 1 .. Len(ops)
      BY <1>2, <1>3
    <3> QED BY <2>1, <3>1, ExceptSeq
  <2> QED BY <1>4, <2>2
<1>6. ops' # <<>>
  BY <1>1, <1>5, EmptySeq
<1>7. \A i \in 1 .. Len(ops') : /\ ops'[i].op = "start" => ops'[i].request # Silence
                                /\ ops'[i].begun => i = 1 /\ ops'[i].op = "start"
  BY <1>1, <1>3, <1>5 DEF HookInv, OpsSound
<1>8. /\ ops'[Len(ops')].op = ops[Len(ops)].op /\ ops'[Len(ops')].request = ops[Len(ops)].request
      /\ ops'[Len(ops')].active = ops[Len(ops)].active
  BY <1>1, <1>3, <1>5
<1>9. EndsAsWanted(ops, wanted)'
  BY <1>8 DEF HookInv, OpsSound, EndsAsWanted
<1> QED BY <1>2, <1>3, <1>5, <1>6, <1>7, <1>9 DEF OpsSound

LEMMA HookRuns == ASSUME LinkAssumption, HookInv, RunOp PROVE HookInv'
<1> DEFINE o == ops[1]
<1>0. Head(ops) = o /\ ops # <<>> /\ UNCHANGED <<os, wanted>>
  BY DEF RunOp
<1>1. /\ o \in Operations /\ (o.op = "start" => o.request # Silence)
      /\ o.begun => o.op = "start"
  <2>1. 1 \in 1 .. Len(ops) /\ ops \in [1 .. Len(ops) -> Operations]
    BY <1>0, LenProperties, EmptySeq DEF HookInv, HookTypes
  <2> QED BY <2>1 DEF HookInv, OpsSound
<1>2. os' \in Platforms /\ wanted' \in Offered /\ (Merchant = "android" \/ Merchant = "ios") /\ Merchant' = Merchant
  BY <1>0 DEF HookInv, HookTypes, LinkAssumption, Merchant
<1>3. CASE o.op = "stop" /\ NativeStop /\ ops' = Tail(ops) /\ UNCHANGED upsets
  BY <1>0, <1>1, <1>2, <1>3, Popped DEF NativeStop, HookInv, HookTypes, ServedIsWanted, Offered, EndsAsWanted
<1>4. CASE o.op = "start" /\ ~o.begun /\ ~o.active /\ ops' = Tail(ops) /\ UNCHANGED <<serverVars, upsets>>
  BY <1>0, <1>1, <1>2, <1>4, Popped DEF serverVars, HookInv, HookTypes, ServedIsWanted, Offered, EndsAsWanted
<1>5. CASE /\ o.op = "start" /\ ~o.begun /\ NativeStart(o.request)
           /\ ops' = [ops EXCEPT ![1].begun = TRUE] /\ UNCHANGED upsets
  <2>1. broadcast' \in {o.request, Silence} /\ onAir' /\ (Merchant = "android" => broadcast' = Silence)
    BY <1>5 DEF NativeStart, Kept
  <2> QED BY <1>0, <1>1, <1>2, <1>5, <2>1, Begins DEF HookInv, HookTypes, HeadSound, ServedIsWanted, Operations, Offered
<1>6. ASSUME NativeWaits(o.request) PROVE /\ upsets' \in Nat \ {0} /\ UNCHANGED onAir
                                         /\ broadcast' = IF Merchant = "ios" THEN o.request ELSE broadcast
  BY <1>6 DEF NativeWaits, Waits, Upset, HookInv, HookTypes
<1>7. CASE o.op = "start" /\ ~o.begun /\ o.active /\ NativeWaits(o.request) /\ ops' = Tail(ops)
  BY <1>0, <1>1, <1>2, <1>6, <1>7, Popped DEF HookInv, HookTypes, ServedIsWanted, Operations, Offered, EndsAsWanted
<1>8. CASE /\ o.op = "start" /\ ~o.begun /\ Merchant = "ios" /\ NativeWaits(o.request)
           /\ ops' = [ops EXCEPT ![1].begun = TRUE]
  BY <1>0, <1>1, <1>2, <1>6, <1>8, Begins DEF HookInv, HookTypes, HeadSound, ServedIsWanted, Operations, Offered
<1>9. CASE /\ o.op = "start" /\ o.begun /\ ops' = Tail(ops) /\ UNCHANGED upsets
           /\ IF o.active THEN UNCHANGED serverVars ELSE NativeStop
  <2>1. CASE o.active
    BY <1>0, <1>1, <1>2, <1>9, <2>1, Popped
    DEF serverVars, HookInv, HookTypes, HeadSound, ServedIsWanted, Offered, EndsAsWanted
  <2>2. CASE ~o.active
    BY <1>0, <1>1, <1>2, <1>9, <2>2, Popped
    DEF NativeStop, HookInv, HookTypes, ServedIsWanted, Offered, EndsAsWanted
  <2> QED BY <2>1, <2>2
<1> QED BY <1>0, <1>3, <1>4, <1>5, <1>7, <1>8, <1>9 DEF RunOp

LEMMA HookRadio == ASSUME LinkAssumption, HookInv, RadioOn PROVE HookInv'
  BY DEF RadioOn, HookInv, HookTypes, OpsSound, HeadSound, ServedIsWanted, hookVars, Merchant, EndsAsWanted, Upset

LEMMA HookStep == ASSUME LinkAssumption, HookInv, [PlNext]_plVars PROVE HookInv'
<1>1. CASE RunOp
  BY <1>1, HookRuns
<1>2. CASE RadioOn
  BY <1>2, HookRadio
<1>3. ASSUME NEW q \in Offered, OfferRequest(q) PROVE HookInv'
  BY <1>3, HookOffers
<1>4. CASE \/ PushFrame \/ NotificationArrives \/ WriteArrives
           \/ \E m \in MerchantWords : MerchantSays(m)
           \/ \E m \in CustomerWords : CustomerSays(m)
  BY <1>4, HookRests DEF PushFrame, NotificationArrives, WriteArrives, MerchantSays, CustomerSays, serverVars
<1>5. CASE MerchantReleases \/ WriteFails
  BY <1>5, HookRests DEF MerchantReleases, WriteFails, serverVars
<1>6. CASE StartScanning \/ StopScanning \/ Connect \/ Subscribe \/ Disconnect \/ Hold \/ CustomerReleases
  BY <1>6, HookRests DEF StartScanning, StopScanning, Connect, Subscribe, Disconnect, Hold, CustomerReleases, serverVars
<1>7. CASE UNCHANGED plVars
  BY <1>7, HookRests DEF plVars, serverVars
<1> QED BY <1>1, <1>2, <1>3, <1>4, <1>5, <1>6, <1>7 DEF PlNext, Offered

\* "A paid, cancelled or expired request must not still be on the air": when the
\* hook's queue has run, nothing but what the screen offers is served, however
\* many starts and stops were asked for meanwhile and whatever the radio refused.
THEOREM ServesWanted == ASSUME LinkAssumption PROVE PlSpec => []ServedIsWanted
<1>1. HookInv => ServedIsWanted
  BY DEF HookInv
<1>2. PlInit => HookInv
  BY HookStarts
<1>3. HookInv /\ [PlNext]_plVars => HookInv'
  BY HookStep
<1> QED BY <1>1, <1>2, <1>3, PTL DEF PlSpec

-----------------------------------------------------------------------------
(* The wire.                                                               *)

Place(s, m) == CHOOSE i \in 1 .. Len(s) : s[i] = m
Apart(s) == \A i, j \in 1 .. Len(s) : KindOf[s[i]] = KindOf[s[j]] => i = j

FrameSet == [word : Words, index : Nat]
Frames(s) == {f \in FrameSet : f.word \in Range(s) /\ f.index \in 1 .. SizeOf[f.word]}

\* Frame g was to be sent after frame f.
After(s, f, g) == \/ Place(s, f.word) < Place(s, g.word)
                  \/ f.word = g.word /\ f.index < g.index

Pile == [kind : {KindOf[m] : m \in Words} \union {Silence},
         parts : UNION {[D -> Words] : D \in SUBSET Nat}]
OnPile(p) == {Frame(p.parts[k], k) : k \in DOMAIN p.parts}

\* One end of a direction: s was said to it, r is what it has heard, p is its
\* pile, and no frame may yet come but those of C.  What was heard came before
\* the frames of the pile, and those before what may yet come.
HeardWhole(s, r) ==
  /\ r \in Seq(Seq(Words))
  /\ \A i \in 1 .. Len(r) : \E m \in Range(s) : Whole(r[i], m)
  /\ \A i, j \in 1 .. Len(r) : i < j => Place(s, r[i][1]) < Place(s, r[j][1])

PileSound(s, p) ==
  /\ p \in Pile /\ OnPile(p) \subseteq Frames(s)
  /\ \A k \in DOMAIN p.parts : /\ KindOf[p.parts[k]] = p.kind
                               /\ DOMAIN p.parts # 1 .. SizeOf[p.parts[k]]

ReceiverSound(s, r, p, C) ==
  /\ HeardWhole(s, r) /\ PileSound(s, p) /\ C \subseteq Frames(s)
  /\ \A h \in OnPile(p), f \in C : After(s, h, f)
  /\ \A i \in 1 .. Len(r), f \in C \union OnPile(p) : Place(s, r[i][1]) < Place(s, f.word)

\* Frames on their way, in order, before those of G.
InOrder(s, a, G) ==
  /\ a \in Seq(FrameSet) /\ Range(a) \subseteq Frames(s)
  /\ \A i, j \in 1 .. Len(a) : i < j => After(s, a[i], a[j])
  /\ \A i \in 1 .. Len(a), g \in G : After(s, a[i], g)

FramesIn(m, n) == {f \in FrameSet : f.word = m /\ f.index \in n .. SizeOf[m]}
Sending(t) == IF t.sending = Silence THEN {} ELSE FramesIn(t.sending, t.next)
Waiting(t) == {f \in FrameSet : f.word \in Range(t.outbox) /\ f.index \in 1 .. SizeOf[f.word]}

Senders == [outbox : Seq(Words), sending : Words \union {Silence}, next : Nat, air : Seq(FrameSet)]
OutboxSound(s, q) ==
  /\ Range(q) \subseteq Range(s)
  /\ \A i, j \in 1 .. Len(q) : i < j => Place(s, q[i]) < Place(s, q[j])
SendingSound(s, t) ==
  t.sending # Silence =>
    /\ t.sending \in Range(s) /\ t.next \in 1 .. SizeOf[t.sending]
    /\ \A i \in 1 .. Len(t.outbox) : Place(s, t.sending) < Place(s, t.outbox[i])
SenderSound(s, t) ==
  /\ t \in Senders /\ OutboxSound(s, t.outbox) /\ SendingSound(s, t)
  /\ InOrder(s, t.air, Sending(t) \union Waiting(t))
FromSender(t) == Range(t.air) \union Sending(t) \union Waiting(t)

WriterSound(s, w) ==
  /\ w \in [queue : Seq(FrameSet), air : Seq(FrameSet)]
  /\ InOrder(s, w.air, Range(w.queue)) /\ InOrder(s, w.queue, {})
FromWriter(w) == Range(w.air) \union Range(w.queue)

SaidSound ==
  /\ said \in [Directions -> Seq(Words)] /\ \A d \in Directions : Apart(said[d])
  /\ Range(said["down"]) \subseteq Broadcasts \union MerchantWords
  /\ Range(said["up"]) \subseteq CustomerWords
  /\ link # "open" => ~attached /\ \A d \in Directions : said[d] = <<>>

HeardSound ==
  /\ pile \in [Directions -> Pile] /\ received \in [Directions -> Seq(Seq(Words))]
  /\ ReceiverSound(said["down"], received["down"], pile["down"], FromSender(tx))
  /\ ReceiverSound(said["up"], received["up"], pile["up"], FromWriter(wr))

WireInv == /\ SaidSound /\ HeardSound
           /\ SenderSound(said["down"], tx) /\ WriterSound(said["up"], wr)

\* What an iPhone has said over a link that nothing went wrong with, and that
\* still stands, was heard or is on its way.
AllThere(s, r, p, C) ==
  /\ \A i \in 1 .. Len(r) : Place(s, r[i][1]) = i
  /\ \A j \in Len(r) + 1 .. Len(s) : FramesIn(s[j], 1) \subseteq C \union OnPile(p)

AnswersInv ==
  Customer = "ios" /\ link = "open" /\ live /\ upsets = 0
  => AllThere(said["up"], received["up"], pile["up"], FromWriter(wr))

-----------------------------------------------------------------------------
(* Places.                                                                 *)

LEMMA Placed ==
  ASSUME NEW s \in Seq(Words), Apart(s), NEW m \in Range(s)
  PROVE  /\ m \in Words /\ Place(s, m) \in 1 .. Len(s) /\ s[Place(s, m)] = m
         /\ \A i \in 1 .. Len(s) : s[i] = m => i = Place(s, m)
<1>1. DOMAIN s = 1 .. Len(s) /\ s \in [1 .. Len(s) -> Words]
  BY LenProperties
<1>2. PICK i \in 1 .. Len(s) : s[i] = m
  BY <1>1 DEF Range
<1>3. Place(s, m) \in 1 .. Len(s) /\ s[Place(s, m)] = m
  BY <1>2 DEF Place
<1> QED BY <1>1, <1>3 DEF Apart

LEMMA OneWord ==
  ASSUME NEW s \in Seq(Words), Apart(s), NEW m \in Range(s), NEW n \in Range(s), KindOf[m] = KindOf[n]
  PROVE  m = n
  BY Placed DEF Apart

LEMMA SaidMore ==
  ASSUME NEW s \in Seq(Words), Apart(s), NEW m \in Words,
         \A n \in Range(s) : KindOf[m] # KindOf[n]
  PROVE  /\ Append(s, m) \in Seq(Words) /\ Apart(Append(s, m)) /\ Range(Append(s, m)) = Range(s) \union {m}
         /\ Len(Append(s, m)) = Len(s) + 1 /\ Append(s, m)[Len(s) + 1] = m
         /\ \A n \in Range(s) : Place(Append(s, m), n) = Place(s, n) /\ Place(s, n) < Len(s) + 1
         /\ Place(Append(s, m), m) = Len(s) + 1
<1> DEFINE t == Append(s, m)
<1>1. /\ t \in Seq(Words) /\ Len(t) = Len(s) + 1 /\ Len(s) \in Nat
      /\ \A i \in 1 .. Len(s) : t[i] = s[i]
      /\ t[Len(s) + 1] = m
  BY AppendProperties, LenProperties
<1>2. DOMAIN s = 1 .. Len(s) /\ DOMAIN t = 1 .. Len(t)
  BY <1>1, LenProperties
<1> HIDE DEF t
<1>3. Range(t) = Range(s) \union {m}
  BY <1>1, <1>2 DEF Range
<1>4. \A i \in 1 .. Len(s) : t[i] \in Range(s)
  BY <1>1, <1>2 DEF Range
<1>5. Apart(t)
  <2> SUFFICES ASSUME NEW i \in 1 .. Len(t), NEW j \in 1 .. Len(t), KindOf[t[i]] = KindOf[t[j]]
               PROVE i = j
    BY DEF Apart
  <2>1. CASE i = Len(t) \/ j = Len(t)
    BY <1>1, <1>4, <2>1
  <2>2. CASE i # Len(t) /\ j # Len(t)
    BY <1>1, <2>2 DEF Apart
  <2> QED BY <2>1, <2>2
<1>6. ASSUME NEW n \in Range(s) PROVE Place(t, n) = Place(s, n) /\ Place(s, n) < Len(s) + 1
  <2>1. Place(s, n) \in 1 .. Len(s) /\ s[Place(s, n)] = n
    BY Placed
  <2>2. t[Place(s, n)] = n /\ Place(s, n) \in 1 .. Len(t) /\ n \in Range(t)
    BY <1>1, <1>3, <2>1
  <2> QED BY <1>1, <1>5, <2>1, <2>2, Placed
<1>7. Place(t, m) = Len(s) + 1
  <2>1. m \in Range(t) /\ Len(s) + 1 \in 1 .. Len(t)
    BY <1>1, <1>3
  <2> QED BY <1>1, <1>5, <2>1, Placed
<1> QED BY <1>1, <1>3, <1>5, <1>6, <1>7 DEF t

\* What is said later changes nothing of what was said.
LEMMA PlacesKept ==
  ASSUME NEW s \in Seq(Words), Apart(s), NEW m \in Words,
         \A n \in Range(s) : KindOf[m] # KindOf[n]
  PROVE  /\ Frames(s) \subseteq Frames(Append(s, m)) /\ FramesIn(m, 1) \subseteq Frames(Append(s, m))
         /\ \A f, g \in Frames(s) : After(s, f, g) => After(Append(s, m), f, g)
         /\ \A f \in Frames(s), g \in FramesIn(m, 1) : /\ After(Append(s, m), f, g)
                                                       /\ Place(s, f.word) < Place(Append(s, m), g.word)
<1>1. Frames(s) \subseteq Frames(Append(s, m)) /\ FramesIn(m, 1) \subseteq Frames(Append(s, m))
  BY SaidMore DEF Frames, FramesIn, FrameSet
<1>2. \A f \in Frames(s) : /\ f.word \in Range(s) /\ Place(Append(s, m), f.word) = Place(s, f.word)
                           /\ Place(s, f.word) < Place(Append(s, m), m)
  BY SaidMore DEF Frames
<1> QED BY <1>1, <1>2 DEF After, FramesIn

LEMMA AfterAll ==
  ASSUME NEW s \in Seq(Words), Apart(s), NEW f \in Frames(s), NEW g \in Frames(s), NEW h \in Frames(s),
         After(s, f, g), After(s, g, h)
  PROVE  After(s, f, h)
<1>1. f.word \in Range(s) /\ g.word \in Range(s) /\ h.word \in Range(s)
  BY DEF Frames
<1>2. Place(s, f.word) \in Nat /\ Place(s, g.word) \in Nat /\ Place(s, h.word) \in Nat
  BY <1>1, Placed
<1> QED BY <1>2 DEF After, Frames, FrameSet

-----------------------------------------------------------------------------
(* A frame comes in.                                                       *)

Taken(p, f) == IF p.kind = KindOf[f.word] THEN DOMAIN p.parts ELSE {}

Laid(p, f) == [kind |-> KindOf[f.word], parts |-> [i \in Taken(p, f) \union {f.index} |-> f.word]]

\* A pile a frame is laid on is made of its own message, and of earlier places.
LEMMA OwnPile ==
  ASSUME LinkAssumption, NEW s \in Seq(Words), Apart(s), NEW r, NEW p, NEW C, ReceiverSound(s, r, p, C), NEW f \in C
  PROVE  /\ Taken(p, f) \subseteq 1 .. f.index - 1
         /\ \A k \in Taken(p, f) : p.parts[k] = f.word /\ Frame(f.word, k) \in OnPile(p)
         /\ Piled(p, f) = Laid(p, f)
<1>1. f \in Frames(s) /\ f.word \in Range(s) /\ f.word \in Words /\ f.index \in Nat
  BY DEF ReceiverSound, Frames, FrameSet
<1>2. ASSUME NEW k \in Taken(p, f)
      PROVE  k \in 1 .. f.index - 1 /\ p.parts[k] = f.word /\ Frame(f.word, k) \in OnPile(p)
  <2>1. k \in DOMAIN p.parts /\ p.kind = KindOf[f.word]
    BY <1>2 DEF Taken
  <2>2. Frame(p.parts[k], k) \in OnPile(p)
    BY <2>1 DEF OnPile
  <2>3. /\ p.parts[k] \in Range(s) /\ k \in 1 .. SizeOf[p.parts[k]] /\ KindOf[p.parts[k]] = KindOf[f.word]
        /\ k \in Nat
    BY <2>1, <2>2 DEF ReceiverSound, PileSound, Frames, FrameSet, Frame
  <2>4. p.parts[k] = f.word
    BY <1>1, <2>3, OneWord
  <2>5. After(s, Frame(f.word, k), f)
    BY <2>2, <2>4 DEF ReceiverSound
  <2>6. Place(s, f.word) \in Nat
    BY <1>1, Placed
  <2>7. k < f.index
    BY <2>5, <2>6 DEF After, Frame
  <2>8. SizeOf[f.word] \in Nat
    BY <1>1 DEF LinkAssumption
  <2> QED BY <1>1, <2>2, <2>3, <2>4, <2>7, <2>8
<1>3. Piled(p, f) = Laid(p, f)
  <2>1. p \in Pile
    BY DEF ReceiverSound, PileSound
  <2>2. CASE p.kind = KindOf[f.word]
    <3> DEFINE x == [i \in DOMAIN p.parts \union {f.index} |-> IF i = f.index THEN f.word ELSE p.parts[i]]
    <3>1. Piled(p, f) = [p EXCEPT !.parts = x]
      BY <2>2 DEF Piled
    <3>2. x = [i \in Taken(p, f) \union {f.index} |-> f.word]
      BY <1>2, <2>2 DEF Taken
    <3> HIDE DEF x
    <3>3. Piled(p, f) = [kind |-> p.kind, parts |-> x]
      BY <2>1, <3>1 DEF Pile
    <3> QED BY <2>2, <3>2, <3>3 DEF Laid
  <2>3. CASE p.kind # KindOf[f.word]
    <3> DEFINE q == [kind |-> KindOf[f.word], parts |-> <<>>]
               x == [i \in DOMAIN q.parts \union {f.index} |-> IF i = f.index THEN f.word ELSE q.parts[i]]
    <3>1. Piled(p, f) = [q EXCEPT !.parts = x]
      BY <2>3 DEF Piled
    <3>2. DOMAIN q.parts = {}
      OBVIOUS
    <3>3. x = [i \in Taken(p, f) \union {f.index} |-> f.word]
      BY <2>3, <3>2 DEF Taken
    <3> HIDE DEF x
    <3>4. [q EXCEPT !.parts = x] = [kind |-> KindOf[f.word], parts |-> x]
      OBVIOUS
    <3> QED BY <3>1, <3>3, <3>4 DEF Laid
  <2> QED BY <2>2, <2>3
<1> QED BY <1>2, <1>3

\* A pile with as many frames as the message has, has each of them.
LEMMA FullPile ==
  ASSUME NEW n \in Nat, NEW D \in SUBSET (1 .. n)
  PROVE  Cardinality(D) = n <=> D = 1 .. n
<1>1. IsFiniteSet(1 .. n) /\ Cardinality(1 .. n) = n
  BY FS_Interval
<1>2. Cardinality(D) = Cardinality(1 .. n) => D = 1 .. n
  BY <1>1, FS_Subset
<1> QED BY <1>1, <1>2

LEMMA EmptyPile == NoPile \in Pile /\ OnPile(NoPile) = {} /\ DOMAIN NoPile.parts = {}
<1>1. NoPile.kind = Silence /\ NoPile.parts = <<>> /\ DOMAIN NoPile.parts = {}
  BY DEF NoPile
<1>2. <<>> \in [{} -> Words]
  OBVIOUS
<1>3. {} \in SUBSET Nat
  OBVIOUS
<1>4. NoPile.parts \in UNION {[D -> Words] : D \in SUBSET Nat}
  BY <1>1, <1>2, <1>3
<1> QED BY <1>1, <1>4 DEF NoPile, Pile, OnPile

LEMMA HearsLess ==
  ASSUME NEW s, NEW r, NEW p, NEW C, ReceiverSound(s, r, p, C), NEW C2 \in SUBSET C
  PROVE  ReceiverSound(s, r, p, C2) /\ ReceiverSound(s, r, NoPile, C2)
  BY EmptyPile DEF ReceiverSound, PileSound

LEMMA NothingSaid == Apart(<<>>) /\ Range(<<>>) = {} /\ ReceiverSound(<<>>, <<>>, NoPile, {})
<1>1. Len(<<>>) = 0 /\ <<>> \in Seq(Seq(Words)) /\ DOMAIN <<>> = {}
  BY EmptySeq
<1> QED BY <1>1, EmptyPile DEF ReceiverSound, PileSound, HeardWhole, Apart, Range

LEMMA HearsSaid ==
  ASSUME LinkAssumption, NEW s \in Seq(Words), Apart(s), NEW m \in Words,
         \A n \in Range(s) : KindOf[m] # KindOf[n],
         NEW r, NEW p, NEW C, ReceiverSound(s, r, p, C), NEW C2, C2 \subseteq C \union FramesIn(m, 1)
  PROVE  ReceiverSound(Append(s, m), r, p, C2)
<1> DEFINE t == Append(s, m)
<1>1. /\ Range(s) \subseteq Range(t) /\ Frames(s) \subseteq Frames(t) /\ FramesIn(m, 1) \subseteq Frames(t)
      /\ \A n \in Range(s) : Place(t, n) = Place(s, n)
      /\ \A f, g \in Frames(s) : After(s, f, g) => After(t, f, g)
      /\ \A f \in Frames(s), g \in FramesIn(m, 1) : After(t, f, g)
  BY SaidMore, PlacesKept
<1>2. \A n \in Range(s), g \in FramesIn(m, 1) : Place(s, n) < Place(t, g.word)
  BY SaidMore DEF FramesIn
<1> HIDE DEF t
<1>3. /\ r \in Seq(Seq(Words)) /\ Len(r) \in Nat
      /\ \A i \in 1 .. Len(r) : r[i][1] \in Range(s) /\ \E n \in Range(s) : Whole(r[i], n)
  <2>1. r \in Seq(Seq(Words)) /\ Len(r) \in Nat
    BY LenProperties DEF ReceiverSound, HeardWhole
  <2>2. ASSUME NEW i \in 1 .. Len(r) PROVE r[i][1] \in Range(s) /\ \E n \in Range(s) : Whole(r[i], n)
    <3>1. PICK n \in Range(s) : Whole(r[i], n)
      BY DEF ReceiverSound, HeardWhole
    <3>2. n \in Words /\ SizeOf[n] \in Nat \ {0}
      BY Placed DEF LinkAssumption
    <3> QED BY <3>1, <3>2 DEF Whole
  <2> QED BY <2>1, <2>2
<1>4. HeardWhole(t, r)
  BY <1>1, <1>3 DEF ReceiverSound, HeardWhole
<1>5. PileSound(t, p) /\ OnPile(p) \subseteq Frames(s) /\ C \subseteq Frames(s)
  BY <1>1 DEF ReceiverSound, PileSound
<1>6. \A h \in OnPile(p), f \in C2 : After(t, h, f)
  BY <1>1, <1>5 DEF ReceiverSound
<1>7. \A i \in 1 .. Len(r), f \in C2 \union OnPile(p) : Place(t, r[i][1]) < Place(t, f.word)
  <2> TAKE i \in 1 .. Len(r), f \in C2 \union OnPile(p)
  <2>1. CASE f \in FramesIn(m, 1)
    BY <1>1, <1>2, <1>3, <2>1
  <2>2. CASE f \in C \union OnPile(p)
    <3>1. f.word \in Range(s)
      BY <1>5, <2>2 DEF Frames
    <3> QED BY <1>1, <1>3, <2>2, <3>1 DEF ReceiverSound
  <2> QED BY <2>1, <2>2
<1>8. C2 \subseteq Frames(t)
  BY <1>1, <1>5
<1> QED BY <1>4, <1>5, <1>6, <1>7, <1>8 DEF ReceiverSound, t

LEMMA FrameHeard ==
  ASSUME LinkAssumption, NEW s \in Seq(Words), Apart(s), NEW r, NEW p, NEW C, ReceiverSound(s, r, p, C),
         NEW f \in C, NEW C2 \in SUBSET C, \A g \in C2 : After(s, f, g)
  PROVE  IF Complete(Piled(p, f), f) THEN ReceiverSound(s, Append(r, Piled(p, f).parts), NoPile, C2)
                                     ELSE ReceiverSound(s, r, Piled(p, f), C2)
<1> DEFINE w == f.word
           D == Taken(p, f) \union {f.index}
           q == Piled(p, f)
<1>1. /\ f \in Frames(s) /\ w \in Range(s) /\ w \in Words /\ f.index \in 1 .. SizeOf[w]
      /\ f \in FrameSet /\ SizeOf[w] \in Nat \ {0}
  BY DEF ReceiverSound, Frames, FrameSet, LinkAssumption
<1>2. /\ q = [kind |-> KindOf[w], parts |-> [i \in D |-> w]]
      /\ Taken(p, f) \subseteq 1 .. f.index - 1
      /\ \A k \in Taken(p, f) : Frame(w, k) \in OnPile(p)
  <2>1. /\ Taken(p, f) \subseteq 1 .. f.index - 1
        /\ \A k \in Taken(p, f) : p.parts[k] = f.word /\ Frame(f.word, k) \in OnPile(p)
        /\ Piled(p, f) = Laid(p, f)
    BY OwnPile
  <2> QED BY <2>1 DEF Laid
<1>3. D \subseteq 1 .. SizeOf[w]
  BY <1>1, <1>2
<1>4. q.kind = KindOf[w] /\ q.parts = [i \in D |-> w] /\ DOMAIN q.parts = D
  BY <1>2
<1>5. Complete(q, f) <=> D = 1 .. SizeOf[w]
  BY <1>1, <1>3, <1>4, FullPile DEF Complete
<1>6. OnPile(q) = {Frame(w, k) : k \in D} /\ OnPile(q) \subseteq OnPile(p) \union {f}
  <2>1. OnPile(q) = {Frame(w, k) : k \in D}
    BY <1>4 DEF OnPile
  <2>2. Frame(w, f.index) = f
    BY <1>1 DEF Frame, FrameSet
  <2> QED BY <1>2, <2>1, <2>2
<1>7. r \in Seq(Seq(Words)) /\ Len(r) \in Nat
  BY LenProperties DEF ReceiverSound, HeardWhole
<1>8. \A g \in C2 : g \in Frames(s) /\ g \in C
  BY DEF ReceiverSound
<1>9. CASE D # 1 .. SizeOf[w]
  <2>1. q \in Pile
    <3>1. D \in SUBSET Nat
      BY <1>3
    <3>2. q.parts \in [D -> Words]
      BY <1>1, <1>4
    <3>3. q.parts \in UNION {[E -> Words] : E \in SUBSET Nat}
      BY <3>1, <3>2
    <3> QED BY <1>1, <1>2, <1>4, <3>3 DEF Pile
  <2>2. OnPile(q) \subseteq Frames(s)
    BY <1>1, <1>6 DEF ReceiverSound, PileSound
  <2>3. PileSound(s, q)
    BY <1>4, <1>9, <2>1, <2>2 DEF PileSound
  <2>4. \A h \in OnPile(q), g \in C2 : After(s, h, g)
    BY <1>6, <1>8 DEF ReceiverSound
  <2>5. \A i \in 1 .. Len(r), g \in C2 \union OnPile(q) : Place(s, r[i][1]) < Place(s, g.word)
    BY <1>6, <1>8 DEF ReceiverSound
  <2>6. ReceiverSound(s, r, q, C2)
    BY <1>8, <2>3, <2>4, <2>5 DEF ReceiverSound
  <2> QED BY <1>5, <1>9, <2>6
<1>10. CASE D = 1 .. SizeOf[w]
  <2>1. f.index = SizeOf[w]
    BY <1>1, <1>2, <1>10
  <2>2. \A g \in C2 : Place(s, w) < Place(s, g.word)
    BY <1>1, <1>8, <2>1 DEF After, Frames, FrameSet
  <2>3. q.parts \in Seq(Words) /\ Whole(q.parts, w) /\ q.parts[1] = w
    <3>1. q.parts = [i \in 1 .. SizeOf[w] |-> w]
      BY <1>4, <1>10
    <3>2. q.parts \in [1 .. SizeOf[w] -> Words]
      BY <1>1, <3>1
    <3>3. q.parts \in Seq(Words)
      BY <1>1, <3>2, SeqDef
    <3> QED BY <1>1, <3>1, <3>3 DEF Whole
  <2> DEFINE x == q.parts
             t == Append(r, x)
  <2>4. x \in Seq(Words) /\ Whole(x, w) /\ x[1] = w
    BY <2>3
  <2> HIDE DEF x, q, D
  <2>5. /\ t \in Seq(Seq(Words)) /\ Len(t) = Len(r) + 1 /\ t[Len(r) + 1] = x
        /\ \A i \in 1 .. Len(r) : t[i] = r[i]
    BY <1>7, <2>4, AppendProperties
  <2> HIDE DEF t
  <2>6. \A i \in 1 .. Len(r) : Place(s, r[i][1]) < Place(s, w)
    BY DEF ReceiverSound
  <2>7. HeardWhole(s, t)
    <3>1. \A i \in 1 .. Len(t) : \E m \in Range(s) : Whole(t[i], m)
      BY <1>1, <1>7, <2>4, <2>5 DEF ReceiverSound, HeardWhole
    <3>2. \A i, j \in 1 .. Len(t) : i < j => Place(s, t[i][1]) < Place(s, t[j][1])
      <4> TAKE i, j \in 1 .. Len(t)
      <4> HAVE i < j
      <4>0. Len(t) = Len(r) + 1
        BY <2>5
      <4>1. i \in 1 .. Len(r) /\ (j \in 1 .. Len(r) \/ j = Len(r) + 1)
        BY <1>7, <4>0
      <4>2. CASE j \in 1 .. Len(r)
        BY <2>5, <4>1, <4>2 DEF ReceiverSound, HeardWhole
      <4>3. CASE j = Len(r) + 1
        BY <2>4, <2>5, <2>6, <4>1, <4>3
      <4> QED BY <4>1, <4>2, <4>3
    <3> QED BY <2>5, <3>1, <3>2 DEF HeardWhole
  <2>8. \A i \in 1 .. Len(t), g \in C2 : Place(s, t[i][1]) < Place(s, g.word)
    <3> TAKE i \in 1 .. Len(t), g \in C2
    <3>1. CASE i = Len(r) + 1
      BY <2>2, <2>4, <2>5, <3>1
    <3>2. CASE i \in 1 .. Len(r)
      BY <1>8, <2>5, <3>2 DEF ReceiverSound
    <3> QED BY <1>7, <2>5, <3>1, <3>2
  <2>9. ReceiverSound(s, t, NoPile, C2)
    BY <1>8, <2>7, <2>8, EmptyPile DEF ReceiverSound, PileSound
  <2> QED BY <1>5, <1>10, <2>9 DEF t, x, q
<1> QED BY <1>9, <1>10

-----------------------------------------------------------------------------
(* Frames on their way.                                                    *)

LEMMA NothingOnItsWay == \A s, G : InOrder(s, <<>>, G) /\ Range(<<>>) = {}
<1>1. Len(<<>>) = 0 /\ <<>> \in Seq(FrameSet) /\ Range(<<>>) = {}
  BY EmptySeq DEF Range
<1> QED BY <1>1 DEF InOrder

LEMMA FirstArrives ==
  ASSUME NEW s, NEW a, NEW G, InOrder(s, a, G), a # <<>>
  PROVE  /\ InOrder(s, Tail(a), G) /\ Head(a) \in Range(a) /\ Range(a) = {Head(a)} \union Range(Tail(a))
         /\ \A g \in Range(Tail(a)) \union G : After(s, Head(a), g)
<1>1. /\ a \in Seq(FrameSet) /\ Len(a) \in Nat \ {0} /\ DOMAIN a = 1 .. Len(a)
      /\ Tail(a) \in Seq(FrameSet) /\ Len(Tail(a)) = Len(a) - 1 /\ DOMAIN Tail(a) = 1 .. Len(Tail(a))
      /\ \A i \in 1 .. Len(Tail(a)) : Tail(a)[i] = a[i + 1]
  BY HeadTailProperties, LenProperties, EmptySeq DEF InOrder
<1>2. Head(a) = a[1] /\ 1 \in 1 .. Len(a)
  BY <1>1
<1> DEFINE b == Tail(a)
<1>3. b \in Seq(FrameSet) /\ Len(b) = Len(a) - 1 /\ DOMAIN b = 1 .. Len(b) /\ \A i \in 1 .. Len(b) : b[i] = a[i + 1]
  BY <1>1
<1> HIDE DEF b
<1>4. Range(a) = {a[1]} \union Range(b)
  <2>1. \A i \in 1 .. Len(a) : i = 1 \/ (i - 1 \in 1 .. Len(b) /\ a[i] = b[i - 1])
    BY <1>1, <1>3
  <2>2. ASSUME NEW x \in Range(a) PROVE x \in {a[1]} \union Range(b)
    <3>1. PICK i \in 1 .. Len(a) : x = a[i]
      BY <1>1 DEF Range
    <3>2. CASE i = 1
      BY <3>1, <3>2
    <3>3. CASE i # 1
      <4>1. i - 1 \in DOMAIN b /\ x = b[i - 1]
        BY <1>3, <2>1, <3>1, <3>3
      <4> QED BY <4>1 DEF Range
    <3> QED BY <3>2, <3>3
  <2>3. \A i \in 1 .. Len(b) : i + 1 \in 1 .. Len(a)
    BY <1>1, <1>3
  <2>4. {a[1]} \union Range(b) \subseteq Range(a)
    BY <1>1, <1>2, <1>3, <2>3 DEF Range
  <2> QED BY <2>2, <2>4
<1>5. InOrder(s, b, G)
  <2>1. \A i, j \in 1 .. Len(b) : i < j => After(s, b[i], b[j])
    BY <1>1, <1>3 DEF InOrder
  <2>2. \A i \in 1 .. Len(b), g \in G : After(s, b[i], g)
    BY <1>1, <1>3 DEF InOrder
  <2> QED BY <1>3, <1>4, <2>1, <2>2 DEF InOrder
<1>6. \A g \in Range(b) \union G : After(s, a[1], g)
  <2>1. \A i \in 1 .. Len(b) : After(s, a[1], b[i])
    BY <1>1, <1>3 DEF InOrder
  <2> QED BY <1>2, <1>3, <2>1 DEF InOrder, Range
<1> QED BY <1>2, <1>4, <1>5, <1>6 DEF b, Range

LEMMA OneMoreSent ==
  ASSUME NEW s, NEW a, NEW G, InOrder(s, a, G), NEW f \in G, f \in Frames(s),
         NEW H \in SUBSET G, \A g \in H : After(s, f, g)
  PROVE  InOrder(s, Append(a, f), H) /\ Range(Append(a, f)) = Range(a) \union {f}
<1> DEFINE b == Append(a, f)
<1>1. /\ a \in Seq(FrameSet) /\ Len(a) \in Nat /\ DOMAIN a = 1 .. Len(a) /\ f \in FrameSet
      /\ b \in Seq(FrameSet) /\ Len(b) = Len(a) + 1 /\ DOMAIN b = 1 .. Len(b)
      /\ \A i \in 1 .. Len(a) : b[i] = a[i]
      /\ b[Len(a) + 1] = f
  BY AppendProperties, LenProperties DEF InOrder, Frames
<1> HIDE DEF b
<1>2. Range(b) = Range(a) \union {f}
  BY <1>1 DEF Range
<1>3. ASSUME NEW i \in 1 .. Len(b), NEW j \in 1 .. Len(b), i < j PROVE After(s, b[i], b[j])
  <2>1. i \in 1 .. Len(a) /\ (j \in 1 .. Len(a) \/ j = Len(a) + 1)
    BY <1>1, <1>3
  <2> QED BY <1>1, <1>3, <2>1 DEF InOrder
<1>4. ASSUME NEW i \in 1 .. Len(b), NEW g \in H PROVE After(s, b[i], g)
  <2>1. i \in 1 .. Len(a) \/ i = Len(a) + 1
    BY <1>1
  <2> QED BY <1>1, <2>1 DEF InOrder
<1> QED BY <1>1, <1>2, <1>3, <1>4 DEF InOrder, b

LEMMA OrderKept ==
  ASSUME NEW s \in Seq(Words), Apart(s), NEW m \in Words, \A n \in Range(s) : KindOf[m] # KindOf[n],
         NEW a, NEW G \in SUBSET Frames(s), InOrder(s, a, G), NEW H, H \subseteq G \union FramesIn(m, 1)
  PROVE  InOrder(Append(s, m), a, H)
<1> DEFINE t == Append(s, m)
<1>1. /\ Frames(s) \subseteq Frames(t)
      /\ \A f, g \in Frames(s) : After(s, f, g) => After(t, f, g)
      /\ \A f \in Frames(s), g \in FramesIn(m, 1) : After(t, f, g)
  BY PlacesKept
<1> HIDE DEF t
<1>2. /\ a \in Seq(FrameSet) /\ Range(a) \subseteq Frames(s) /\ \A i \in 1 .. Len(a) : a[i] \in Frames(s)
  BY LenProperties DEF InOrder, Range
<1>3. \A i, j \in 1 .. Len(a) : i < j => After(t, a[i], a[j])
  BY <1>1, <1>2 DEF InOrder
<1>4. \A i \in 1 .. Len(a), g \in H : After(t, a[i], g)
  BY <1>1, <1>2 DEF InOrder
<1> QED BY <1>1, <1>2, <1>3, <1>4 DEF InOrder, t

-----------------------------------------------------------------------------
(* The merchant's sender.                                                  *)

\* What waits is of words that were said.
LEMMA YetToCome ==
  ASSUME LinkAssumption, NEW s \in Seq(Words), Apart(s), NEW t, SenderSound(s, t)
  PROVE  Sending(t) \subseteq Frames(s) /\ Waiting(t) \subseteq Frames(s)
<1>1. Waiting(t) \subseteq Frames(s)
  BY DEF SenderSound, OutboxSound, Waiting, Frames
<1>2. Sending(t) \subseteq Frames(s)
  <2> SUFFICES ASSUME t.sending # Silence, NEW f \in FramesIn(t.sending, t.next) PROVE f \in Frames(s)
    BY DEF Sending
  <2>1. /\ t.sending \in Range(s) /\ t.next \in 1 .. SizeOf[t.sending] /\ t.sending \in Words
        /\ SizeOf[t.sending] \in Nat
    BY Placed DEF SenderSound, SendingSound, LinkAssumption
  <2> QED BY <2>1 DEF FramesIn, Frames, FrameSet
<1> QED BY <1>1, <1>2

LEMMA NextBegun ==
  ASSUME LinkAssumption, NEW s \in Seq(Words), Apart(s), NEW t \in Senders, OutboxSound(s, t.outbox),
         InOrder(s, t.air, Waiting(t))
  PROVE  /\ SenderSound(s, Begun(t)) /\ FromSender(Begun(t)) \subseteq Range(t.air) \union Waiting(t)
         /\ Begun(t).air = t.air
<1>1. t.outbox \in Seq(Words) /\ t.air \in Seq(FrameSet) /\ DOMAIN t.outbox = 1 .. Len(t.outbox)
  BY LenProperties DEF Senders
<1>2. CASE t.outbox = <<>>
  <2> DEFINE u == [t EXCEPT !.sending = Silence]
  <2>1. Begun(t) = u
    BY <1>2 DEF Begun
  <2>2. u \in Senders /\ u.sending = Silence /\ u.outbox = t.outbox /\ u.air = t.air
    BY DEF Senders
  <2> HIDE DEF u
  <2>3. Sending(u) = {} /\ Waiting(u) = Waiting(t)
    BY <2>2 DEF Sending, Waiting
  <2> QED BY <2>1, <2>2, <2>3 DEF SenderSound, SendingSound, FromSender
<1>3. CASE t.outbox # <<>>
  <2> DEFINE h == Head(t.outbox)
             rest == Tail(t.outbox)
             u == [t EXCEPT !.outbox = rest, !.sending = h, !.next = 1]
  <2>1. Begun(t) = u
    BY <1>3 DEF Begun
  <2>2. /\ h = t.outbox[1] /\ h \in Words /\ rest \in Seq(Words) /\ Len(rest) = Len(t.outbox) - 1
        /\ \A i \in 1 .. Len(rest) : rest[i] = t.outbox[i + 1]
        /\ Len(t.outbox) \in Nat \ {0} /\ DOMAIN rest = 1 .. Len(rest)
    BY <1>1, <1>3, HeadTailProperties, LenProperties, EmptySeq
  <2> HIDE DEF h, rest
  <2>3. u \in Senders /\ u.sending = h /\ u.next = 1 /\ u.outbox = rest /\ u.air = t.air
    BY <2>2 DEF Senders
  <2> HIDE DEF u
  <2>4. h \in Range(t.outbox) /\ Range(rest) \subseteq Range(t.outbox)
    <3>1. 1 \in 1 .. Len(t.outbox) /\ \A i \in 1 .. Len(rest) : i + 1 \in 1 .. Len(t.outbox)
      BY <2>2
    <3> QED BY <1>1, <2>2, <3>1 DEF Range
  <2>5. h \in Range(s) /\ h # Silence /\ SizeOf[h] \in Nat \ {0}
    BY <2>2, <2>4 DEF OutboxSound, LinkAssumption
  <2>6. \A i \in 1 .. Len(rest) : Place(s, h) < Place(s, rest[i])
    BY <2>2 DEF OutboxSound
  <2>7. OutboxSound(s, rest)
    <3>1. \A i, j \in 1 .. Len(rest) : i < j => Place(s, rest[i]) < Place(s, rest[j])
      <4> TAKE i, j \in 1 .. Len(rest)
      <4> HAVE i < j
      <4>1. i + 1 \in 1 .. Len(t.outbox) /\ j + 1 \in 1 .. Len(t.outbox) /\ i + 1 < j + 1
        BY <2>2
      <4> QED BY <2>2, <4>1 DEF OutboxSound
    <3> QED BY <2>4, <3>1 DEF OutboxSound
  <2>8. SendingSound(s, u)
    BY <2>3, <2>5, <2>6 DEF SendingSound
  <2>9. Sending(u) \subseteq Waiting(t) /\ Waiting(u) \subseteq Waiting(t)
    BY <2>3, <2>4, <2>5 DEF Sending, Waiting, FramesIn
  <2>10. InOrder(s, u.air, Sending(u) \union Waiting(u))
    BY <2>3, <2>9 DEF InOrder
  <2> QED BY <2>1, <2>3, <2>7, <2>8, <2>9, <2>10 DEF SenderSound, FromSender
<1> QED BY <1>2, <1>3

LEMMA OneMoreWaits ==
  ASSUME LinkAssumption, NEW s \in Seq(Words), Apart(s), NEW m \in Words,
         \A n \in Range(s) : KindOf[m] # KindOf[n], NEW t, SenderSound(s, t)
  PROVE  /\ SenderSound(Append(s, m), Enqueued(t, m))
         /\ FromSender(Enqueued(t, m)) \subseteq FromSender(t) \union FramesIn(m, 1)
<1> DEFINE u == Append(s, m)
           box == Append(t.outbox, m)
           q == [t EXCEPT !.outbox = Append(@, m)]
<1>1. t \in Senders /\ t.outbox \in Seq(Words) /\ DOMAIN t.outbox = 1 .. Len(t.outbox) /\ Len(t.outbox) \in Nat
  BY LenProperties DEF SenderSound, Senders
<1>2. /\ box \in Seq(Words) /\ Len(box) = Len(t.outbox) + 1 /\ DOMAIN box = 1 .. Len(box)
      /\ \A i \in 1 .. Len(t.outbox) : box[i] = t.outbox[i]
      /\ box[Len(t.outbox) + 1] = m
  BY <1>1, AppendProperties, LenProperties
<1>3. q = [t EXCEPT !.outbox = box]
  BY <1>1
<1> HIDE DEF box
<1>4. q \in Senders /\ q.outbox = box /\ q.sending = t.sending /\ q.next = t.next /\ q.air = t.air
  <2> DEFINE v == [t EXCEPT !.outbox = box]
  <2>1. v \in Senders /\ v.outbox = box /\ v.sending = t.sending /\ v.next = t.next /\ v.air = t.air
    BY <1>1, <1>2 DEF Senders
  <2> QED BY <1>3, <2>1
<1>5. /\ u \in Seq(Words) /\ Apart(u) /\ Range(u) = Range(s) \union {m} /\ Frames(s) \subseteq Frames(u)
      /\ \A n \in Range(s) : Place(u, n) = Place(s, n) /\ Place(s, n) < Place(u, m)
  BY SaidMore, PlacesKept
<1>6. Enqueued(t, m) = IF t.sending = Silence THEN Begun(q) ELSE q
  BY <1>4 DEF Enqueued
<1>7. \A G : InOrder(s, t.air, G) /\ G \subseteq Frames(s) =>
               \A H : H \subseteq G \union FramesIn(m, 1) => InOrder(u, t.air, H)
  BY OrderKept
<1> HIDE DEF q, u
<1>8. Range(box) = Range(t.outbox) \union {m}
  <2>1. \A i \in 1 .. Len(box) : i \in 1 .. Len(t.outbox) \/ i = Len(t.outbox) + 1
    BY <1>1, <1>2
  <2>2. Len(t.outbox) + 1 \in 1 .. Len(box) /\ \A i \in 1 .. Len(t.outbox) : i \in 1 .. Len(box)
    BY <1>1, <1>2
  <2> QED BY <1>1, <1>2, <2>1, <2>2 DEF Range
<1>9. OutboxSound(u, box)
  <2>1. \A i \in 1 .. Len(t.outbox) : t.outbox[i] \in Range(s)
    BY <1>1 DEF SenderSound, OutboxSound, Range
  <2>2. ASSUME NEW i \in 1 .. Len(box), NEW j \in 1 .. Len(box), i < j
        PROVE  Place(u, box[i]) < Place(u, box[j])
    <3>1. i \in 1 .. Len(t.outbox) /\ (j \in 1 .. Len(t.outbox) \/ j = Len(t.outbox) + 1)
      BY <1>1, <1>2, <2>2
    <3> QED BY <1>2, <1>5, <2>1, <2>2, <3>1 DEF SenderSound, OutboxSound
  <2> QED BY <1>5, <1>8, <2>2 DEF SenderSound, OutboxSound
<1>10. Waiting(q) = Waiting(t) \union FramesIn(m, 1) /\ Sending(q) = Sending(t)
  BY <1>4, <1>8 DEF Waiting, Sending, FramesIn
<1>11. SendingSound(u, q)
  <2> SUFFICES ASSUME t.sending # Silence PROVE SendingSound(u, q)
    BY <1>4 DEF SendingSound
  <2>1. /\ t.sending \in Range(s) /\ t.next \in 1 .. SizeOf[t.sending]
        /\ \A i \in 1 .. Len(t.outbox) : t.outbox[i] \in Range(s) /\ Place(s, t.sending) < Place(s, t.outbox[i])
    BY <1>1 DEF SenderSound, SendingSound, OutboxSound, Range
  <2>2. \A i \in 1 .. Len(box) : Place(u, t.sending) < Place(u, box[i])
    <3> TAKE i \in 1 .. Len(box)
    <3>1. i \in 1 .. Len(t.outbox) \/ i = Len(t.outbox) + 1
      BY <1>1, <1>2
    <3> QED BY <1>2, <1>5, <2>1, <3>1
  <2> QED BY <1>4, <1>5, <2>1, <2>2 DEF SendingSound
<1>12. InOrder(u, q.air, Sending(q) \union Waiting(q)) /\ InOrder(u, q.air, Waiting(q))
  <2>1. Sending(t) \union Waiting(t) \subseteq Frames(s)
    BY YetToCome
  <2>2. InOrder(s, t.air, Sending(t) \union Waiting(t))
    BY DEF SenderSound
  <2>3. \A H : H \subseteq (Sending(t) \union Waiting(t)) \union FramesIn(m, 1) => InOrder(u, t.air, H)
    BY <1>7, <2>1, <2>2
  <2> QED BY <1>4, <1>10, <2>3
<1>13. SenderSound(u, q) /\ FromSender(q) \subseteq FromSender(t) \union FramesIn(m, 1)
  BY <1>4, <1>9, <1>10, <1>11, <1>12 DEF SenderSound, FromSender
<1>14. SenderSound(u, Begun(q)) /\ FromSender(Begun(q)) \subseteq FromSender(t) \union FramesIn(m, 1)
  <2>1. OutboxSound(u, q.outbox)
    BY <1>4, <1>9
  <2>2. SenderSound(u, Begun(q)) /\ FromSender(Begun(q)) \subseteq Range(q.air) \union Waiting(q)
    BY <1>4, <1>5, <1>12, <2>1, NextBegun
  <2> QED BY <1>4, <1>10, <2>2 DEF FromSender
<1> QED BY <1>6, <1>13, <1>14 DEF u

Pushed(t, air) == [t EXCEPT !.air = air, !.next = @ + 1]

LEMMA FrameSent ==
  ASSUME LinkAssumption, NEW s \in Seq(Words), Apart(s), NEW t, SenderSound(s, t), t.sending # Silence,
         NEW air, air = t.air \/ air = Append(t.air, Frame(t.sending, t.next)),
         NEW v, v = IF t.next = SizeOf[t.sending] THEN Begun(Pushed(t, air)) ELSE Pushed(t, air)
  PROVE  SenderSound(s, v) /\ FromSender(v) \subseteq FromSender(t)
<1> DEFINE f == Frame(t.sending, t.next)
           u == Pushed(t, air)
<1>1. /\ t \in Senders /\ t.sending \in Range(s) /\ t.next \in 1 .. SizeOf[t.sending]
      /\ t.sending \in Words /\ SizeOf[t.sending] \in Nat
      /\ \A i \in 1 .. Len(t.outbox) : Place(s, t.sending) < Place(s, t.outbox[i])
      /\ OutboxSound(s, t.outbox) /\ InOrder(s, t.air, Sending(t) \union Waiting(t))
  BY Placed DEF SenderSound, SendingSound, LinkAssumption
<1>2. f \in Sending(t) /\ f.word = t.sending /\ f.index = t.next
  BY <1>1 DEF Sending, FramesIn, Frame, FrameSet
<1>3. f \in Frames(s) /\ Waiting(t) \subseteq Frames(s) /\ Sending(t) \subseteq Frames(s)
  BY <1>2, YetToCome
<1>4. \A g \in Waiting(t) : After(s, f, g)
  <2> SUFFICES ASSUME NEW g \in Waiting(t) PROVE Place(s, t.sending) < Place(s, g.word)
    BY <1>2 DEF After
  <2>1. DOMAIN t.outbox = 1 .. Len(t.outbox)
    BY <1>1, LenProperties DEF Senders
  <2>2. PICK i \in 1 .. Len(t.outbox) : g.word = t.outbox[i]
    BY <2>1 DEF Waiting, Range
  <2> QED BY <1>1, <2>2
<1> DEFINE more == FramesIn(t.sending, t.next + 1)
<1>5. more \subseteq Sending(t) /\ \A g \in more : After(s, f, g)
  <2>1. more \subseteq Sending(t)
    BY <1>1 DEF FramesIn, Sending
  <2>2. \A g \in more : f.word = g.word /\ f.index < g.index
    BY <1>1, <1>2 DEF FramesIn
  <2> QED BY <2>1, <2>2 DEF After
<1> HIDE DEF more, f
<1>6. InOrder(s, air, more \union Waiting(t)) /\ Range(air) \subseteq Range(t.air) \union {f} /\ air \in Seq(FrameSet)
  <2>1. InOrder(s, t.air, more \union Waiting(t))
    BY <1>1, <1>5 DEF InOrder
  <2>2. InOrder(s, Append(t.air, f), more \union Waiting(t)) /\ Range(Append(t.air, f)) = Range(t.air) \union {f}
    <3>1. more \union Waiting(t) \in SUBSET (Sending(t) \union Waiting(t))
      BY <1>5
    <3>2. \A g \in more \union Waiting(t) : After(s, f, g)
      BY <1>4, <1>5
    <3>3. f \in Sending(t) \union Waiting(t)
      BY <1>2
    <3>4. InOrder(s, t.air, Sending(t) \union Waiting(t)) /\ f \in Frames(s)
      BY <1>1, <1>3
    <3> QED BY <3>1, <3>2, <3>3, <3>4, OneMoreSent
  <2> QED BY <2>1, <2>2 DEF InOrder, f
<1>7. u \in Senders /\ u.air = air /\ u.next = t.next + 1 /\ u.sending = t.sending /\ u.outbox = t.outbox
  <2> DEFINE n == t.next + 1
             p == [t EXCEPT !.air = air, !.next = n]
  <2>1. n \in Nat /\ u = p
    BY <1>1 DEF Pushed
  <2> HIDE DEF n
  <2>2. p \in Senders /\ p.air = air /\ p.next = n /\ p.sending = t.sending /\ p.outbox = t.outbox
    BY <1>1, <1>6, <2>1 DEF Senders
  <2> QED BY <2>1, <2>2 DEF n
<1>11. v = IF t.next = SizeOf[t.sending] THEN Begun(u) ELSE u
  OBVIOUS
<1> HIDE DEF u
<1>8. Waiting(u) = Waiting(t) /\ Sending(u) = more
  BY <1>7 DEF Waiting, Sending, more
<1>9. CASE t.next = SizeOf[t.sending]
  <2>1. InOrder(s, u.air, Waiting(u))
    BY <1>6, <1>7, <1>8 DEF InOrder
  <2>2. SenderSound(s, Begun(u)) /\ FromSender(Begun(u)) \subseteq Range(u.air) \union Waiting(u)
    BY <1>1, <1>7, <2>1, NextBegun
  <2> QED BY <1>2, <1>6, <1>7, <1>8, <1>9, <1>11, <2>2 DEF FromSender
<1>10. CASE t.next # SizeOf[t.sending]
  <2>1. SendingSound(s, u)
    BY <1>1, <1>7, <1>10 DEF SendingSound
  <2> QED BY <1>1, <1>2, <1>5, <1>6, <1>7, <1>8, <1>10, <1>11, <2>1 DEF SenderSound, FromSender
<1> QED BY <1>9, <1>10

LEMMA SenderIdle ==
  /\ \A s : SenderSound(s, IdleSender) /\ FromSender(IdleSender) = {}
  /\ \A s : WriterSound(s, IdleWriter) /\ FromWriter(IdleWriter) = {}
<1>1. /\ IdleSender \in Senders /\ IdleSender.sending = Silence
      /\ IdleSender.outbox = <<>> /\ IdleSender.air = <<>>
  BY EmptySeq DEF IdleSender, Senders
<1>2. Len(<<>>) = 0 /\ Range(<<>>) = {}
  BY EmptySeq DEF Range
<1>3. Sending(IdleSender) = {} /\ Waiting(IdleSender) = {}
  BY <1>1, <1>2 DEF Sending, Waiting
<1>4. \A s : OutboxSound(s, <<>>)
  BY <1>2 DEF OutboxSound
<1>5. \A s : SenderSound(s, IdleSender) /\ FromSender(IdleSender) = {}
  BY <1>1, <1>2, <1>3, <1>4, NothingOnItsWay DEF SenderSound, SendingSound, FromSender
<1>6. IdleWriter \in [queue : Seq(FrameSet), air : Seq(FrameSet)] /\ IdleWriter.queue = <<>> /\ IdleWriter.air = <<>>
  BY EmptySeq DEF IdleWriter
<1>7. \A s : WriterSound(s, IdleWriter) /\ FromWriter(IdleWriter) = {}
  BY <1>2, <1>6, NothingOnItsWay DEF WriterSound, FromWriter
<1> QED BY <1>5, <1>7

-----------------------------------------------------------------------------
(* The customer's writer.                                                  *)

Writers == [queue : Seq(FrameSet), air : Seq(FrameSet)]

LEMMA FramesOfWord ==
  ASSUME LinkAssumption, NEW s \in Seq(Words), Apart(s), NEW m \in Range(s)
  PROVE  /\ FramesOf(m) \in Seq(FrameSet) /\ Range(FramesOf(m)) = FramesIn(m, 1)
         /\ InOrder(s, FramesOf(m), {}) /\ FramesOf(m) # <<>>
<1>1. m \in Words /\ SizeOf[m] \in Nat \ {0}
  BY Placed DEF LinkAssumption
<1> DEFINE a == FramesOf(m)
           n == SizeOf[m]
<1>2. \A i \in 1 .. n : Frame(m, i) \in FrameSet /\ Frame(m, i).word = m /\ Frame(m, i).index = i
  BY <1>1 DEF Frame, FrameSet
<1>3. a \in [1 .. n -> FrameSet] /\ \A i \in 1 .. n : a[i] = Frame(m, i)
  BY <1>2 DEF FramesOf
<1>4. a \in Seq(FrameSet) /\ Len(a) = n /\ DOMAIN a = 1 .. n
  BY <1>1, <1>3, SeqDef
<1> HIDE DEF a
<1>5. Range(a) = FramesIn(m, 1)
  <2>1. \A i \in 1 .. n : a[i] \in FramesIn(m, 1)
    BY <1>2, <1>3 DEF FramesIn
  <2>2. \A f \in FramesIn(m, 1) : f.index \in 1 .. n /\ f = a[f.index]
    BY <1>3 DEF FramesIn, FrameSet, Frame
  <2> QED BY <1>4, <2>1, <2>2 DEF Range
<1>6. FramesIn(m, 1) \subseteq Frames(s)
  BY DEF FramesIn, Frames
<1>7. \A i, j \in 1 .. Len(a) : i < j => After(s, a[i], a[j])
  BY <1>2, <1>3, <1>4 DEF After
<1>8. a # <<>>
  BY <1>1, <1>4, EmptySeq
<1> QED BY <1>4, <1>5, <1>6, <1>7, <1>8 DEF InOrder, a

LEMMA OneAfterTheOther ==
  ASSUME NEW s, NEW a, NEW b, InOrder(s, a, Range(b)), InOrder(s, b, {})
  PROVE  InOrder(s, a \o b, {}) /\ Range(a \o b) = Range(a) \union Range(b)
<1> DEFINE c == a \o b
<1>1. /\ a \in Seq(FrameSet) /\ b \in Seq(FrameSet) /\ Len(a) \in Nat /\ Len(b) \in Nat
      /\ DOMAIN a = 1 .. Len(a) /\ DOMAIN b = 1 .. Len(b)
  BY LenProperties DEF InOrder
<1>2. /\ c \in Seq(FrameSet) /\ Len(c) = Len(a) + Len(b)
      /\ \A i \in 1 .. Len(a) + Len(b) : c[i] = IF i <= Len(a) THEN a[i] ELSE b[i - Len(a)]
  BY <1>1, ConcatProperties
<1>3. DOMAIN c = 1 .. Len(c)
  BY <1>2, LenProperties
<1> HIDE DEF c
<1>4. \A i \in 1 .. Len(c) : \/ i \in 1 .. Len(a) /\ c[i] = a[i]
                             \/ i > Len(a) /\ i - Len(a) \in 1 .. Len(b) /\ c[i] = b[i - Len(a)]
  BY <1>1, <1>2
<1>5. Range(c) = Range(a) \union Range(b)
  <2>1. \A i \in 1 .. Len(c) : c[i] \in Range(a) \union Range(b)
    BY <1>1, <1>4 DEF Range
  <2>2. \A i \in 1 .. Len(a) : i \in 1 .. Len(c) /\ c[i] = a[i]
    BY <1>1, <1>2
  <2>3. ASSUME NEW i \in 1 .. Len(b) PROVE \E k \in 1 .. Len(c) : c[k] = b[i]
    <3>1. Len(a) + i \in 1 .. Len(c) /\ ~(Len(a) + i <= Len(a)) /\ (Len(a) + i) - Len(a) = i
      BY <1>1, <1>2
    <3>2. c[Len(a) + i] = b[(Len(a) + i) - Len(a)]
      BY <1>2, <3>1
    <3> QED BY <3>1, <3>2
  <2>4. Range(c) \subseteq Range(a) \union Range(b)
    BY <1>3, <2>1 DEF Range
  <2>5. \A x \in Range(a) : x \in Range(c)
    BY <1>1, <1>3, <2>2 DEF Range
  <2>6. \A x \in Range(b) : x \in Range(c)
    BY <1>1, <1>3, <2>3 DEF Range
  <2> QED BY <2>4, <2>5, <2>6
<1>6. ASSUME NEW i \in 1 .. Len(c), NEW j \in 1 .. Len(c), i < j PROVE After(s, c[i], c[j])
  <2>1. CASE j \in 1 .. Len(a)
    <3>1. i \in 1 .. Len(a) /\ c[i] = a[i] /\ c[j] = a[j]
      BY <1>1, <1>2, <1>6, <2>1
    <3> QED BY <1>6, <2>1, <3>1 DEF InOrder
  <2>2. CASE j > Len(a)
    <3>1. j - Len(a) \in 1 .. Len(b) /\ c[j] = b[j - Len(a)] /\ b[j - Len(a)] \in Range(b)
      BY <1>1, <1>4, <2>2 DEF Range
    <3>2. CASE i \in 1 .. Len(a)
      <4>1. c[i] = a[i]
        BY <1>1, <1>2, <3>2
      <4> QED BY <3>1, <3>2, <4>1 DEF InOrder
    <3>3. CASE i > Len(a)
      <4>1. i - Len(a) \in 1 .. Len(b) /\ c[i] = b[i - Len(a)] /\ i - Len(a) < j - Len(a)
        BY <1>1, <1>4, <1>6, <3>3
      <4> QED BY <3>1, <4>1 DEF InOrder
    <3> QED BY <1>1, <1>4, <3>2, <3>3
  <2> QED BY <1>1, <1>4, <2>1, <2>2
<1> QED BY <1>2, <1>5, <1>6 DEF InOrder, c

LEMMA NextIsWritten ==
  ASSUME NEW s, NEW w, WriterSound(s, w)
  PROVE  /\ WriterSound(s, NextWritten(w)) /\ FromWriter(NextWritten(w)) \subseteq FromWriter(w)
         /\ Customer # "android" => FromWriter(NextWritten(w)) = FromWriter(w)
<1>1. w \in Writers
  BY DEF WriterSound, Writers
<1>2. CASE w.queue = <<>>
  BY <1>2 DEF NextWritten
<1>3. CASE w.queue # <<>>
  <2> DEFINE h == Head(w.queue)
             rest == Tail(w.queue)
             air == IF Customer = "android" /\ w.air # <<>> THEN w.air ELSE Append(w.air, h)
             u == [w EXCEPT !.queue = rest, !.air = air]
  <2>1. NextWritten(w) = u
    BY <1>1, <1>3 DEF NextWritten, Writers
  <2>2. /\ InOrder(s, rest, {}) /\ Range(w.queue) = {h} \union Range(rest)
        /\ \A g \in Range(rest) : After(s, h, g)
    BY <1>3, FirstArrives DEF WriterSound
  <2>3. h \in Frames(s) /\ InOrder(s, w.air, Range(w.queue))
    BY <2>2 DEF WriterSound, InOrder
  <2>4. InOrder(s, Append(w.air, h), Range(rest)) /\ Range(Append(w.air, h)) = Range(w.air) \union {h}
    BY <2>2, <2>3, OneMoreSent
  <2>5. InOrder(s, w.air, Range(rest))
    BY <2>2, <2>3 DEF InOrder
  <2>6. InOrder(s, air, Range(rest)) /\ Range(air) \subseteq Range(w.air) \union {h}
        /\ (Customer # "android" => Range(air) = Range(w.air) \union {h})
    BY <2>4, <2>5
  <2> HIDE DEF h, rest, air
  <2>7. rest \in Seq(FrameSet) /\ air \in Seq(FrameSet)
    BY <2>2, <2>6 DEF InOrder
  <2>8. u \in Writers /\ u.queue = rest /\ u.air = air
    BY <1>1, <2>7 DEF Writers
  <2> HIDE DEF u
  <2>9. WriterSound(s, u)
    BY <2>2, <2>6, <2>8 DEF WriterSound, Writers
  <2> QED BY <2>1, <2>2, <2>6, <2>8, <2>9 DEF FromWriter
<1> QED BY <1>2, <1>3

LEMMA OneMoreWritten ==
  ASSUME LinkAssumption, NEW s \in Seq(Words), Apart(s), NEW m \in Words,
         \A n \in Range(s) : KindOf[m] # KindOf[n], NEW w, WriterSound(s, w)
  PROVE  /\ WriterSound(Append(s, m), Written(w, m))
         /\ FromWriter(Written(w, m)) \subseteq FromWriter(w) \union FramesIn(m, 1)
         /\ Customer # "android" => FromWriter(Written(w, m)) = FromWriter(w) \union FramesIn(m, 1)
<1> DEFINE u == Append(s, m)
           q == w.queue \o FramesOf(m)
           r == [w EXCEPT !.queue = q]
<1>1. w \in Writers /\ InOrder(s, w.air, Range(w.queue)) /\ InOrder(s, w.queue, {})
  BY DEF WriterSound, Writers
<1>2. Written(w, m) = IF w.queue = <<>> THEN NextWritten(r) ELSE r
  BY <1>1 DEF Written, Writers
<1>3. u \in Seq(Words) /\ Apart(u) /\ m \in Range(u)
  BY SaidMore
<1>4. /\ FramesOf(m) \in Seq(FrameSet) /\ Range(FramesOf(m)) = FramesIn(m, 1)
      /\ InOrder(u, FramesOf(m), {})
  BY <1>3, FramesOfWord
<1>5. Range(w.queue) \subseteq Frames(s)
  BY <1>1 DEF InOrder
<1>6. InOrder(u, w.queue, FramesIn(m, 1)) /\ InOrder(u, w.air, Range(w.queue) \union FramesIn(m, 1))
  <2>1. \A a, G : InOrder(s, a, G) /\ G \subseteq Frames(s) =>
                    \A H : H \subseteq G \union FramesIn(m, 1) => InOrder(u, a, H)
    BY OrderKept
  <2> HIDE DEF u
  <2>2. InOrder(u, w.queue, FramesIn(m, 1))
    BY <1>1, <2>1
  <2>3. InOrder(u, w.air, Range(w.queue) \union FramesIn(m, 1))
    BY <1>1, <1>5, <2>1
  <2> QED BY <2>2, <2>3
<1> HIDE DEF u
<1>7. InOrder(u, q, {}) /\ Range(q) = Range(w.queue) \union FramesIn(m, 1)
  BY <1>4, <1>6, OneAfterTheOther
<1> HIDE DEF q
<1>8. r \in Writers /\ r.queue = q /\ r.air = w.air
  BY <1>1, <1>7 DEF Writers, InOrder
<1> HIDE DEF r
<1>9. WriterSound(u, r) /\ FromWriter(r) = FromWriter(w) \union FramesIn(m, 1)
  BY <1>6, <1>7, <1>8 DEF WriterSound, Writers, FromWriter
<1>10. /\ WriterSound(u, NextWritten(r)) /\ FromWriter(NextWritten(r)) \subseteq FromWriter(r)
       /\ Customer # "android" => FromWriter(NextWritten(r)) = FromWriter(r)
  BY <1>9, NextIsWritten
<1> QED BY <1>2, <1>9, <1>10 DEF u

-----------------------------------------------------------------------------
(* The link, action by action.                                             *)

LEMMA WireStarts == ASSUME LinkAssumption PROVE PlInit => WireInv
<1> SUFFICES ASSUME PlInit PROVE WireInv
  OBVIOUS
<1>1. \A d \in Directions : said[d] = <<>> /\ received[d] = <<>> /\ pile[d] = NoPile
  BY DEF PlInit
<1>2. "down" \in Directions /\ "up" \in Directions /\ tx = IdleSender /\ wr = IdleWriter
  BY DEF PlInit, Directions
<1>3. <<>> \in Seq(Words) /\ <<>> \in Seq(Seq(Words))
  BY EmptySeq
<1>4. SaidSound
  BY <1>1, <1>2, <1>3, NothingSaid DEF SaidSound, PlInit
<1>5. HeardSound
  BY <1>1, <1>2, <1>3, NothingSaid, EmptyPile, SenderIdle DEF HeardSound, PlInit
<1> QED BY <1>1, <1>2, <1>4, <1>5, SenderIdle DEF WireInv

LEMMA WireRests ==
  ASSUME WireInv, UNCHANGED wireVars, link' = link \/ (link # "open" /\ link' # "open"), attached' => attached
  PROVE  WireInv'
  BY DEF WireInv, SaidSound, HeardSound, wireVars

\* Both ends forget the encounter.
LEMMA WireParts == ASSUME LinkAssumption, Parted PROVE WireInv'
<1>1. \A d \in Directions : said'[d] = <<>> /\ received'[d] = <<>> /\ pile'[d] = NoPile
  BY DEF Parted
<1>2. "down" \in Directions /\ "up" \in Directions /\ tx' = IdleSender /\ wr' = IdleWriter
  BY DEF Parted, Directions
<1>3. <<>> \in Seq(Words) /\ <<>> \in Seq(Seq(Words))
  BY EmptySeq
<1>4. SaidSound'
  BY <1>1, <1>2, <1>3, NothingSaid DEF SaidSound, Parted
<1>5. HeardSound'
  BY <1>1, <1>2, <1>3, NothingSaid, EmptyPile, SenderIdle DEF HeardSound, Parted
<1> QED BY <1>1, <1>2, <1>4, <1>5, SenderIdle DEF WireInv

\* The merchant's sender starts afresh, and so does its pile.
LEMMA WireDrops ==
  ASSUME LinkAssumption, WireInv, SenderSound(said["down"], tx'), FromSender(tx') \subseteq FromSender(tx),
         WriterSound(said["up"], wr'), FromWriter(wr') \subseteq FromWriter(wr),
         pile' = [pile EXCEPT !["up"] = NoPile] \/ pile' = pile,
         UNCHANGED <<said, received, link>>, attached' => attached
  PROVE  WireInv'
<1>1. /\ pile' \in [Directions -> Pile] /\ pile'["down"] = pile["down"]
      /\ pile'["up"] = pile["up"] \/ pile'["up"] = NoPile
  BY EmptyPile DEF WireInv, HeardSound, Directions
<1>2. ReceiverSound(said["down"], received["down"], pile'["down"], FromSender(tx'))
  BY <1>1, HearsLess DEF WireInv, HeardSound
<1>3. ReceiverSound(said["up"], received["up"], pile'["up"], FromWriter(wr'))
  BY <1>1, HearsLess DEF WireInv, HeardSound
<1>4. SaidSound'
  BY DEF WireInv, SaidSound
<1> QED BY <1>1, <1>2, <1>3, <1>4 DEF WireInv, HeardSound

LEMMA ServerClosed ==
  ASSUME LinkAssumption, WireInv, NEW b \in BOOLEAN, ServerCloses(b)
  PROVE  WireInv'
<1>1. CASE Parted
  BY <1>1, WireParts
<1>2. CASE ~Parted
  <2>1. /\ attached' = (attached /\ b) /\ tx' = IdleSender /\ pile' = [pile EXCEPT !["up"] = NoPile]
        /\ UNCHANGED <<link, wr, said, received>>
    BY <1>2 DEF ServerCloses
  <2>2. WriterSound(said["up"], wr)
    BY DEF WireInv
  <2> QED BY <2>1, <2>2, WireDrops, SenderIdle
<1> QED BY <1>1, <1>2

LEMMA WireOps == ASSUME LinkAssumption, WireInv, RunOp \/ RadioOn PROVE WireInv'
<1>1. CASE \E b \in BOOLEAN : ServerCloses(b)
  BY <1>1, ServerClosed
<1>2. CASE UNCHANGED <<wireVars, link, attached>>
  BY <1>2, WireRests
<1>3. CASE RadioOn
  BY <1>1, <1>3 DEF RadioOn
<1>4. CASE RunOp
  <2>1. NativeStop => \E b \in BOOLEAN : ServerCloses(b)
    BY DEF NativeStop
  <2>2. \A q : NativeStart(q) => \E b \in BOOLEAN : ServerCloses(b)
    BY DEF NativeStart
  <2>3. \A q : NativeWaits(q) => UNCHANGED <<wireVars, link, attached>>
    BY DEF NativeWaits
  <2> QED BY <1>1, <1>2, <1>4, <2>1, <2>2, <2>3 DEF RunOp, serverVars
<1> QED BY <1>3, <1>4

LEMMA WirePushes == ASSUME LinkAssumption, WireInv, PushFrame PROVE WireInv'
<1> DEFINE air == IF live THEN Append(tx.air, Frame(tx.sending, tx.next)) ELSE tx.air
           u == Pushed(tx, air)
<1>1. /\ tx.sending # Silence /\ tx' = (IF tx.next = SizeOf[tx.sending] THEN Begun(u) ELSE u)
      /\ UNCHANGED <<attached, link, wr, pile, said, received>>
  <2>1. tx \in Senders
    BY DEF WireInv, SenderSound
  <2>2. [tx EXCEPT !.air = IF live THEN Append(@, Frame(tx.sending, tx.next)) ELSE @, !.next = @ + 1] = u
    BY <2>1 DEF Senders, Pushed
  <2> QED BY <2>2 DEF PushFrame, serverVars, clientVars
<1>2. air = tx.air \/ air = Append(tx.air, Frame(tx.sending, tx.next))
  OBVIOUS
<1>3. said["down"] \in Seq(Words) /\ Apart(said["down"]) /\ SenderSound(said["down"], tx) /\ WriterSound(said["up"], wr)
  BY DEF WireInv, SaidSound, Directions
<1> HIDE DEF air
<1>4. SenderSound(said["down"], tx') /\ FromSender(tx') \subseteq FromSender(tx)
  BY <1>1, <1>2, <1>3, FrameSent
<1> QED BY <1>1, <1>3, <1>4, WireDrops

LEMMA WireReleases == ASSUME LinkAssumption, WireInv, MerchantReleases PROVE WireInv'
<1> DEFINE box == <<>>
           u == [tx EXCEPT !.outbox = box, !.sending = Silence]
<1>1. tx \in Senders /\ InOrder(said["down"], tx.air, Sending(tx) \union Waiting(tx)) /\ WriterSound(said["up"], wr)
  BY DEF WireInv, SenderSound
<1>2. u \in Senders /\ u.outbox = box /\ u.sending = Silence /\ u.air = tx.air
  <2>1. box \in Seq(Words)
    BY EmptySeq
  <2> HIDE DEF box
  <2> QED BY <1>1, <2>1 DEF Senders
<1>3. tx' = u /\ pile' = [pile EXCEPT !["up"] = NoPile] /\ UNCHANGED <<attached, link, wr, said, received>>
  BY DEF MerchantReleases, serverVars, clientVars
<1> HIDE DEF u
<1>4. Range(box) = {} /\ Len(box) = 0
  BY EmptySeq DEF Range
<1>5. Sending(u) = {} /\ Waiting(u) = {} /\ OutboxSound(said["down"], u.outbox)
  BY <1>2, <1>4 DEF Sending, Waiting, OutboxSound
<1>6. SenderSound(said["down"], u) /\ FromSender(u) \subseteq FromSender(tx)
  BY <1>1, <1>2, <1>5 DEF SenderSound, SendingSound, InOrder, FromSender
<1> QED BY <1>1, <1>3, <1>6, WireDrops

LEMMA WireFails == ASSUME LinkAssumption, WireInv, WriteFails PROVE WireInv'
<1> DEFINE air == Tail(wr.air)
           queue == <<>>
           u == [wr EXCEPT !.air = air, !.queue = queue]
<1>1. /\ wr \in Writers /\ InOrder(said["up"], wr.air, Range(wr.queue)) /\ wr.air # <<>>
      /\ SenderSound(said["down"], tx)
  BY DEF WireInv, WriterSound, Writers, WriteFails
<1>2. InOrder(said["up"], air, Range(wr.queue)) /\ Range(air) \subseteq Range(wr.air)
  BY <1>1, FirstArrives
<1>3. wr' = u /\ UNCHANGED <<attached, link, tx, pile, said, received>>
  BY <1>1 DEF WriteFails, serverVars, clientVars, Writers
<1>4. InOrder(said["up"], queue, {}) /\ Range(queue) = {}
  BY NothingOnItsWay
<1> HIDE DEF air, queue
<1>5. u \in Writers /\ u.air = air /\ u.queue = queue
  BY <1>1, <1>2, <1>4 DEF Writers, InOrder
<1> HIDE DEF u
<1>6. WriterSound(said["up"], u) /\ FromWriter(u) \subseteq FromWriter(wr)
  BY <1>2, <1>4, <1>5 DEF WriterSound, Writers, FromWriter, InOrder
<1> QED BY <1>1, <1>3, <1>6, WireDrops

LEMMA FrameArrives ==
  ASSUME LinkAssumption, WireInv, NEW d \in Directions, NEW C, NEW f \in C, NEW C2 \in SUBSET C,
         ReceiverSound(said[d], received[d], pile[d], C), \A g \in C2 : After(said[d], f, g), Received(d, f)
  PROVE  /\ ReceiverSound(said[d], received'[d], pile'[d], C2)
         /\ pile' \in [Directions -> Pile] /\ received' \in [Directions -> Seq(Seq(Words))]
         /\ \A e \in Directions \ {d} : pile'[e] = pile[e] /\ received'[e] = received[e]
<1> DEFINE q == Piled(pile[d], f)
           done == Complete(q, f)
           p2 == IF done THEN NoPile ELSE q
           r2 == IF done THEN Append(received[d], q.parts) ELSE received[d]
<1>1. /\ pile \in [Directions -> Pile] /\ received \in [Directions -> Seq(Seq(Words))]
      /\ said[d] \in Seq(Words) /\ Apart(said[d])
  BY DEF WireInv, HeardSound, SaidSound
<1>2. pile' = [pile EXCEPT ![d] = p2] /\ received' = [received EXCEPT ![d] = r2]
  BY <1>1 DEF Received
<1>3. IF done THEN ReceiverSound(said[d], Append(received[d], q.parts), NoPile, C2)
              ELSE ReceiverSound(said[d], received[d], q, C2)
  BY <1>1, FrameHeard
<1>4. ReceiverSound(said[d], r2, p2, C2)
  BY <1>3
<1> HIDE DEF p2, r2
<1>5. p2 \in Pile /\ r2 \in Seq(Seq(Words))
  BY <1>4 DEF ReceiverSound, PileSound, HeardWhole
<1> QED BY <1>1, <1>2, <1>4, <1>5

LEMMA WireNotifies == ASSUME LinkAssumption, WireInv, NotificationArrives PROVE WireInv'
<1> DEFINE air == Tail(tx.air)
           f == Head(tx.air)
           u == [tx EXCEPT !.air = air]
           s == said["down"]
<1>1. tx \in Senders /\ tx.air # <<>> /\ InOrder(s, tx.air, Sending(tx) \union Waiting(tx))
  BY DEF WireInv, SenderSound, NotificationArrives
<1>2. tx' = u /\ UNCHANGED <<attached, link, wr, said>>
  BY <1>1 DEF NotificationArrives, serverVars, clientVars, Senders
<1>3. /\ InOrder(s, air, Sending(tx) \union Waiting(tx)) /\ Range(tx.air) = {f} \union Range(air)
      /\ \A g \in Range(air) \union (Sending(tx) \union Waiting(tx)) : After(s, f, g)
  BY <1>1, FirstArrives
<1>4. (IF link = "open" THEN Received("down", f) ELSE UNCHANGED <<pile, received>>)
  BY DEF NotificationArrives
<1> HIDE DEF air, f
<1>5. /\ u \in Senders /\ u.air = air /\ u.outbox = tx.outbox /\ u.sending = tx.sending
      /\ u.next = tx.next
  BY <1>1, <1>3 DEF Senders, InOrder
<1> HIDE DEF u
<1>6. Sending(u) = Sending(tx) /\ Waiting(u) = Waiting(tx)
  BY <1>5 DEF Sending, Waiting
<1>7. SenderSound(s, u)
  BY <1>3, <1>5, <1>6 DEF WireInv, SenderSound, SendingSound
<1>8. FromSender(u) \subseteq FromSender(tx) /\ f \in FromSender(tx) /\ \A g \in FromSender(u) : After(s, f, g)
  BY <1>3, <1>5, <1>6 DEF FromSender
<1>9. CASE link # "open"
  <2>1. pile' = pile /\ received' = received
    BY <1>4, <1>9
  <2>2. WriterSound(said["up"], wr)
    BY DEF WireInv
  <2> QED BY <1>2, <1>7, <1>8, <2>1, <2>2, WireDrops
<1>10. CASE link = "open"
  <2>1. ReceiverSound(s, received["down"], pile["down"], FromSender(tx)) /\ "down" \in Directions /\ "up" \in Directions
    BY DEF WireInv, HeardSound, Directions
  <2>2. /\ ReceiverSound(s, received'["down"], pile'["down"], FromSender(u))
        /\ pile' \in [Directions -> Pile] /\ received' \in [Directions -> Seq(Seq(Words))]
        /\ \A e \in Directions \ {"down"} : pile'[e] = pile[e] /\ received'[e] = received[e]
    BY <1>4, <1>8, <1>10, <2>1, FrameArrives
  <2>3. HeardSound'
    BY <1>2, <2>1, <2>2 DEF WireInv, HeardSound
  <2> QED BY <1>2, <1>7, <2>3 DEF WireInv, SaidSound
<1> QED BY <1>9, <1>10

LEMMA WireWrites == ASSUME LinkAssumption, WireInv, WriteArrives PROVE WireInv'
<1> DEFINE air == Tail(wr.air)
           f == Head(wr.air)
           u == [wr EXCEPT !.air = air]
           s == said["up"]
<1>1. wr \in Writers /\ wr.air # <<>> /\ InOrder(s, wr.air, Range(wr.queue)) /\ SenderSound(said["down"], tx)
  BY DEF WireInv, WriterSound, WriteArrives, Writers
<1>2. wr' = NextWritten(u) /\ UNCHANGED <<attached, link, tx, said>>
  BY <1>1 DEF WriteArrives, serverVars, clientVars, Writers
<1>3. /\ InOrder(s, air, Range(wr.queue)) /\ Range(wr.air) = {f} \union Range(air)
      /\ \A g \in Range(air) \union Range(wr.queue) : After(s, f, g)
  BY <1>1, FirstArrives
<1>4. (IF live THEN Received("up", f) ELSE UNCHANGED <<pile, received>>)
  BY DEF WriteArrives
<1> HIDE DEF air, f
<1>5. u \in Writers /\ u.air = air /\ u.queue = wr.queue
  BY <1>1, <1>3 DEF Writers, InOrder
<1> HIDE DEF u
<1>6. WriterSound(s, u)
  BY <1>3, <1>5 DEF WireInv, WriterSound, Writers
<1>7. WriterSound(s, wr') /\ FromWriter(wr') \subseteq FromWriter(u)
  BY <1>2, <1>6, NextIsWritten
<1>8. FromWriter(wr') \subseteq FromWriter(wr) /\ f \in FromWriter(wr) /\ \A g \in FromWriter(wr') : After(s, f, g)
  BY <1>3, <1>5, <1>7 DEF FromWriter
<1>9. CASE ~live
  <2>1. pile' = pile /\ received' = received
    BY <1>4, <1>9
  <2> QED BY <1>1, <1>2, <1>7, <1>8, <2>1, WireDrops
<1>10. CASE live
  <2>1. ReceiverSound(s, received["up"], pile["up"], FromWriter(wr)) /\ "down" \in Directions /\ "up" \in Directions
    BY DEF WireInv, HeardSound, Directions
  <2>2. /\ ReceiverSound(s, received'["up"], pile'["up"], FromWriter(wr'))
        /\ pile' \in [Directions -> Pile] /\ received' \in [Directions -> Seq(Seq(Words))]
        /\ \A e \in Directions \ {"up"} : pile'[e] = pile[e] /\ received'[e] = received[e]
    BY <1>4, <1>8, <1>10, <2>1, FrameArrives
  <2>3. HeardSound'
    BY <1>2, <2>1, <2>2 DEF WireInv, HeardSound
  <2> QED BY <1>1, <1>2, <1>7, <2>3 DEF WireInv, SaidSound
<1> QED BY <1>9, <1>10

\* The merchant says another message, or greets with its request.
LEMMA DownSaid ==
  ASSUME LinkAssumption, WireInv, NEW m \in Broadcasts \union MerchantWords,
         \A n \in Range(said["down"]) : KindOf[m] # KindOf[n],
         tx' = Enqueued(tx, m), said' = [said EXCEPT !["down"] = Append(@, m)],
         UNCHANGED <<wr, pile, received>>, link' = "open"
  PROVE  WireInv'
<1> DEFINE s == said["down"]
           u == Append(s, m)
<1>1. /\ s \in Seq(Words) /\ Apart(s) /\ m \in Words /\ SenderSound(s, tx) /\ "down" \in Directions
      /\ "up" \in Directions /\ said \in [Directions -> Seq(Words)]
      /\ ReceiverSound(s, received["down"], pile["down"], FromSender(tx))
  BY DEF WireInv, SaidSound, HeardSound, Directions, Words
<1>2. said'["down"] = u /\ said'["up"] = said["up"]
  BY <1>1
<1>3. /\ SenderSound(u, tx') /\ FromSender(tx') \subseteq FromSender(tx) \union FramesIn(m, 1)
  BY <1>1, OneMoreWaits
<1>4. ReceiverSound(u, received["down"], pile["down"], FromSender(tx'))
  BY <1>1, <1>3, HearsSaid
<1>5. u \in Seq(Words) /\ Apart(u) /\ Range(u) = Range(s) \union {m}
  BY <1>1, SaidMore
<1> HIDE DEF u
<1>6. said' \in [Directions -> Seq(Words)] /\ \A d \in Directions : Apart(said'[d])
  BY <1>1, <1>2, <1>5 DEF WireInv, SaidSound, Directions
<1>7. SaidSound'
  BY <1>2, <1>5, <1>6 DEF WireInv, SaidSound
<1>8. HeardSound'
  BY <1>2, <1>4 DEF WireInv, HeardSound
<1> QED BY <1>2, <1>3, <1>7, <1>8 DEF WireInv

LEMMA UpSaid ==
  ASSUME LinkAssumption, OneOfAKind, WireInv, NEW m \in CustomerWords, CustomerSays(m)
  PROVE  WireInv'
<1> DEFINE s == said["up"]
           u == Append(s, m)
<1>1. /\ s \in Seq(Words) /\ Apart(s) /\ m \in Words /\ WriterSound(s, wr) /\ "down" \in Directions
      /\ "up" \in Directions /\ said \in [Directions -> Seq(Words)] /\ DOMAIN s = 1 .. Len(s)
      /\ ReceiverSound(s, received["up"], pile["up"], FromWriter(wr))
  BY LenProperties DEF WireInv, SaidSound, HeardSound, Directions, Words
<1>2. /\ wr' = Written(wr, m) /\ said' = [said EXCEPT !["up"] = u] /\ link = "open"
      /\ UNCHANGED <<tx, pile, received, link, attached>>
  BY DEF CustomerSays, serverVars, clientVars
<1>3. \A n \in Range(s) : KindOf[m] # KindOf[n]
  BY <1>1 DEF CustomerSays, OneOfAKind, WireInv, SaidSound, Range
<1>4. said'["up"] = u /\ said'["down"] = said["down"]
  BY <1>1, <1>2
<1>5. WriterSound(u, wr') /\ FromWriter(wr') \subseteq FromWriter(wr) \union FramesIn(m, 1)
  BY <1>1, <1>2, <1>3, OneMoreWritten
<1>6. ReceiverSound(u, received["up"], pile["up"], FromWriter(wr'))
  BY <1>1, <1>3, <1>5, HearsSaid
<1>7. u \in Seq(Words) /\ Apart(u) /\ Range(u) = Range(s) \union {m}
  BY <1>1, <1>3, SaidMore
<1> HIDE DEF u
<1>8. said' \in [Directions -> Seq(Words)] /\ \A d \in Directions : Apart(said'[d])
  BY <1>1, <1>2, <1>4, <1>7 DEF WireInv, SaidSound, Directions
<1>9. SaidSound'
  BY <1>2, <1>4, <1>7, <1>8 DEF WireInv, SaidSound
<1>10. HeardSound'
  BY <1>2, <1>4, <1>6 DEF WireInv, HeardSound
<1> QED BY <1>2, <1>4, <1>5, <1>9, <1>10 DEF WireInv

LEMMA WireSays ==
  ASSUME LinkAssumption, OneOfAKind, WireInv, NEW m \in MerchantWords, MerchantSays(m)
  PROVE  WireInv'
<1>1. /\ said["down"] \in Seq(Words) /\ DOMAIN said["down"] = 1 .. Len(said["down"])
      /\ Range(said["down"]) \subseteq Broadcasts \union MerchantWords
  BY LenProperties DEF WireInv, SaidSound, Directions
<1>2. \A n \in Range(said["down"]) : KindOf[m] # KindOf[n]
  BY <1>1 DEF MerchantSays, OneOfAKind, Range
<1>3. link = "open"
  BY DEF WireInv, SaidSound, MerchantSays
<1> QED BY <1>2, <1>3, DownSaid DEF MerchantSays, clientVars

LEMMA WireGreets == ASSUME LinkAssumption, HookTypes, WireInv, Subscribe PROVE WireInv'
<1>1. said["down"] = <<>> /\ link' = "open" /\ UNCHANGED <<wr, pile, received>> /\ ~attached
  BY DEF Subscribe, WireInv, SaidSound, Directions
<1>2. CASE broadcast = Silence
  BY <1>1, <1>2 DEF Subscribe, Greets, WireInv, SaidSound, HeardSound
<1>3. CASE broadcast # Silence
  <2>1. broadcast \in Broadcasts \union MerchantWords
    BY <1>3 DEF HookTypes, Offered
  <2>2. \A n \in Range(said["down"]) : KindOf[broadcast] # KindOf[n]
    BY <1>1, NothingSaid
  <2> QED BY <1>1, <1>3, <2>1, <2>2, DownSaid DEF Subscribe, Greets
<1> QED BY <1>2, <1>3

LEMMA WireStep == ASSUME LinkAssumption, OneOfAKind, HookTypes, WireInv, [PlNext]_plVars PROVE WireInv'
<1>1. CASE RunOp \/ RadioOn
  BY <1>1, WireOps
<1>2. CASE PushFrame \/ NotificationArrives \/ MerchantReleases \/ WriteArrives \/ WriteFails \/ Subscribe
  BY <1>2, WirePushes, WireNotifies, WireReleases, WireWrites, WireFails, WireGreets
<1>3. ASSUME NEW m \in MerchantWords, MerchantSays(m) PROVE WireInv'
  BY <1>3, WireSays
<1>4. ASSUME NEW m \in CustomerWords, CustomerSays(m) PROVE WireInv'
  BY <1>4, UpSaid
<1>5. ASSUME NEW q, OfferRequest(q) PROVE WireInv'
  BY <1>5, WireRests DEF OfferRequest, serverVars, clientVars
<1>6. CASE StartScanning \/ Connect \/ Hold
  BY <1>6, WireRests DEF StartScanning, Connect, Near, Hold, serverVars
<1>7. CASE StopScanning \/ Disconnect \/ CustomerReleases
  <2>1. Parted \/ UNCHANGED <<link, attached, wireVars>>
    BY <1>7 DEF StopScanning, Disconnect, CustomerReleases
  <2> QED BY <2>1, WireParts, WireRests
<1>8. CASE UNCHANGED plVars
  BY <1>8, WireRests DEF plVars, serverVars, clientVars
<1> QED BY <1>1, <1>2, <1>3, <1>4, <1>5, <1>6, <1>7, <1>8 DEF PlNext

\* What is heard is told in the order it was said.
LEMMA InTheOrderSaid == ASSUME LinkAssumption PROVE WireInv => HeardInOrder
<1> SUFFICES ASSUME WireInv, NEW d \in Directions
             PROVE  \E at \in [DOMAIN received[d] -> DOMAIN said[d]] :
                      /\ \A i \in DOMAIN received[d] : Whole(received[d][i], said[d][at[i]])
                      /\ \A i, j \in DOMAIN received[d] : i < j => at[i] < at[j]
  BY DEF HeardInOrder
<1> DEFINE s == said[d]
           r == received[d]
<1>1. s \in Seq(Words) /\ Apart(s) /\ HeardWhole(s, r)
  BY DEF WireInv, SaidSound, HeardSound, ReceiverSound, Directions
<1>2. DOMAIN s = 1 .. Len(s) /\ DOMAIN r = 1 .. Len(r)
  BY <1>1, LenProperties DEF HeardWhole
<1> DEFINE at == [i \in DOMAIN r |-> Place(s, r[i][1])]
<1>3. ASSUME NEW i \in DOMAIN r PROVE at[i] \in DOMAIN s /\ Whole(r[i], s[at[i]])
  <2>1. PICK m \in Range(s) : Whole(r[i], m)
    BY <1>1, <1>2 DEF HeardWhole
  <2>2. m \in Words /\ SizeOf[m] \in Nat \ {0} /\ Place(s, m) \in 1 .. Len(s) /\ s[Place(s, m)] = m
    BY <1>1, Placed DEF LinkAssumption
  <2>3. r[i][1] = m
    BY <2>1, <2>2 DEF Whole
  <2> QED BY <1>2, <2>1, <2>2, <2>3
<1>4. \A i, j \in DOMAIN r : i < j => at[i] < at[j]
  BY <1>1, <1>2 DEF HeardWhole
<1>5. at \in [DOMAIN r -> DOMAIN s]
  BY <1>3
<1> QED BY <1>3, <1>4, <1>5

\* Each phone is told whole messages of the other, in the order they were said,
\* whatever frames, messages or links were lost on either platform -- as long as
\* a kind names one message of a link.
THEOREM HearsInOrder == ASSUME LinkAssumption, OneOfAKind PROVE PlSpec => []HeardInOrder
<1>1. PlInit => HookInv /\ WireInv
  BY HookStarts, WireStarts
<1>2. HookInv /\ WireInv /\ [PlNext]_plVars => (HookInv /\ WireInv)'
  BY HookStep, WireStep DEF HookInv
<1>3. HookInv /\ WireInv => HeardInOrder
  BY InTheOrderSaid
<1> QED BY <1>1, <1>2, <1>3, PTL DEF PlSpec

-----------------------------------------------------------------------------
(* Answers.                                                                *)

\* A pile that holds every frame of a message would have been a message.
LEMMA PileIsPart ==
  ASSUME NEW s \in Seq(Words), Apart(s), NEW p, PileSound(s, p), NEW m \in Range(s),
         SizeOf[m] \in Nat \ {0}
  PROVE  ~(FramesIn(m, 1) \subseteq OnPile(p))
<1> SUFFICES ASSUME FramesIn(m, 1) \subseteq OnPile(p) PROVE FALSE
  OBVIOUS
<1>1. m \in Words
  BY Placed
<1>2. ASSUME NEW k \in 1 .. SizeOf[m] PROVE k \in DOMAIN p.parts /\ p.parts[k] = m
  <2>1. Frame(m, k) \in FramesIn(m, 1)
    BY <1>1 DEF FramesIn, FrameSet, Frame
  <2> QED BY <2>1 DEF OnPile, Frame
<1>3. 1 \in DOMAIN p.parts /\ p.parts[1] = m
  BY <1>2
<1>4. ASSUME NEW k \in DOMAIN p.parts PROVE k \in 1 .. SizeOf[m]
  <2>1. Frame(p.parts[k], k) \in Frames(s) /\ KindOf[p.parts[k]] = KindOf[m]
    BY <1>3 DEF PileSound, OnPile
  <2>2. p.parts[k] \in Range(s) /\ k \in 1 .. SizeOf[p.parts[k]]
    BY <2>1 DEF Frames, Frame
  <2>3. p.parts[k] = m
    BY <2>1, <2>2, OneWord
  <2> QED BY <2>2, <2>3
<1>5. DOMAIN p.parts = 1 .. SizeOf[m]
  BY <1>2, <1>4
<1> QED BY <1>3, <1>5 DEF PileSound

LEMMA HeardAreSaid ==
  ASSUME LinkAssumption, NEW s \in Seq(Words), Apart(s), NEW r, HeardWhole(s, r), NEW p, NEW C, AllThere(s, r, p, C)
  PROVE  /\ Len(r) \in Nat /\ Len(s) \in Nat /\ Len(r) <= Len(s)
         /\ \A i \in 1 .. Len(r) : r[i][1] \in Range(s) /\ Place(s, r[i][1]) = i
<1>1. Len(r) \in Nat /\ Len(s) \in Nat
  BY LenProperties DEF HeardWhole
<1>2. ASSUME NEW i \in 1 .. Len(r) PROVE r[i][1] \in Range(s) /\ Place(s, r[i][1]) = i /\ i <= Len(s)
  <2>1. PICK m \in Range(s) : Whole(r[i], m)
    BY DEF HeardWhole
  <2>2. m \in Words /\ SizeOf[m] \in Nat \ {0}
    BY Placed DEF LinkAssumption
  <2>3. r[i][1] = m
    BY <2>1, <2>2 DEF Whole
  <2>4. Place(s, m) = i /\ Place(s, m) \in 1 .. Len(s)
    BY <2>3, Placed DEF AllThere
  <2> QED BY <2>3, <2>4
<1>3. Len(r) <= Len(s)
  BY <1>1, <1>2
<1> QED BY <1>1, <1>2, <1>3

LEMMA AllHeard ==
  ASSUME LinkAssumption, NEW s \in Seq(Words), Apart(s), NEW r, NEW p, ReceiverSound(s, r, p, {}),
         AllThere(s, r, p, {})
  PROVE  Len(r) = Len(s)
<1>1. Len(r) \in Nat /\ Len(s) \in Nat /\ Len(r) <= Len(s)
  BY HeardAreSaid DEF ReceiverSound
<1> SUFFICES ASSUME Len(r) < Len(s) PROVE FALSE
  BY <1>1
<1> DEFINE j == Len(r) + 1
<1>2. j \in Len(r) + 1 .. Len(s) /\ j \in 1 .. Len(s) /\ DOMAIN s = 1 .. Len(s)
  BY <1>1, LenProperties
<1>3. s[j] \in Range(s) /\ s[j] \in Words
  BY <1>2, Placed DEF Range
<1>4. FramesIn(s[j], 1) \subseteq OnPile(p)
  BY <1>2 DEF AllThere
<1> QED BY <1>3, <1>4, PileIsPart DEF ReceiverSound, LinkAssumption

\* The next frame is of the first message not yet heard, whose other frames are
\* on the pile or to come.
LEMMA FirstUnheard ==
  ASSUME LinkAssumption, NEW s \in Seq(Words), Apart(s), NEW r, NEW p, NEW C, ReceiverSound(s, r, p, C),
         AllThere(s, r, p, C), NEW f \in C, \A g \in C : g = f \/ After(s, f, g)
  PROVE  Place(s, f.word) = Len(r) + 1
<1>1. /\ Len(r) \in Nat /\ Len(s) \in Nat /\ Len(r) <= Len(s)
      /\ \A i \in 1 .. Len(r) : Place(s, r[i][1]) = i
  BY HeardAreSaid DEF ReceiverSound
<1>2. f \in Frames(s) /\ f.word \in Range(s) /\ Place(s, f.word) \in 1 .. Len(s)
  BY Placed DEF ReceiverSound, Frames
<1>3. Place(s, f.word) > Len(r)
  <2>1. \A i \in 1 .. Len(r) : i < Place(s, f.word)
    BY <1>1 DEF ReceiverSound
  <2> QED BY <1>1, <1>2, <2>1
<1> SUFFICES ASSUME Place(s, f.word) > Len(r) + 1 PROVE FALSE
  BY <1>1, <1>2, <1>3
<1> DEFINE j == Len(r) + 1
<1>4. j \in Len(r) + 1 .. Len(s) /\ j \in 1 .. Len(s) /\ DOMAIN s = 1 .. Len(s)
  BY <1>1, <1>2, LenProperties
<1>5. s[j] \in Range(s) /\ s[j] \in Words /\ Place(s, s[j]) = j
  <2>1. s[j] \in Range(s)
    BY <1>4 DEF Range
  <2> QED BY <1>4, <2>1, Placed
<1>6. FramesIn(s[j], 1) \subseteq C \union OnPile(p)
  BY <1>4 DEF AllThere
<1>7. ASSUME NEW g \in FramesIn(s[j], 1) PROVE g \notin C
  <2> SUFFICES ASSUME g \in C PROVE FALSE
    OBVIOUS
  <2>1. g.word = s[j] /\ Place(s, g.word) = j
    BY <1>5 DEF FramesIn
  <2>2. g = f \/ Place(s, f.word) < Place(s, g.word) \/ f.word = g.word
    BY DEF After
  <2> QED BY <1>1, <1>2, <2>1, <2>2
<1>8. FramesIn(s[j], 1) \subseteq OnPile(p)
  BY <1>6, <1>7
<1> QED BY <1>5, <1>8, PileIsPart DEF ReceiverSound, LinkAssumption

LEMMA StillThere ==
  ASSUME LinkAssumption, NEW s \in Seq(Words), Apart(s), NEW r, NEW p, NEW C, ReceiverSound(s, r, p, C),
         AllThere(s, r, p, C), NEW f \in C, NEW C2, C = {f} \union C2, \A g \in C2 : After(s, f, g)
  PROVE  IF Complete(Piled(p, f), f) THEN AllThere(s, Append(r, Piled(p, f).parts), NoPile, C2)
                                     ELSE AllThere(s, r, Piled(p, f), C2)
<1> DEFINE w == f.word
           D == Taken(p, f) \union {f.index}
           q == Piled(p, f)
           L == Len(r)
<1>1. /\ f \in Frames(s) /\ w \in Range(s) /\ w \in Words /\ f.index \in 1 .. SizeOf[w]
      /\ f \in FrameSet /\ SizeOf[w] \in Nat \ {0}
  BY DEF ReceiverSound, Frames, FrameSet, LinkAssumption
<1>2. /\ Len(r) \in Nat /\ Len(s) \in Nat /\ Len(r) <= Len(s)
      /\ \A i \in 1 .. Len(r) : Place(s, r[i][1]) = i
  BY HeardAreSaid DEF ReceiverSound
<1>3. Place(s, w) = L + 1 /\ L + 1 \in 1 .. Len(s) /\ s[L + 1] = w
  <2>1. Place(s, w) = L + 1
    BY FirstUnheard
  <2> QED BY <1>1, <2>1, Placed
<1>4. /\ Taken(p, f) \subseteq 1 .. f.index - 1 /\ q = Laid(p, f)
      /\ \A k \in Taken(p, f) : Frame(w, k) \in OnPile(p)
  BY OwnPile
<1>5. q.kind = KindOf[w] /\ q.parts = [i \in D |-> w] /\ DOMAIN q.parts = D
  BY <1>4 DEF Laid
<1>6. OnPile(q) = {Frame(w, k) : k \in D}
  BY <1>5 DEF OnPile
<1>7. Complete(q, f) <=> D = 1 .. SizeOf[w]
  <2>1. D \subseteq 1 .. SizeOf[w]
    BY <1>1, <1>4
  <2> QED BY <1>1, <1>5, <2>1, FullPile DEF Complete
<1>8. ASSUME NEW j \in L + 2 .. Len(s) PROVE FramesIn(s[j], 1) \subseteq C2
  <2>1. j \in 1 .. Len(s) /\ j \in L + 1 .. Len(s) /\ DOMAIN s = 1 .. Len(s)
    BY <1>2, LenProperties
  <2>2. s[j] \in Range(s)
    BY <2>1 DEF Range
  <2>3. Place(s, s[j]) = j
    BY <2>1, <2>2, Placed
  <2>4. FramesIn(s[j], 1) \subseteq C \union OnPile(p)
    BY <2>1 DEF AllThere
  <2>5. ASSUME NEW g \in FramesIn(s[j], 1) PROVE g \notin OnPile(p) /\ g # f
    <3>1. g.word = s[j]
      BY DEF FramesIn
    <3>2. g # f
      BY <1>2, <1>3, <2>3, <3>1
    <3>3. g \in OnPile(p) => After(s, g, f)
      BY DEF ReceiverSound
    <3>4. ~After(s, g, f)
      BY <1>2, <1>3, <2>3, <3>1 DEF After
    <3> QED BY <3>2, <3>3, <3>4
  <2> QED BY <2>4, <2>5
<1>9. FramesIn(w, 1) \subseteq C2 \union OnPile(q)
  <2>1. FramesIn(w, 1) \subseteq C \union OnPile(p)
    <3>1. L + 1 \in L + 1 .. Len(s)
      BY <1>2, <1>3
    <3> QED BY <1>3, <3>1 DEF AllThere
  <2>2. f \in OnPile(q)
    <3>1. f = Frame(w, f.index)
      BY <1>1 DEF Frame, FrameSet
    <3> QED BY <1>6, <3>1
  <2>3. ASSUME NEW g \in FramesIn(w, 1), g \in OnPile(p) PROVE g \in OnPile(q)
    <3>1. PICK k \in DOMAIN p.parts : g = Frame(p.parts[k], k)
      BY <2>3 DEF OnPile
    <3>2. p.parts[k] = w
      BY <3>1 DEF FramesIn, Frame
    <3>3. p.kind = KindOf[w]
      BY <3>2 DEF ReceiverSound, PileSound
    <3>4. k \in D
      BY <3>1, <3>3 DEF Taken
    <3> QED BY <1>6, <3>1, <3>2, <3>4
  <2> QED BY <2>1, <2>2, <2>3
<1>10. CASE D # 1 .. SizeOf[w]
  <2>1. ASSUME NEW j \in L + 1 .. Len(s) PROVE FramesIn(s[j], 1) \subseteq C2 \union OnPile(q)
    <3>1. CASE j = L + 1
      BY <1>3, <1>9, <3>1
    <3>2. CASE j \in L + 2 .. Len(s)
      BY <1>8, <3>2
    <3> QED BY <1>2, <3>1, <3>2
  <2>2. AllThere(s, r, q, C2)
    BY <1>2, <2>1 DEF AllThere
  <2> QED BY <1>7, <1>10, <2>2
<1>11. CASE D = 1 .. SizeOf[w]
  <2>1. q.parts \in Seq(Words) /\ q.parts[1] = w
    <3>1. q.parts \in [1 .. SizeOf[w] -> Words] /\ q.parts[1] = w
      BY <1>1, <1>5, <1>11
    <3> QED BY <1>1, <3>1, SeqDef
  <2> DEFINE x == q.parts
             t == Append(r, x)
  <2>2. x \in Seq(Words) /\ x[1] = w /\ r \in Seq(Seq(Words))
    BY <2>1 DEF ReceiverSound, HeardWhole
  <2> HIDE DEF x, q, D
  <2>3. /\ Len(t) = Len(r) + 1 /\ t[Len(r) + 1] = x
        /\ \A i \in 1 .. Len(r) : t[i] = r[i]
    BY <2>2, AppendProperties
  <2> HIDE DEF t
  <2>4. ASSUME NEW i \in 1 .. Len(t) PROVE Place(s, t[i][1]) = i
    <3>1. i \in 1 .. Len(r) \/ i = Len(r) + 1
      BY <1>2, <2>3
    <3> QED BY <1>2, <1>3, <2>2, <2>3, <3>1
  <2>5. ASSUME NEW j \in Len(t) + 1 .. Len(s) PROVE FramesIn(s[j], 1) \subseteq C2 \union OnPile(NoPile)
    <3>1. j \in L + 2 .. Len(s)
      BY <1>2, <2>3
    <3> QED BY <1>8, <3>1
  <2>6. AllThere(s, t, NoPile, C2)
    BY <2>4, <2>5 DEF AllThere
  <2> QED BY <1>7, <1>11, <2>6 DEF t, x, q
<1> QED BY <1>10, <1>11

LEMMA SaidIsThere ==
  ASSUME LinkAssumption, NEW s \in Seq(Words), Apart(s), NEW m \in Words,
         \A n \in Range(s) : KindOf[m] # KindOf[n],
         NEW r, NEW p, NEW C, HeardWhole(s, r), AllThere(s, r, p, C)
  PROVE  AllThere(Append(s, m), r, p, C \union FramesIn(m, 1))
<1> DEFINE t == Append(s, m)
<1>1. /\ Len(t) = Len(s) + 1 /\ t[Len(s) + 1] = m /\ \A i \in 1 .. Len(s) : t[i] = s[i]
      /\ \A n \in Range(s) : Place(t, n) = Place(s, n)
  BY SaidMore, AppendProperties
<1>2. /\ Len(r) \in Nat /\ Len(s) \in Nat /\ Len(r) <= Len(s)
      /\ \A i \in 1 .. Len(r) : r[i][1] \in Range(s) /\ Place(s, r[i][1]) = i
  BY HeardAreSaid
<1> HIDE DEF t
<1>3. \A i \in 1 .. Len(r) : Place(t, r[i][1]) = i
  BY <1>1, <1>2
<1>4. ASSUME NEW j \in Len(r) + 1 .. Len(t) PROVE FramesIn(t[j], 1) \subseteq (C \union FramesIn(m, 1)) \union OnPile(p)
  <2>1. CASE j = Len(s) + 1
    BY <1>1, <2>1
  <2>2. CASE j \in Len(r) + 1 .. Len(s)
    <3>1. t[j] = s[j]
      BY <1>1, <1>2, <2>2
    <3> QED BY <2>2, <3>1 DEF AllThere
  <2> QED BY <1>1, <1>2, <2>1, <2>2
<1> QED BY <1>3, <1>4 DEF AllThere, t

OnAWorkingLink == Customer = "ios" /\ link = "open" /\ live /\ upsets = 0

\* Nothing happens to what the customer has said.
LEMMA AnswersRest ==
  ASSUME AnswersInv, UNCHANGED <<said["up"], received["up"], pile["up"], wr>>, OnAWorkingLink' => OnAWorkingLink
  PROVE  AnswersInv'
  BY DEF AnswersInv, OnAWorkingLink, AllThere

LEMMA AnswersBreak == ~OnAWorkingLink' => AnswersInv'
  BY DEF AnswersInv, OnAWorkingLink

LEMMA AnswerArrives ==
  ASSUME LinkAssumption, WireInv, AnswersInv, WriteArrives
  PROVE  AnswersInv'
<1> DEFINE air == Tail(wr.air)
           f == Head(wr.air)
           u == [wr EXCEPT !.air = air]
           s == said["up"]
<1> SUFFICES ASSUME OnAWorkingLink' PROVE AnswersInv'
  BY AnswersBreak
<1>1. wr \in Writers /\ wr.air # <<>> /\ InOrder(s, wr.air, Range(wr.queue))
  BY DEF WireInv, WriterSound, WriteArrives, Writers
<1>2. wr' = NextWritten(u) /\ UNCHANGED <<said, link, live, os, upsets>>
  BY <1>1 DEF WriteArrives, serverVars, clientVars, Writers
<1>3. OnAWorkingLink
  BY <1>2 DEF OnAWorkingLink, Customer
<1>4. /\ InOrder(s, air, Range(wr.queue)) /\ Range(wr.air) = {f} \union Range(air)
      /\ \A g \in Range(air) \union Range(wr.queue) : After(s, f, g)
  BY <1>1, FirstArrives
<1>5. Received("up", f)
  BY <1>3 DEF WriteArrives, OnAWorkingLink
<1> HIDE DEF air, f
<1>6. u \in Writers /\ u.air = air /\ u.queue = wr.queue
  BY <1>1, <1>4 DEF Writers, InOrder
<1> HIDE DEF u
<1>7. WriterSound(s, u)
  BY <1>4, <1>6 DEF WireInv, WriterSound, Writers
<1>8. FromWriter(wr') = FromWriter(u)
  BY <1>2, <1>3, <1>7, NextIsWritten DEF OnAWorkingLink
<1>9. FromWriter(wr) = {f} \union FromWriter(wr') /\ \A g \in FromWriter(wr') : After(s, f, g)
  BY <1>4, <1>6, <1>8 DEF FromWriter
<1> DEFINE r == received["up"]
           p == pile["up"]
<1>10. /\ ReceiverSound(s, r, p, FromWriter(wr)) /\ AllThere(s, r, p, FromWriter(wr))
       /\ s \in Seq(Words) /\ Apart(s)
       /\ pile \in [Directions -> Pile] /\ received \in [Directions -> Seq(Seq(Words))] /\ "up" \in Directions
  BY <1>3 DEF WireInv, HeardSound, SaidSound, AnswersInv, OnAWorkingLink, Directions
<1>11. IF Complete(Piled(p, f), f) THEN AllThere(s, Append(r, Piled(p, f).parts), NoPile, FromWriter(wr'))
                                   ELSE AllThere(s, r, Piled(p, f), FromWriter(wr'))
  <2> HIDE DEF s, r, p
  <2>1. f \in FromWriter(wr)
    BY <1>9
  <2> QED BY <1>9, <1>10, <2>1, StillThere
<1>12. /\ received'["up"] = (IF Complete(Piled(p, f), f) THEN Append(r, Piled(p, f).parts) ELSE r)
       /\ pile'["up"] = (IF Complete(Piled(p, f), f) THEN NoPile ELSE Piled(p, f))
  BY <1>5, <1>10 DEF Received
<1>13. AllThere(said'["up"], received'["up"], pile'["up"], FromWriter(wr'))
  BY <1>2, <1>11, <1>12
<1> QED BY <1>13 DEF AnswersInv, AllThere

LEMMA AnswerSaid ==
  ASSUME LinkAssumption, OneOfAKind, WireInv, AnswersInv, NEW m \in CustomerWords, CustomerSays(m)
  PROVE  AnswersInv'
<1> DEFINE s == said["up"]
<1> SUFFICES ASSUME OnAWorkingLink' PROVE AnswersInv'
  BY AnswersBreak
<1>1. /\ s \in Seq(Words) /\ Apart(s) /\ m \in Words /\ WriterSound(s, wr) /\ "up" \in Directions
      /\ said \in [Directions -> Seq(Words)] /\ DOMAIN s = 1 .. Len(s)
      /\ HeardWhole(s, received["up"])
  BY LenProperties DEF WireInv, SaidSound, HeardSound, ReceiverSound, Directions, Words
<1>2. /\ wr' = Written(wr, m) /\ said'["up"] = Append(s, m)
      /\ UNCHANGED <<pile, received, link, live, os, upsets>>
  BY <1>1 DEF CustomerSays, serverVars, clientVars
<1>3. \A n \in Range(s) : KindOf[m] # KindOf[n]
  BY <1>1 DEF CustomerSays, OneOfAKind, WireInv, SaidSound, Range
<1>4. OnAWorkingLink
  BY <1>2 DEF OnAWorkingLink, Customer
<1>5. AllThere(s, received["up"], pile["up"], FromWriter(wr))
  BY <1>4 DEF AnswersInv, OnAWorkingLink
<1>6. FromWriter(wr') = FromWriter(wr) \union FramesIn(m, 1)
  BY <1>1, <1>2, <1>3, <1>4, OneMoreWritten DEF OnAWorkingLink
<1>7. AllThere(Append(s, m), received["up"], pile["up"], FromWriter(wr) \union FramesIn(m, 1))
  <2> HIDE DEF s
  <2> QED BY <1>1, <1>3, <1>5, SaidIsThere
<1>8. AllThere(said'["up"], received'["up"], pile'["up"], FromWriter(wr'))
  BY <1>2, <1>6, <1>7
<1> QED BY <1>8 DEF AnswersInv, AllThere

LEMMA NewLinkOwesNothing == ASSUME LinkAssumption, WireInv, Subscribe PROVE AnswersInv'
<1>1. /\ said["up"] = <<>> /\ HeardWhole(<<>>, received["up"])
      /\ said \in [Directions -> Seq(Words)] /\ UNCHANGED <<wr, pile, received>>
  BY DEF Subscribe, WireInv, SaidSound, HeardSound, ReceiverSound, Directions
<1>2. said'["up"] = <<>>
  BY <1>1 DEF Subscribe, Greets, Directions
<1>3. Len(received["up"]) = 0
  <2>1. Len(received["up"]) \in Nat
    BY <1>1, LenProperties DEF HeardWhole
  <2>2. \A i \in 1 .. Len(received["up"]) : FALSE
    BY <1>1, NothingSaid DEF HeardWhole
  <2> QED BY <2>1, <2>2
<1>4. Len(<<>>) = 0
  BY EmptySeq
<1>5. AllThere(said'["up"], received'["up"], pile'["up"], FromWriter(wr'))
  BY <1>1, <1>2, <1>3, <1>4 DEF AllThere
<1> QED BY <1>5 DEF AnswersInv, AllThere

LEMMA AnswersStep ==
  ASSUME LinkAssumption, OneOfAKind, HookTypes, WireInv, AnswersInv, [PlNext]_plVars
  PROVE  AnswersInv'
<1> USE AnswersRest, AnswersBreak DEF OnAWorkingLink
<1>0. Customer' = Customer /\ upsets \in Nat /\ (Upset => upsets' # 0)
  <2>1. os' = os
    BY DEF PlNext, plVars, RunOp, RadioOn, OfferRequest, PushFrame, NotificationArrives, MerchantSays,
           MerchantReleases, CustomerSays, WriteArrives, WriteFails, StartScanning, StopScanning, Connect,
           Subscribe, Disconnect, Hold, CustomerReleases
  <2> QED BY <2>1 DEF Customer, Upset, HookTypes
<1>1. ASSUME UNCHANGED <<link, live, wireVars>>, upsets' = upsets \/ Upset PROVE AnswersInv'
  BY <1>0, <1>1 DEF wireVars
<1>2. ASSUME Parted PROVE AnswersInv'
  BY <1>2 DEF Parted
<1>3. ASSUME NEW b, ServerCloses(b) PROVE AnswersInv'
  BY <1>2, <1>3 DEF ServerCloses
<1>4. CASE RunOp
  <2>1. NativeStop => ServerCloses(FALSE)
    BY DEF NativeStop
  <2>2. \A q : NativeStart(q) => ServerCloses(Merchant = "ios")
    BY DEF NativeStart
  <2>3. \A q : NativeWaits(q) => Upset /\ UNCHANGED <<wireVars, link, live>>
    BY DEF NativeWaits
  <2> QED BY <1>1, <1>3, <1>4, <2>1, <2>2, <2>3 DEF RunOp, serverVars
<1>5. CASE RadioOn
  BY <1>3, <1>5 DEF RadioOn
<1>6. CASE StartScanning \/ Hold \/ \E q : OfferRequest(q)
  BY <1>1, <1>6 DEF StartScanning, Hold, OfferRequest, serverVars, clientVars
<1>7. CASE PushFrame
  BY <1>0, <1>7 DEF PushFrame, serverVars, clientVars
<1>8. CASE NotificationArrives
  <2>1. received'["up"] = received["up"] /\ pile'["up"] = pile["up"]
    BY <1>8 DEF NotificationArrives, Received, WireInv, HeardSound, Directions
  <2> QED BY <1>0, <1>8, <2>1 DEF NotificationArrives, serverVars, clientVars
<1>9. ASSUME NEW m \in MerchantWords, MerchantSays(m) PROVE AnswersInv'
  <2>1. said'["up"] = said["up"]
    BY <1>9 DEF MerchantSays, WireInv, SaidSound, Directions
  <2> QED BY <1>0, <1>9, <2>1 DEF MerchantSays, serverVars, clientVars
<1>10. CASE MerchantReleases \/ WriteFails
  BY <1>0, <1>10 DEF MerchantReleases, WriteFails
<1>11. ASSUME NEW m \in CustomerWords, CustomerSays(m) PROVE AnswersInv'
  BY <1>11, AnswerSaid
<1>12. CASE WriteArrives
  BY <1>12, AnswerArrives
<1>13. CASE StopScanning \/ Disconnect \/ CustomerReleases
  BY <1>1, <1>2, <1>13 DEF StopScanning, Disconnect, CustomerReleases
<1>14. CASE Connect
  BY <1>14 DEF Connect
<1>15. CASE Subscribe
  BY <1>15, NewLinkOwesNothing
<1>16. CASE UNCHANGED plVars
  BY <1>1, <1>16 DEF plVars, serverVars, clientVars
<1> QED BY <1>4, <1>5, <1>6, <1>7, <1>8, <1>9, <1>10, <1>11, <1>12, <1>13, <1>14, <1>15, <1>16 DEF PlNext

\* What an iPhone said over a link that stays, with nothing refused or failed, has
\* been heard when it has nothing left to send.
THEOREM AnswersAreHeard == ASSUME LinkAssumption, OneOfAKind PROVE PlSpec => []AnswersArrive
<1> DEFINE Inv == HookInv /\ WireInv /\ AnswersInv
<1>1. PlInit => Inv
  <2>1. PlInit => AnswersInv
    BY DEF PlInit, AnswersInv
  <2> QED BY <2>1, HookStarts, WireStarts
<1>2. Inv /\ [PlNext]_plVars => Inv'
  BY HookStep, WireStep, AnswersStep DEF HookInv
<1>3. Inv => AnswersArrive
  <2> SUFFICES ASSUME Inv, OnAWorkingLink, wr = IdleWriter PROVE Len(received["up"]) = Len(said["up"])
    BY DEF AnswersArrive, OnAWorkingLink
  <2>1. /\ ReceiverSound(said["up"], received["up"], pile["up"], {})
        /\ AllThere(said["up"], received["up"], pile["up"], {})
    BY SenderIdle DEF WireInv, HeardSound, AnswersInv, OnAWorkingLink
  <2>2. said["up"] \in Seq(Words) /\ Apart(said["up"])
    BY DEF WireInv, SaidSound, Directions
  <2> QED BY <2>1, <2>2, AllHeard
<1> HIDE DEF Inv
<1> QED BY <1>1, <1>2, <1>3, PTL DEF PlSpec

================================================================================
