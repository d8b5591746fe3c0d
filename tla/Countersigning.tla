--------------------------- MODULE Countersigning ---------------------------
(***************************************************************************)
(* How a customer's phone and the merchant's phone meet over one payment   *)
(* request: IntentService.requestCountersignature and                      *)
(* supplyCountersignature with the conflict-safe upsert under them, the    *)
(* customer's remoteCountersigner (claim, then poll until a deadline), and *)
(* the merchant's useMerchantCountersigning (look, sign, supply).          *)
(*                                                                         *)
(* Every await of the service is a step.  A phone that times out sends its *)
(* request again while the earlier one may still be running at the server, *)
(* and an answer nobody waits for any more is dropped.  Meanwhile the      *)
(* request's settlement row moves along the domain's table, of which only  *)
(* three stages matter here: awaiting_approval, authorized, and closed for *)
(* every status after those two.                                           *)
(***************************************************************************)
EXTENDS Naturals

CONSTANTS Customers,  \* addresses that want to pay the request
          Counters,   \* screens of the merchant that show the request
          Slots,      \* slots for API calls in flight
          MaxPosts,   \* deliveries of one call (3 in the client)
          MaxTaps,    \* bound: times a customer presses Approve
          None        \* nobody, nothing, no signature

ASSUME PhonesAssumption ==
  /\ None \notin Customers \union Counters \union Slots
  /\ Customers \intersect Counters = {}
  /\ MaxPosts \in Nat /\ MaxTaps \in Nat

VARIABLES status,   \* the stage of the settlement row
          claim,    \* the merchant_countersignatures row
          pc,       \* pc[r]: where the call in slot r is
          call,     \* call[r]: what it was asked and what it has read
          wait,     \* wait[a]: the slot a phone is waiting for
          posts,    \* posts[a]: deliveries of its current call
          phone,    \* phone[c]: the customer's progress
          taps,     \* taps[c]: times Approve was pressed
          got,      \* got[c]: the customer named by the signature it holds
          view,     \* view[m]: the stage the merchant's screen last read
          signing   \* signing[m]: the customer it has read and is signing for

serverVars   == <<claim, pc, call>>
customerVars == <<phone, taps, got>>
counterVars  == <<view, signing>>
csVars       == <<status, serverVars, wait, posts, customerVars, counterVars>>

Stages == {"awaiting_approval", "authorized", "closed"}

Phones == Customers \union Counters

\* A signature is over a digest that names the payer: it is that name here.
Record == [customer : Customers, signature : Customers \union {None}]
NoRecord == [customer |-> None, signature |-> None]

Call == [kind : {"claim", "supply"}, from : Phones, customer : Customers,
         seen : Stages \union {"none"}, answer : Record \union {NoRecord}]
NoCall == [kind |-> "none"]

CsPcStates == {"idle", "settlement", "find", "save", "readBack", "ok", "refused"}

CsInit == /\ status = "awaiting_approval"
          /\ claim = NoRecord
          /\ pc = [r \in Slots |-> "idle"]
          /\ call = [r \in Slots |-> NoCall]
          /\ wait = [a \in Phones |-> None]
          /\ posts = [a \in Phones |-> 0]
          /\ phone = [c \in Customers |-> "idle"]
          /\ taps = [c \in Customers |-> 0]
          /\ got = [c \in Customers |-> None]
          /\ view = [m \in Counters |-> "awaiting_approval"]
          /\ signing = [m \in Counters |-> None]

Goto(r, label) == pc' = [pc EXCEPT ![r] = label]

Refuse(r) == Goto(r, "refused") /\ UNCHANGED <<claim, call>>

Reply(r, record) == /\ Goto(r, "ok")
                    /\ call' = [call EXCEPT ![r].answer = record]
                    /\ UNCHANGED claim

-----------------------------------------------------------------------------
(* The service.                                                            *)

\* Stages in which a signature may still be collected.
Signable == {"awaiting_approval", "authorized"}

\* requireCountersignatureSettlement; a supply is refused on what it returns.
ReadStatus(r) ==
  /\ pc[r] = "settlement"
  /\ \/ /\ call[r].kind = "supply"
        /\ status \notin Signable
        /\ Refuse(r)
     \/ /\ call[r].kind = "claim" \/ status \in Signable
        /\ call' = [call EXCEPT ![r].seen = status]
        /\ Goto(r, "find")
        /\ UNCHANGED claim

\* findCountersignature for a claim: the owner's retry is answered from the
\* record while the request was open; only an untouched request is claimed.
FindForClaim(r) ==
  /\ pc[r] = "find" /\ call[r].kind = "claim"
  /\ \/ /\ claim = NoRecord
        /\ call[r].seen = "awaiting_approval"
        /\ Goto(r, "save") /\ UNCHANGED <<claim, call>>
     \/ /\ claim # NoRecord
        /\ claim.customer = call[r].customer
        /\ call[r].seen \in Signable
        /\ Reply(r, claim)
     \/ /\ \/ claim = NoRecord /\ call[r].seen # "awaiting_approval"
           \/ claim # NoRecord /\ claim.customer # call[r].customer
           \/ claim # NoRecord /\ call[r].seen \notin Signable
        /\ Refuse(r)

\* findCountersignature for a supply: it must name the customer who is waiting,
\* and the first signature stays.
FindForSupply(r) ==
  /\ pc[r] = "find" /\ call[r].kind = "supply"
  /\ \/ /\ claim.customer # call[r].customer
        /\ Refuse(r)
     \/ /\ claim.customer = call[r].customer
        /\ claim.signature # None
        /\ Reply(r, claim)
     \/ /\ claim.customer = call[r].customer
        /\ claim.signature = None
        /\ Goto(r, "save") /\ UNCHANGED <<claim, call>>

Brought(c) == [customer |-> c.customer,
               signature |-> IF c.kind = "supply" THEN c.customer ELSE None]

\* Mutant: ON CONFLICT DO UPDATE takes every column of the new row.
MergedLastWins(kept, new) == new

\* INSERT ... ON CONFLICT DO UPDATE: the address never changes, and a signature
\* is only ever filled in, by its own customer.
Merged(kept, new) ==
  IF kept = NoRecord THEN new
  ELSE IF kept.customer = new.customer /\ kept.signature = None
    THEN [kept EXCEPT !.signature = new.signature]
    ELSE kept

SaveRecord(r) == /\ pc[r] = "save"
                 /\ claim' = Merged(claim, Brought(call[r]))
                 /\ Goto(r, "readBack")
                 /\ UNCHANGED call

\* Mutant: the claim is answered with whatever the repository kept.
LostClaimUnchecked(c) == FALSE

\* The claim was read back naming somebody else.
LostClaim(c) == c.kind = "claim" /\ claim.customer # c.customer

\* The read after the save: the persisted winner, not the caller's own record.
ReadBack(r) == /\ pc[r] = "readBack"
               /\ IF LostClaim(call[r]) THEN Refuse(r) ELSE Reply(r, claim)

Serve(r) == /\ \/ ReadStatus(r) \/ FindForClaim(r) \/ FindForSupply(r)
               \/ SaveRecord(r) \/ ReadBack(r)
            /\ UNCHANGED <<status, wait, posts, customerVars, counterVars>>

-----------------------------------------------------------------------------
(* The wire.                                                               *)

AttemptsLeft(a) == posts[a] < MaxPosts

\* The client's next attempt at its current call reaches the server.
Post(a, r, kind, customer) ==
  /\ wait[a] = None
  /\ AttemptsLeft(a)
  /\ pc[r] = "idle"
  /\ Goto(r, "settlement")
  /\ call' = [call EXCEPT ![r] = [kind |-> kind, from |-> a, customer |-> customer,
                                  seen |-> "none", answer |-> NoRecord]]
  /\ wait' = [wait EXCEPT ![a] = r]
  /\ posts' = [posts EXCEPT ![a] = @ + 1]
  /\ UNCHANGED <<status, claim, customerVars, counterVars>>

\* The slot is free again; nobody hears the answer of an abandoned call.
Vacate(r) == /\ Goto(r, "idle")
             /\ call' = [call EXCEPT ![r] = NoCall]
             /\ UNCHANGED <<status, claim>>

Heard(r) == wait[call[r].from] = r

Discard(r) == /\ pc[r] \in {"ok", "refused"}
              /\ ~Heard(r)
              /\ Vacate(r)
              /\ UNCHANGED <<wait, posts, customerVars, counterVars>>

\* The client's own timer: it stops listening, and may send again.
TimeOut(a) == /\ wait[a] # None
              /\ AttemptsLeft(a)
              /\ wait' = [wait EXCEPT ![a] = None]
              /\ UNCHANGED <<status, serverVars, posts, customerVars, counterVars>>

\* A call that ended for its phone, answered or not.
Over(a) == /\ wait' = [wait EXCEPT ![a] = None]
           /\ posts' = [posts EXCEPT ![a] = 0]

-----------------------------------------------------------------------------
(* The customer's phone: remoteCountersigner.                              *)

\* Approve is pressed, for the first time or after an earlier try ended.
Approve(c) == /\ phone[c] \in {"idle", "over"}
              /\ taps[c] < MaxTaps
              /\ phone' = [phone EXCEPT ![c] = "claiming"]
              /\ taps' = [taps EXCEPT ![c] = @ + 1]
              /\ UNCHANGED <<status, serverVars, wait, posts, got, counterVars>>

PostClaim(c, r) == phone[c] = "claiming" /\ Post(c, r, "claim", c)

\* The signature is decoded and the payment goes on with it.
Collect(c, record) == /\ got' = [got EXCEPT ![c] = record.signature]
                      /\ phone' = [phone EXCEPT ![c] = "over"]

\* The claim is answered: with the signature, or with leave to wait for it.
HearClaim(c, r) ==
  /\ wait[c] = r
  /\ \/ /\ pc[r] = "refused"
        /\ phone' = [phone EXCEPT ![c] = "over"]
        /\ UNCHANGED got
     \/ /\ pc[r] = "ok" /\ call[r].answer.signature # None
        /\ Collect(c, call[r].answer)
     \/ /\ pc[r] = "ok" /\ call[r].answer.signature = None
        /\ phone' = [phone EXCEPT ![c] = "polling"]
        /\ UNCHANGED got
  /\ Vacate(r)
  /\ Over(c)
  /\ UNCHANGED <<taps, counterVars>>

\* GET countersignature: whoever the record names, a signature ends the wait.
Poll(c) == /\ phone[c] = "polling"
           /\ claim.signature # None
           /\ Collect(c, claim)
           /\ UNCHANGED <<status, serverVars, wait, posts, taps, counterVars>>

\* The last attempt timed out, or the polling deadline passed.
GiveUp(c) == /\ \/ phone[c] = "claiming" /\ posts[c] = MaxPosts
                \/ phone[c] = "polling"
             /\ phone' = [phone EXCEPT ![c] = "over"]
             /\ Over(c)
             /\ UNCHANGED <<status, serverVars, taps, got, counterVars>>

-----------------------------------------------------------------------------
(* The merchant's screen: useMerchantCountersigning.                       *)

RefreshView(m) == /\ view' = [view EXCEPT ![m] = status]
                  /\ view[m] # status
                  /\ UNCHANGED <<status, serverVars, wait, posts, customerVars, signing>>

\* Mutant: the hook waits for the customer's approval before it signs.
WatchingLate(m) == view[m] = "authorized"

\* The hook runs while the screen believes nobody has approved yet.
Watching(m) == view[m] = "awaiting_approval"

\* One tick finds a claim without a signature and computes the digest for it.
Look(m) == /\ Watching(m)
           /\ signing[m] = None
           /\ claim # NoRecord /\ claim.signature = None
           /\ signing' = [signing EXCEPT ![m] = claim.customer]
           /\ UNCHANGED <<status, serverVars, wait, posts, customerVars, view>>

PostSignature(m, r) == signing[m] # None /\ Post(m, r, "supply", signing[m])

HearSupply(m, r) == /\ wait[m] = r
                    /\ pc[r] \in {"ok", "refused"}
                    /\ signing' = [signing EXCEPT ![m] = None]
                    /\ Vacate(r)
                    /\ Over(m)
                    /\ UNCHANGED <<customerVars, view>>

\* The last attempt timed out: the tick is logged as failed and the next follows.
DropTick(m) == /\ signing[m] # None
               /\ posts[m] = MaxPosts
               /\ signing' = [signing EXCEPT ![m] = None]
               /\ Over(m)
               /\ UNCHANGED <<status, serverVars, customerVars, view>>

-----------------------------------------------------------------------------
\* The settlement row moves on, under any other handler or the worker.
MoveOn == /\ \/ status = "awaiting_approval" /\ status' \in {"authorized", "closed"}
             \/ status = "authorized" /\ status' = "closed"
          /\ UNCHANGED <<serverVars, wait, posts, customerVars, counterVars>>

CustomerStep(c) == \/ Approve(c) \/ Poll(c) \/ GiveUp(c)
                   \/ \E r \in Slots : PostClaim(c, r) \/ HearClaim(c, r)

CounterStep(m) == \/ RefreshView(m) \/ Look(m) \/ DropTick(m)
                  \/ \E r \in Slots : PostSignature(m, r) \/ HearSupply(m, r)

CsNext == \/ \E r \in Slots : Serve(r) \/ Discard(r)
          \/ \E a \in Phones : TimeOut(a)
          \/ \E c \in Customers : CustomerStep(c)
          \/ \E m \in Counters : CounterStep(m)
          \/ MoveOn

CsSpec == CsInit /\ [][CsNext]_csVars

\* What the server and the wire owe a call: to run it to its end and to answer.
Finish(r) == \/ Serve(r) \/ Discard(r)
             \/ \E c \in Customers : HearClaim(c, r)
             \/ \E m \in Counters : HearSupply(m, r)

\* Calls run to their end, and the merchant's screen keeps reading, looking and
\* posting; customers promise nothing, and any call may time out.
CsFairSpec == /\ CsSpec
              /\ \A r \in Slots : WF_csVars(Finish(r))
              /\ \A m \in Counters : /\ WF_csVars(RefreshView(m))
                                     /\ WF_csVars(Look(m))
                                     /\ WF_csVars(\E r \in Slots : PostSignature(m, r))

-----------------------------------------------------------------------------
\* Type invariant: the record, the calls in flight and the phones.
CsTypeOK ==
  /\ status \in Stages
  /\ claim \in Record \union {NoRecord}
  /\ pc \in [Slots -> CsPcStates]
  /\ call \in [Slots -> Call \union {NoCall}]
  /\ \A r \in Slots : pc[r] # "idle" => call[r] \in Call
  /\ wait \in [Phones -> Slots \union {None}]
  /\ posts \in [Phones -> 0 .. MaxPosts]
  /\ phone \in [Customers -> {"idle", "claiming", "polling", "over"}]
  /\ taps \in [Customers -> 0 .. MaxTaps]
  /\ got \in [Customers -> Customers \union {None}]
  /\ view \in [Counters -> Stages]
  /\ signing \in [Counters -> Customers \union {None}]

\* "The first customer to claim a request keeps it": of two phones racing over
\* one code, retries and late answers included, at most one goes on to pay.
OneCustomerProceeds ==
  \A c, d \in Customers : got[c] # None /\ got[d] # None => c = d

\* remoteCountersigner takes the signature of whatever record it polls, without
\* reading who it names; it is still never given one that names somebody else,
\* "which the contract would reject" after the customer approved.
CollectedNamesCollector == \A c \in Customers : got[c] \in {c, None}

\* The merchant's tick signs for the customer it read a moment ago.  By the time
\* the signature arrives that is still the customer who waits.
SignedForTheOwner ==
  \A m \in Counters : signing[m] # None => claim.customer = signing[m]

\* The meeting point implements its promise.
Promise == INSTANCE Handover WITH
  owner <- claim.customer,
  signed <- claim.signature # None,
  takers <- {c \in Customers : got[c] # None}

ImplementsHandover == Promise!HandoverSpec

-----------------------------------------------------------------------------
(* The inductive invariant: the record once claimed keeps its customer, and   *)
(* whatever a phone or a call in flight still holds of it stays true.         *)

RecordSound == claim.signature \in {None, claim.customer}

CallsSound == \A r \in Slots : pc[r] # "idle" =>
  LET c == call[r] IN
  /\ c.kind = "claim" => c.customer = c.from
  /\ c.kind = "supply" => c.customer = claim.customer /\ c.from \in Counters
  /\ pc[r] = "readBack" => claim # NoRecord
  /\ pc[r] = "ok" => /\ c.answer.customer = claim.customer /\ claim # NoRecord
                     /\ c.kind = "claim" => claim.customer = c.customer
                     /\ c.answer.signature \in {None, claim.signature}

WaitsSound == \A a \in Phones : wait[a] # None =>
  pc[wait[a]] # "idle" /\ call[wait[a]].from = a

PhonesSound == \A c \in Customers :
  /\ phone[c] = "polling" => claim.customer = c
  /\ got[c] # None => got[c] = c /\ claim = [customer |-> c, signature |-> c]

\* The meeting point's inductive invariant.
CsInv == /\ CsTypeOK
         /\ RecordSound /\ CallsSound /\ WaitsSound /\ PhonesSound /\ SignedForTheOwner

-----------------------------------------------------------------------------
\* A claim on a request that stays open is signed, however many calls time out.
ClaimIsSigned ==
  claim # NoRecord /\ status = "awaiting_approval"
    ~> claim.signature # None \/ status # "awaiting_approval"

=============================================================================
