-------------------------- MODULE SettlementApiProofs --------------------------
(***************************************************************************)
(* The API alone, for any number of requests, wallets, hashes and calls in *)
(* flight: whatever its calls do to each other, no stale row is written    *)
(* back, no hash is shared or lost, and no row is ahead of its authorizer. *)
(*                                                                         *)
(* ApiInv says what a row is at each status and what a call holds at each  *)
(* await; that is enough for the UPDATE to compare the status only.        *)
(***************************************************************************)
EXTENDS SettlementApi, TLAPS

USE NoneAssumption, AttemptsAssumption

\* Without a worker a row ends at submitted, and has a hash exactly there.
RowSound(i) == /\ row[i].status \in {"none", "awaiting_approval", "authorized", "submitted"}
               /\ row[i].status = "submitted" <=> row[i].hash # None
               /\ row[i].ledger = 0
               /\ row[i].status \in {"authorized", "submitted"} => authz[i] # None

\* What a call was asked, and what it has read and done on the way to each await.
CallSound(r) ==
  LET c == call[r] IN
  pc[r] # "idle" =>
    /\ pc[r] \notin {"ok", "refused"} => c.tries < MaxAttempts
    /\ c.next = "authorized" => c.hash = None /\ c.wallet # None
    /\ c.next = "submitted" => c.hash # None
    /\ pc[r] = "saveAuthorization" => c.next = "authorized"
    /\ pc[r] = "checkAuthorization" => c.next = "submitted"
    /\ c.next = "authorized" /\ pc[r] \in {"read", "swap"} => authz[c.intent] # None
    /\ pc[r] = "swap" => /\ c.seen.status \in Statuses /\ CanTransition(c.seen.status, c.next)
                         /\ c.seen.hash = None /\ c.seen.ledger = 0
    /\ pc[r] = "ok" /\ c.next = "submitted" => row[c.intent].hash = c.hash

ApiInv == /\ ApiTypeOK
          /\ \A i \in Intents : RowSound(i)
          /\ \A r \in Requests : CallSound(r)
          /\ HashNamesOneIntent

-----------------------------------------------------------------------------
\* The table of packages/domain, as far as the API's two moves go.
LEMMA MovesOfTheTable ==
  ASSUME NEW s \in Statuses
  PROVE  /\ CanTransition(s, "authorized") <=> s = "awaiting_approval"
         /\ CanTransition(s, "submitted") <=> s = "authorized"
  BY DEF CanTransition, AllowedTransitions, Statuses

\* A row that still has the status a call read is the row that it read.
LEMMA SwapIsFresh == ApiInv => SwapWritesFreshRow
<1> SUFFICES ASSUME ApiInv, NEW r \in Requests, pc[r] = "swap", StillAsRead(call[r])
             PROVE  row[call[r].intent] = call[r].seen
  BY DEF SwapWritesFreshRow
<1>1. call[r] \in Call /\ CallSound(r) /\ RowSound(call[r].intent)
  BY DEF ApiInv, ApiTypeOK, Call
<1>2. row[call[r].intent] \in Row /\ call[r].seen \in Row
  BY <1>1 DEF ApiInv, ApiTypeOK, Call
<1>3. call[r].seen.status # "submitted"
  BY <1>1, MovesOfTheTable DEF CallSound, Call
<1> QED BY <1>1, <1>2, <1>3 DEF StillAsRead, CallSound, RowSound, Row

LEMMA InvImplies ==
  ApiInv => SwapWritesFreshRow /\ SubmitAnswerIsRecorded /\ AuthorizerRecordedFirst
  BY SwapIsFresh DEF ApiInv, RowSound, CallSound, SubmitAnswerIsRecorded, AuthorizerRecordedFirst

LEMMA ApiInitSound == ApiInit => ApiInv
  BY DEF ApiInit, ApiInv, ApiTypeOK, NoRow, Row, RowStatuses, PcStates, RowSound, CallSound,
     HashNamesOneIntent

-----------------------------------------------------------------------------
(* Types.                                                                  *)

\* The row an UPDATE of the API writes is a row.
LEMMA PatchedType ==
  ASSUME NEW c \in Call PROVE Patched(c) \in Row
BY DEF Call, Patched, Row, RowStatuses, Statuses

\* The steps of a served call keep the types of the API's variables, as long as
\* a call still running has a round left.
LEMMA ServeTypes ==
  ASSUME ApiTypeOK, NEW r \in Requests, Serve(r),
         pc[r] \notin {"idle", "ok", "refused"} => call[r].tries < MaxAttempts
  PROVE  ApiTypeOK'
<1> USE DEF ApiTypeOK, Goto, Refuse, PcStates
<1> DEFINE c == call[r]
<1>1. CASE SaveAuthorization(r)
  <2>1. c \in Call
    BY <1>1 DEF SaveAuthorization
  <2>2. c.wallet \in Wallets \union {None} /\ c.intent \in Intents
    BY <2>1 DEF Call
  <2> QED BY <1>1, <2>1, <2>2 DEF SaveAuthorization
<1>2. CASE CheckAuthorization(r)
  BY <1>2 DEF CheckAuthorization
<1>3. CASE ReadSettlement(r)
  <2>1. c \in Call /\ c.intent \in Intents
    BY <1>3 DEF ReadSettlement, Call
  <2>2. CASE UNCHANGED <<row, authz, call>>
    BY <1>3, <2>1, <2>2 DEF ReadSettlement
  <2>3. CASE /\ call' = [call EXCEPT ![r].seen = row[c.intent]]
             /\ Goto(r, "swap")
             /\ UNCHANGED <<row, authz>>
    <3>1. [c EXCEPT !.seen = row[c.intent]] \in Call
      BY <2>1 DEF Call
    <3> QED BY <2>1, <2>3, <3>1
  <2> QED BY <1>3, <2>2, <2>3 DEF ReadSettlement
<1>4. CASE SwapSettlement(r)
  <2>1. c \in Call /\ c.intent \in Intents /\ pc[r] = "swap"
    BY <1>4 DEF SwapSettlement, Call
  <2>2. CASE /\ row' = [row EXCEPT ![c.intent] = Patched(c)]
             /\ Goto(r, "ok")
             /\ UNCHANGED <<authz, call>>
    BY <2>1, <2>2, PatchedType
  <2>3. CASE Refuse(r)
    BY <2>1, <2>3
  <2>4. CASE /\ call' = [call EXCEPT ![r].tries = @ + 1]
             /\ Goto(r, IF c.tries + 1 = MaxAttempts THEN "refused" ELSE "read")
             /\ UNCHANGED <<row, authz>>
    <3>1. [c EXCEPT !.tries = c.tries + 1] \in Call
      BY <2>1 DEF Call
    <3> QED BY <2>1, <2>4, <3>1
  <2> QED BY <1>4, <2>2, <2>3, <2>4 DEF SwapSettlement
<1>5. CASE Answer(r)
  BY <1>5 DEF Answer
<1> QED BY <1>1, <1>2, <1>3, <1>4, <1>5 DEF Serve

\* A call that reaches the API keeps them too.
LEMMA AuthorizeTypes ==
  ASSUME ApiTypeOK, NEW r \in Requests, NEW i \in Intents, NEW p \in Principals,
         NEW w \in Wallets, ReceiveAuthorize(r, i, w, p)
  PROVE  ApiTypeOK'
<1> USE DEF ApiTypeOK, Goto, PcStates
<1> DEFINE c == [next |-> "authorized", intent |-> i, wallet |-> w, principal |-> p,
                 hash |-> None, seen |-> NoRow, tries |-> 0]
<1>1. c \in Call
  BY DEF Call, NoRow, Row, RowStatuses
<1>2. call' = [call EXCEPT ![r] = c] /\ UNCHANGED <<row, authz>>
  BY DEF ReceiveAuthorize
<1>3. pc' \in [Requests -> PcStates]
  BY DEF ReceiveAuthorize
<1>4. \A q \in Requests : pc'[q] # "idle" => call'[q] \in Call
  BY <1>1, <1>2 DEF ReceiveAuthorize
<1> QED BY <1>1, <1>2, <1>3, <1>4

LEMMA SubmitTypes ==
  ASSUME ApiTypeOK, NEW r \in Requests, NEW i \in Intents, NEW p \in Principals,
         NEW h \in Hashes, ReceiveSubmit(r, i, h, p)
  PROVE  ApiTypeOK'
<1> USE DEF ApiTypeOK, Goto, PcStates
<1> DEFINE c == [next |-> "submitted", intent |-> i, wallet |-> None, principal |-> p,
                 hash |-> h, seen |-> NoRow, tries |-> 0]
<1>1. c \in Call
  BY DEF Call, NoRow, Row, RowStatuses
<1>2. call' = [call EXCEPT ![r] = c] /\ UNCHANGED <<row, authz>>
  BY DEF ReceiveSubmit
<1>3. pc' \in [Requests -> PcStates]
  BY DEF ReceiveSubmit
<1>4. \A q \in Requests : pc'[q] # "idle" => call'[q] \in Call
  BY <1>1, <1>2 DEF ReceiveSubmit
<1> QED BY <1>1, <1>2, <1>3, <1>4

\* A new row is one.
LEMMA PublishTypes == ASSUME ApiTypeOK, NEW i \in Intents, Publish(i) PROVE ApiTypeOK'
<1>1. PublishedRow \in Row
  BY DEF PublishedRow, Row, RowStatuses, Statuses
<1> QED BY <1>1 DEF Publish, ApiTypeOK

\* Every step of the API does.
LEMMA ApiStepTypes == ASSUME ApiInv, [ApiNext]_apiVars PROVE ApiTypeOK'
<1>1. ApiTypeOK
  BY DEF ApiInv
<1>2. ASSUME NEW r \in Requests, Serve(r) PROVE ApiTypeOK'
  BY <1>1, <1>2, ServeTypes DEF ApiInv, CallSound
<1>3. ASSUME NEW r \in Requests, Receive(r) PROVE ApiTypeOK'
  BY <1>1, <1>3, AuthorizeTypes, SubmitTypes DEF Receive
<1>4. CASE UNCHANGED apiVars
  BY <1>1, <1>4 DEF ApiTypeOK, apiVars
<1> QED BY <1>1, <1>2, <1>3, <1>4, PublishTypes DEF ApiNext

-----------------------------------------------------------------------------
(* The induction: one lemma per step of a call.                            *)

\* A step that changes neither a row nor an authorizer disturbs the call that
\* takes it and nothing else.
LEMMA OnlyItsCall ==
  ASSUME ApiInv, ApiTypeOK', NEW r \in Requests, UNCHANGED <<row, authz>>, CallSound(r)',
         \A q \in Requests \ {r} : pc'[q] = pc[q] /\ call'[q] = call[q]
  PROVE  ApiInv'
<1>1. \A i \in Intents : RowSound(i)'
  BY DEF ApiInv, RowSound
<1>2. \A q \in Requests \ {r} : CallSound(q)'
  BY DEF ApiInv, CallSound
<1> QED BY <1>1, <1>2 DEF ApiInv, HashNamesOneIntent

LEMMA AuthorizeSound ==
  ASSUME ApiInv, ApiTypeOK', NEW r \in Requests, NEW i \in Intents, NEW p \in Principals,
         NEW w \in Wallets, ReceiveAuthorize(r, i, w, p)
  PROVE  ApiInv'
<1>1. CallSound(r)'
  BY DEF ApiInv, ApiTypeOK, ReceiveAuthorize, Goto, CallSound
<1> QED BY <1>1, OnlyItsCall DEF ApiInv, ApiTypeOK, ReceiveAuthorize, Goto

LEMMA SubmitSound ==
  ASSUME ApiInv, ApiTypeOK', NEW r \in Requests, NEW i \in Intents, NEW p \in Principals,
         NEW h \in Hashes, ReceiveSubmit(r, i, h, p)
  PROVE  ApiInv'
<1>1. CallSound(r)'
  BY DEF ApiInv, ApiTypeOK, ReceiveSubmit, Goto, CallSound
<1> QED BY <1>1, OnlyItsCall DEF ApiInv, ApiTypeOK, ReceiveSubmit, Goto

LEMMA CheckSound ==
  ASSUME ApiInv, ApiTypeOK', NEW r \in Requests, CheckAuthorization(r) PROVE ApiInv'
<1>1. CallSound(r)'
  BY DEF ApiInv, ApiTypeOK, CheckAuthorization, Refuse, Goto, CallSound, PcStates
<1> QED BY <1>1, OnlyItsCall DEF ApiInv, ApiTypeOK, CheckAuthorization, Refuse, Goto

\* A refused call is held to little, an answered one to nothing.
LEMMA RefuseSound ==
  ASSUME ApiInv, ApiTypeOK', NEW r \in Requests, pc[r] # "idle", Refuse(r) PROVE ApiInv'
<1>1. CallSound(r)'
  BY DEF ApiInv, ApiTypeOK, Refuse, Goto, CallSound, PcStates
<1> QED BY <1>1, OnlyItsCall DEF ApiInv, ApiTypeOK, Refuse, Goto

LEMMA AnswerSound ==
  ASSUME ApiInv, ApiTypeOK', NEW r \in Requests, Answer(r) PROVE ApiInv'
<1>1. CallSound(r)'
  BY DEF ApiInv, ApiTypeOK, Answer, Goto, CallSound, PcStates
<1> QED BY <1>1, OnlyItsCall DEF ApiInv, ApiTypeOK, Answer, Goto

\* The upsert replaces an authorizer and never removes one.
LEMMA SaveSound ==
  ASSUME ApiInv, ApiTypeOK', NEW r \in Requests, SaveAuthorization(r) PROVE ApiInv'
<1> DEFINE c == call[r]
<1>1. c \in Call /\ c.intent \in Intents /\ CallSound(r) /\ pc[r] = "saveAuthorization"
  BY DEF ApiInv, ApiTypeOK, SaveAuthorization, Call
<1>2. CASE Refuse(r)
  BY <1>1, <1>2, RefuseSound
<1>3. CASE authz' = [authz EXCEPT ![c.intent] = c.wallet] /\ Goto(r, "read") /\ UNCHANGED <<row, call>>
  <2>1. c.wallet # None /\ authz'[c.intent] = c.wallet
    BY <1>1, <1>3 DEF ApiInv, ApiTypeOK, CallSound
  <2>2. \A i \in Intents : authz[i] # None => authz'[i] # None
    BY <1>1, <1>3, <2>1 DEF ApiInv, ApiTypeOK
  <2>3. \A i \in Intents : RowSound(i)'
    BY <1>3, <2>2 DEF ApiInv, RowSound
  <2>4. ASSUME NEW q \in Requests PROVE CallSound(q)'
    <3>1. CASE q = r
      BY <1>1, <1>3, <2>1, <3>1 DEF ApiInv, ApiTypeOK, CallSound, Goto, PcStates
    <3>2. CASE q # r /\ pc[q] # "idle"
      <4>1. pc'[q] = pc[q] /\ call'[q] = call[q] /\ call[q].intent \in Intents
        BY <1>3, <3>2 DEF ApiInv, ApiTypeOK, Goto, Call
      <4> QED BY <1>3, <2>2, <4>1 DEF ApiInv, CallSound
    <3>3. CASE q # r /\ pc[q] = "idle"
      BY <1>3, <3>3 DEF ApiInv, ApiTypeOK, Goto, CallSound
    <3> QED BY <3>1, <3>2, <3>3
  <2> QED BY <1>3, <2>3, <2>4 DEF ApiInv, HashNamesOneIntent
<1> QED BY <1>2, <1>3 DEF SaveAuthorization

\* What a read decides: an answer that is on record, a refusal, or a swap from a
\* row that has no hash yet.
LEMMA ReadSound ==
  ASSUME ApiInv, ApiTypeOK', NEW r \in Requests, ReadSettlement(r) PROVE ApiInv'
<1> DEFINE c       == call[r]
           current == row[c.intent]
<1>1. /\ c \in Call /\ c.intent \in Intents /\ CallSound(r) /\ RowSound(c.intent)
      /\ pc[r] = "read" /\ current \in Row
  BY DEF ApiInv, ApiTypeOK, ReadSettlement, Call
<1>2. CASE Refuse(r)
  BY <1>1, <1>2, RefuseSound
<1>3. CASE /\ current.status = c.next
           /\ Goto(r, IF ReplacesHash(c, current) THEN "refused" ELSE "ok")
           /\ UNCHANGED <<row, authz, call>>
  <2>1. pc'[r] = "ok" /\ c.next = "submitted" => current.hash = c.hash
    BY <1>1, <1>3 DEF ApiInv, ApiTypeOK, Goto, ReplacesHash, RowSound, CallSound, PcStates
  <2>2. CallSound(r)'
    BY <1>1, <1>3, <2>1 DEF ApiInv, ApiTypeOK, CallSound, Goto, PcStates
  <2> QED BY <1>3, <2>2, OnlyItsCall DEF ApiInv, ApiTypeOK, Goto
<1>4. CASE /\ current # NoRow
           /\ CanTransition(current.status, c.next)
           /\ call' = [call EXCEPT ![r].seen = current]
           /\ Goto(r, "swap")
           /\ UNCHANGED <<row, authz>>
  <2>1. current.status \in Statuses
    BY <1>1, <1>4 DEF Row, RowStatuses, RowSound, NoRow
  <2>2. current.hash = None /\ current.ledger = 0
    BY <1>1, <1>4, <2>1, MovesOfTheTable DEF RowSound, Call
  <2>3. call'[r] = [c EXCEPT !.seen = current] /\ pc'[r] = "swap"
    BY <1>4 DEF ApiInv, ApiTypeOK, Goto
  <2>4. /\ call'[r].seen = current /\ call'[r].next = c.next /\ call'[r].intent = c.intent
        /\ call'[r].hash = c.hash /\ call'[r].wallet = c.wallet /\ call'[r].tries = c.tries
    BY <1>1, <2>3 DEF Call
  <2>5. CallSound(r)'
    BY <1>1, <1>4, <2>1, <2>2, <2>3, <2>4 DEF CallSound
  <2> QED BY <1>4, <2>5, OnlyItsCall DEF ApiInv, ApiTypeOK, Goto
<1> QED BY <1>2, <1>3, <1>4 DEF ReadSettlement

\* The UPDATE, and what it leaves: the row of one request, without a hash before.
LEMMA SwappedRow ==
  ASSUME ApiInv, NEW r \in Requests, pc[r] = "swap", StillAsRead(call[r])
  PROVE  LET c == call[r]
             i == c.intent
         IN /\ c \in Call /\ i \in Intents
            /\ row[i] = c.seen /\ row[i].hash = None /\ row[i].ledger = 0 /\ authz[i] # None
            /\ Patched(c) = [status |-> c.next, hash |-> c.hash, ledger |-> 0]
            /\ \/ c.next = "authorized" /\ row[i].status = "awaiting_approval" /\ c.hash = None
               \/ c.next = "submitted" /\ row[i].status = "authorized" /\ c.hash # None
<1> DEFINE c == call[r]
           i == c.intent
<1>1. c \in Call /\ i \in Intents /\ CallSound(r) /\ RowSound(i)
  BY DEF ApiInv, ApiTypeOK, Call
<1>2. row[i] = c.seen
  BY SwapIsFresh DEF SwapWritesFreshRow
<1>3. \/ c.next = "authorized" /\ row[i].status = "awaiting_approval" /\ c.hash = None
      \/ c.next = "submitted" /\ row[i].status = "authorized" /\ c.hash # None
  BY <1>1, <1>2, MovesOfTheTable DEF CallSound, Call
<1>4. row[i].hash = None /\ row[i].ledger = 0 /\ authz[i] # None
  BY <1>1, <1>3 DEF CallSound, RowSound
<1>5. Patched(c) = [status |-> c.next, hash |-> c.hash, ledger |-> 0]
  <2> DEFINE p == [status |-> c.next, hash |-> c.hash, ledger |-> 0]
  <2>1. c.seen \in Row /\ c.hash \in Hashes \union {None} /\ c.next \in RowStatuses
    BY <1>1 DEF Call, RowStatuses, Statuses
  <2>2. Patched(c) \in Row /\ p \in Row
    BY <1>1, <2>1, PatchedType DEF Row
  <2>3. Patched(c).status = c.next /\ Patched(c).hash = c.hash /\ Patched(c).ledger = 0
    BY <1>2, <1>4, <2>1 DEF Patched, Row
  <2> QED BY <2>2, <2>3 DEF Row
<1> QED BY <1>1, <1>2, <1>3, <1>4, <1>5

LEMMA SwapSound ==
  ASSUME ApiInv, ApiTypeOK', NEW r \in Requests, SwapSettlement(r) PROVE ApiInv'
<1> DEFINE c == call[r]
           i == c.intent
<1>1. c \in Call /\ i \in Intents /\ CallSound(r) /\ pc[r] = "swap"
  BY DEF ApiInv, ApiTypeOK, SwapSettlement, Call
<1>2. CASE Refuse(r)
  BY <1>1, <1>2, RefuseSound
<1>3. CASE /\ call' = [call EXCEPT ![r].tries = @ + 1]
           /\ Goto(r, IF c.tries + 1 = MaxAttempts THEN "refused" ELSE "read")
           /\ UNCHANGED <<row, authz>>
  <2>1. call'[r] = [c EXCEPT !.tries = c.tries + 1]
        /\ pc'[r] = IF c.tries + 1 = MaxAttempts THEN "refused" ELSE "read"
    BY <1>3 DEF ApiInv, ApiTypeOK, Goto
  <2>2. /\ call'[r].next = c.next /\ call'[r].intent = c.intent /\ call'[r].hash = c.hash
        /\ call'[r].wallet = c.wallet /\ call'[r].tries = c.tries + 1 /\ c.tries \in 0 .. MaxAttempts
    BY <1>1, <2>1 DEF Call
  <2>3. c.tries < MaxAttempts
    BY <1>1 DEF CallSound
  <2>4. CallSound(r)'
    BY <1>1, <1>3, <2>1, <2>2, <2>3 DEF CallSound
  <2> QED BY <1>3, <2>4, OnlyItsCall DEF ApiInv, ApiTypeOK, Goto
<1>4. CASE /\ StillAsRead(c) /\ ~HashTaken(i, Patched(c).hash)
           /\ row' = [row EXCEPT ![i] = Patched(c)]
           /\ Goto(r, "ok") /\ UNCHANGED <<authz, call>>
  <2>1. /\ row[i].hash = None /\ row'[i] = [status |-> c.next, hash |-> c.hash, ledger |-> 0]
        /\ authz[i] # None
        /\ \/ c.next = "authorized" /\ c.hash = None
           \/ c.next = "submitted" /\ c.hash # None
    BY <1>1, <1>4, SwappedRow DEF ApiInv, ApiTypeOK
  <2>2. \A j \in Intents \ {i} : row'[j] = row[j]
    BY <1>4 DEF ApiInv, ApiTypeOK
  <2>3. \A j \in Intents : RowSound(j)'
    <3>1. RowSound(i)'
      BY <1>4, <2>1 DEF RowSound
    <3> QED BY <1>4, <2>2, <3>1 DEF ApiInv, RowSound
  <2>4. ASSUME NEW q \in Requests PROVE CallSound(q)'
    <3>1. CASE q = r
      BY <1>1, <1>4, <2>1, <3>1 DEF ApiInv, ApiTypeOK, CallSound, Goto, PcStates
    <3>2. CASE q # r /\ pc[q] # "idle"
      <4>1. /\ pc'[q] = pc[q] /\ call'[q] = call[q] /\ call[q].intent \in Intents
            /\ call[q].hash \in Hashes \union {None} /\ CallSound(q)
        BY <1>4, <3>2 DEF ApiInv, ApiTypeOK, Goto, Call
      <4>2. pc[q] = "ok" /\ call[q].next = "submitted" => row'[call[q].intent].hash = call[q].hash
        BY <2>1, <2>2, <3>2, <4>1 DEF CallSound
      <4> QED BY <1>4, <3>2, <4>1, <4>2 DEF CallSound
    <3>3. CASE q # r /\ pc[q] = "idle"
      BY <1>4, <3>3 DEF ApiInv, ApiTypeOK, Goto, CallSound
    <3> QED BY <3>1, <3>2, <3>3
  <2>5. HashNamesOneIntent'
    <3>1. \A j \in Intents \ {i} : c.hash # None => row[j].hash # c.hash
      BY <1>4, <2>1, SwappedRow, <1>1 DEF HashTaken
    <3>2. \A j \in Intents \ {i} : row[j].hash # None => row[j].hash # c.hash
      BY <3>1
    <3> QED BY <2>1, <2>2, <3>1, <3>2 DEF ApiInv, HashNamesOneIntent
  <2> QED BY <2>3, <2>4, <2>5 DEF ApiInv
<1> QED BY <1>1, <1>2, <1>3, <1>4 DEF SwapSettlement

LEMMA PublishSound == ASSUME ApiInv, ApiTypeOK', NEW i \in Intents, Publish(i) PROVE ApiInv'
<1>1. /\ row[i] = NoRow /\ row'[i] = PublishedRow /\ \A j \in Intents \ {i} : row'[j] = row[j]
      /\ UNCHANGED <<authz, pc, call>>
  BY DEF ApiInv, ApiTypeOK, Publish
<1>2. \A j \in Intents : row'[j].hash = row[j].hash
  BY <1>1 DEF NoRow, PublishedRow
<1>3. \A j \in Intents : RowSound(j)'
  BY <1>1 DEF ApiInv, RowSound, PublishedRow
<1>4. ASSUME NEW q \in Requests PROVE CallSound(q)'
  <2>1. CASE pc[q] # "idle"
    <3>1. call[q].intent \in Intents
      BY <2>1 DEF ApiInv, ApiTypeOK, Call
    <3> QED BY <1>1, <1>2, <3>1 DEF ApiInv, CallSound
  <2> QED BY <1>1, <2>1 DEF CallSound
<1> QED BY <1>2, <1>3, <1>4 DEF ApiInv, HashNamesOneIntent

LEMMA ApiInvStep == ASSUME ApiInv, [ApiNext]_apiVars PROVE ApiInv'
<1>0. ApiTypeOK'
  BY ApiStepTypes
<1>1. ASSUME NEW r \in Requests, Receive(r) PROVE ApiInv'
  BY <1>0, <1>1, AuthorizeSound, SubmitSound DEF Receive
<1>2. ASSUME NEW r \in Requests, Serve(r) PROVE ApiInv'
  BY <1>0, <1>2, SaveSound, CheckSound, ReadSound, SwapSound, AnswerSound DEF Serve
<1>3. CASE UNCHANGED apiVars
  <2>1. (\A i \in Intents : RowSound(i)') /\ HashNamesOneIntent'
    BY <1>3 DEF apiVars, ApiInv, RowSound, HashNamesOneIntent
  <2>2. \A r \in Requests : CallSound(r)'
    BY <1>3 DEF apiVars, ApiInv, CallSound
  <2> QED BY <1>0, <2>1, <2>2 DEF ApiInv
<1> QED BY <1>0, <1>1, <1>2, <1>3, PublishSound DEF ApiNext

-----------------------------------------------------------------------------
(* The results.                                                            *)

\* The inductive invariant of the API.
THEOREM ApiSound == ApiSpec => []ApiInv
  BY ApiInitSound, ApiInvStep, PTL DEF ApiSpec

\* compareAndSetSettlement may compare the status alone: the row is the one read.
THEOREM SwapsAreFresh == ApiSpec => []SwapWritesFreshRow
  BY ApiSound, InvImplies, PTL

\* A submit that is answered with success is on record.
THEOREM SubmitsAreRecorded == ApiSpec => []SubmitAnswerIsRecorded
  BY ApiSound, InvImplies, PTL

\* No row is past approval without an authorizer (IntentService.authorize).
THEOREM AuthorizersFirst == ApiSpec => []AuthorizerRecordedFirst
  BY ApiSound, InvImplies, PTL

\* No two rows share a transaction, with the unique index as it is.
THEOREM HashesAreUnique == ApiSpec => []HashNamesOneIntent
<1>1. ApiInv => HashNamesOneIntent
  BY DEF ApiInv
<1> QED BY <1>1, ApiSound, PTL

-----------------------------------------------------------------------------
(* The refinement.                                                         *)

\* Every change to a row is a step of the abstract book of payments.
LEMMA BookOfTheApi ==
  ASSUME ApiInv, [ApiNext]_apiVars PROVE [ApiBook!BookNext]_(ApiBook!bookVars)
<1>1. CASE UNCHANGED row
  BY <1>1 DEF ApiBook!bookVars
<1>2. ASSUME NEW i \in Intents, Publish(i) PROVE ApiBook!Open(i)
  <2>1. row[i] = NoRow /\ row' = [row EXCEPT ![i] = PublishedRow]
    BY <1>2 DEF Publish
  <2>2. row \in [Intents -> Row]
    BY DEF ApiInv, ApiTypeOK
  <2>3. [j \in Intents |-> row'[j].status]
          = [[j \in Intents |-> row[j].status] EXCEPT ![i] = "awaiting_approval"]
    BY <2>1, <2>2 DEF PublishedRow
  <2>4. [j \in Intents |-> row'[j].hash] = [j \in Intents |-> row[j].hash]
    BY <2>1, <2>2 DEF PublishedRow, NoRow
  <2> QED BY <2>1, <2>3, <2>4 DEF ApiBook!Open, NoRow
<1>3. ASSUME NEW r \in Requests, SwapSettlement(r), row' # row
      PROVE  [ApiBook!BookNext]_(ApiBook!bookVars)
  <2>1. /\ pc[r] = "swap" /\ StillAsRead(call[r])
        /\ row' = [row EXCEPT ![call[r].intent] = Patched(call[r])]
    BY <1>3 DEF SwapSettlement, Refuse
  <2>2. PICK i \in Intents, s \in Statuses, h \in Hashes \union {None} :
          /\ row[i].hash = None /\ row' = [row EXCEPT ![i] = [status |-> s, hash |-> h, ledger |-> 0]]
          /\ \/ s = "authorized" /\ row[i].status = "awaiting_approval" /\ h = None
             \/ s = "submitted" /\ row[i].status = "authorized" /\ h # None
    <3>1. call[r].next \in Statuses /\ call[r].hash \in Hashes \union {None}
      BY <2>1, SwappedRow DEF Call, Statuses
    <3> QED BY <2>1, <3>1, SwappedRow
  <2>3. row \in [Intents -> Row]
    BY DEF ApiInv, ApiTypeOK
  <2>4. /\ row'[i].status = s /\ row'[i].hash = h
        /\ \A j \in Intents \ {i} : row'[j] = row[j]
    BY <2>2, <2>3
  <2>5. [j \in Intents |-> row'[j].status] = [[j \in Intents |-> row[j].status] EXCEPT ![i] = s]
    BY <2>4
  <2>6. [j \in Intents |-> row'[j].hash] = [[j \in Intents |-> row[j].hash] EXCEPT ![i] = h]
    BY <2>4
  <2>7. CASE s = "submitted" /\ h # None
    <3>1. ApiBook!Attach(i, h)
      BY <2>2, <2>5, <2>6, <2>7 DEF ApiBook!Attach
    <3> QED BY <2>7, <3>1 DEF ApiBook!BookNext
  <2>8. CASE s = "authorized" /\ h = None
    <3>1. [j \in Intents |-> row'[j].hash] = [j \in Intents |-> row[j].hash]
      BY <2>2, <2>6, <2>8
    <3>2. ApiBook!Move(i, s)
      BY <2>2, <2>5, <2>8, <3>1
         DEF ApiBook!Move, ApiBook!CanTransition, ApiBook!AllowedTransitions, ApiBook!Statuses
    <3> QED BY <3>2 DEF ApiBook!BookNext, ApiBook!Statuses, Statuses
  <2> QED BY <2>2, <2>7, <2>8
<1>4. ASSUME NEW r \in Requests, Receive(r) PROVE UNCHANGED row
  BY <1>4 DEF Receive, ReceiveAuthorize, ReceiveSubmit
<1>5. ASSUME NEW r \in Requests, Serve(r), ~SwapSettlement(r) PROVE UNCHANGED row
  BY <1>5 DEF Serve, SaveAuthorization, CheckAuthorization, ReadSettlement, Answer, Refuse
<1>6. CASE UNCHANGED apiVars
  BY <1>1, <1>6 DEF apiVars
<1> QED BY <1>1, <1>2, <1>3, <1>4, <1>5, <1>6 DEF ApiNext, Serve, ApiBook!BookNext

\* The API implements the abstract book of payments.
THEOREM ApiImplementsBook == ApiSpec => ImplementsBook
<1>1. ApiInit => ApiBook!BookInit
  BY DEF ApiInit, NoRow, ApiBook!BookInit
<1> QED BY <1>1, ApiSound, BookOfTheApi, PTL DEF ApiSpec, ImplementsBook, ApiBook!BookSpec

=============================================================================
