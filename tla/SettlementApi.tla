--------------------------- MODULE SettlementApi ----------------------------
(***************************************************************************)
(* The API's side of a settlement record: the authorize and submit routes  *)
(* of apps/api/src/app.ts, IntentService.authorize / submit, its           *)
(* compare-and-set loop transitionSettlement, and the PostgreSQL           *)
(* statements of PostgresIntentRepository they await.                      *)
(*                                                                         *)
(* Every await is a step of its own, so any number of requests interleave  *)
(* between a read and the write that depends on it, exactly as they do in  *)
(* one Node process talking to one database.  A request slot that is       *)
(* answered becomes free for another call.                                 *)
(***************************************************************************)
EXTENDS Naturals, PaymentLifecycle

CONSTANTS Intents,      \* payment request identifiers
          Wallets,      \* Stellar addresses that authorize payments
          Hashes,       \* settlement transaction hashes
          Requests,     \* slots for API calls in flight
          MaxAttempts,  \* read / compare-and-set rounds of one call (3 in the code)
          None,         \* no hash, no authorizer
          Anonymous,    \* no session: the deployment does not require one
          Unbound       \* a session whose device owns no smart wallet

ASSUME NoneAssumption == None \notin Hashes /\ None \notin Wallets
ASSUME AttemptsAssumption == MaxAttempts \in Nat \ {0}

VARIABLES row,     \* row[i]: the settlements row of an intent
          authz,   \* authz[i]: the authorizer in the authorizations row, or None
          pc,      \* pc[r]: where the call in slot r is
          call     \* call[r]: what it was asked and what it has read

apiVars == <<row, authz, pc, call>>

Principals == Wallets \union {Anonymous, Unbound}

RowStatuses == Statuses \union {"none"}

Row == [status : RowStatuses, hash : Hashes \union {None}, ledger : Nat]

NoRow == [status |-> "none", hash |-> None, ledger |-> 0]

PublishedRow == [status |-> "awaiting_approval", hash |-> None, ledger |-> 0]

PcStates == {"idle", "saveAuthorization", "checkAuthorization", "read", "swap",
             "ok", "refused"}

\* next: the status the call moves the settlement to; wallet: the authorizer it
\* names; hash: the transaction it reports; seen: the row its last read returned.
Call == [next : {"authorized", "submitted"}, intent : Intents,
         wallet : Wallets \union {None}, principal : Principals,
         hash : Hashes \union {None}, seen : Row, tries : 0 .. MaxAttempts]

NoCall == [next |-> "none"]

ApiInit == /\ row = [i \in Intents |-> NoRow]
           /\ authz = [i \in Intents |-> None]
           /\ pc = [r \in Requests |-> "idle"]
           /\ call = [r \in Requests |-> NoCall]

Goto(r, label) == pc' = [pc EXCEPT ![r] = label]

Refuse(r) == Goto(r, "refused") /\ UNCHANGED <<row, authz, call>>

-----------------------------------------------------------------------------
\* saveIntentWithSettlement: one transaction stores the intent and its row.
Publish(i) == /\ row[i] = NoRow
              /\ row' = [row EXCEPT ![i] = PublishedRow]
              /\ UNCHANGED <<authz, pc, call>>

\* A session bound to a smart wallet may only speak for that wallet.
OwnsWallet(principal, w) == principal \in Wallets => principal = w

\* Mutant: the settlement moves on before the authorizer is recorded.
ReceiveAuthorizeUnrecorded(r, i, w, p) ==
  /\ pc[r] = "idle"
  /\ call' = [call EXCEPT ![r] =
       [next |-> "authorized", intent |-> i, wallet |-> w, principal |-> p,
        hash |-> None, seen |-> NoRow, tries |-> 0]]
  /\ Goto(r, IF OwnsWallet(p, w) THEN "read" ELSE "refused")
  /\ UNCHANGED <<row, authz>>

\* POST /authorize reaches the server.
ReceiveAuthorize(r, i, w, p) ==
  /\ pc[r] = "idle"
  /\ call' = [call EXCEPT ![r] =
       [next |-> "authorized", intent |-> i, wallet |-> w, principal |-> p,
        hash |-> None, seen |-> NoRow, tries |-> 0]]
  /\ Goto(r, IF OwnsWallet(p, w) THEN "saveAuthorization" ELSE "refused")
  /\ UNCHANGED <<row, authz>>

\* The authorizations upsert: it replaces whoever was recorded before, and the
\* foreign key refuses an intent nobody published.
SaveAuthorization(r) ==
  /\ pc[r] = "saveAuthorization"
  /\ IF row[call[r].intent] = NoRow
       THEN Refuse(r)
       ELSE /\ authz' = [authz EXCEPT ![call[r].intent] = call[r].wallet]
            /\ Goto(r, "read")
            /\ UNCHANGED <<row, call>>

\* POST /submit reaches the server; without a session nothing is checked first.
ReceiveSubmit(r, i, h, p) ==
  /\ pc[r] = "idle"
  /\ call' = [call EXCEPT ![r] =
       [next |-> "submitted", intent |-> i, wallet |-> None, principal |-> p,
        hash |-> h, seen |-> NoRow, tries |-> 0]]
  /\ Goto(r, IF p = Anonymous THEN "read" ELSE "checkAuthorization")
  /\ UNCHANGED <<row, authz>>

\* The route reads the authorization, then calls submit without holding it.
CheckAuthorization(r) ==
  /\ pc[r] = "checkAuthorization"
  /\ LET w == authz[call[r].intent] IN
       IF w # None /\ OwnsWallet(call[r].principal, w)
         THEN Goto(r, "read") /\ UNCHANGED <<row, authz, call>>
         ELSE Refuse(r)

\* Mutant: a repeated call is answered without looking at its hash.
ReplacesHashUnchecked(c, current) == FALSE

\* A repeated call may not bring another transaction than the recorded one.
ReplacesHash(c, current) == c.hash # None /\ current.hash # None /\ c.hash # current.hash

\* findSettlement and the decisions taken on what it returned.
ReadSettlement(r) ==
  /\ pc[r] = "read"
  /\ LET c       == call[r]
         current == row[c.intent]
     IN \/ /\ current = NoRow
           /\ Refuse(r)
        \/ /\ current.status = c.next
           /\ Goto(r, IF ReplacesHash(c, current) THEN "refused" ELSE "ok")
           /\ UNCHANGED <<row, authz, call>>
        \/ /\ current # NoRow
           /\ current.status # c.next
           /\ ~CanTransition(current.status, c.next)
           /\ Refuse(r)
        \/ /\ current # NoRow
           /\ current.status # c.next
           /\ CanTransition(current.status, c.next)
           /\ call' = [call EXCEPT ![r].seen = current]
           /\ Goto(r, "swap")
           /\ UNCHANGED <<row, authz>>

\* Mutant: the hash is written in a statement that leaves the status for later.
PatchedHashFirst(c) == IF c.hash = None THEN [c.seen EXCEPT !.status = c.next]
                                        ELSE [c.seen EXCEPT !.hash = c.hash]

\* The record written by the UPDATE: what was read, with the new status and hash.
Patched(c) == [c.seen EXCEPT !.status = c.next,
                             !.hash = IF c.hash = None THEN @ ELSE c.hash]

\* Mutant: the column has no unique index.
HashTakenUnindexed(i, h) == FALSE

\* UNIQUE (tx_hash): no other settlement may carry the hash.
HashTaken(i, h) == h # None /\ \E j \in Intents \ {i} : row[j].hash = h

\* Mutants: an UPDATE by intent_id alone; and one that compares the new status.
StillAsReadUnchecked(c) == TRUE
StillAsReadSwapped(c) == row[c.intent].status = c.next

\* WHERE intent_id = i AND status = $2: only the status is compared.
StillAsRead(c) == row[c.intent].status = c.seen.status

\* compareAndSetSettlement: the UPDATE, and the loop's answer to its row count.
SwapSettlement(r) ==
  /\ pc[r] = "swap"
  /\ LET c == call[r]
         i == c.intent
     IN \/ /\ StillAsRead(c)
           /\ ~HashTaken(i, Patched(c).hash)
           /\ row' = [row EXCEPT ![i] = Patched(c)]
           /\ Goto(r, "ok")
           /\ UNCHANGED <<authz, call>>
        \/ /\ StillAsRead(c)
           /\ HashTaken(i, Patched(c).hash)
           /\ Refuse(r)
        \/ /\ ~StillAsRead(c)
           /\ call' = [call EXCEPT ![r].tries = @ + 1]
           /\ Goto(r, IF c.tries + 1 = MaxAttempts THEN "refused" ELSE "read")
           /\ UNCHANGED <<row, authz>>

\* The reply leaves (or is lost on the way) and the slot is free again.
Answer(r) == /\ pc[r] \in {"ok", "refused"}
             /\ Goto(r, "idle")
             /\ call' = [call EXCEPT ![r] = NoCall]
             /\ UNCHANGED <<row, authz>>

\* The server's own progress on a call it has received.
Serve(r) == \/ SaveAuthorization(r)
            \/ CheckAuthorization(r)
            \/ ReadSettlement(r)
            \/ SwapSettlement(r)
            \/ Answer(r)

Receive(r) == \E i \in Intents, p \in Principals :
                \/ \E w \in Wallets : ReceiveAuthorize(r, i, w, p)
                \/ \E h \in Hashes : ReceiveSubmit(r, i, h, p)

ApiNext == \/ \E i \in Intents : Publish(i)
           \/ \E r \in Requests : Receive(r) \/ Serve(r)

ApiSpec == ApiInit /\ [][ApiNext]_apiVars

-----------------------------------------------------------------------------
\* Type invariant: the rows, the authorizations and every call in flight.
ApiTypeOK ==
  /\ row \in [Intents -> Row]
  /\ authz \in [Intents -> Wallets \union {None}]
  /\ pc \in [Requests -> PcStates]
  /\ call \in [Requests -> Call \union {NoCall}]
  /\ \A r \in Requests : pc[r] # "idle" => call[r] \in Call

\* compareAndSetSettlement compares only the status but writes back every
\* column of the earlier read.  That is safe because a row whose status is
\* still the one that was read is still the whole row that was read.
SwapWritesFreshRow ==
  \A r \in Requests : pc[r] = "swap" /\ StillAsRead(call[r])
                        => row[call[r].intent] = call[r].seen

\* A submit answered with success is on record: whatever happened to the row
\* since, it carries the hash the caller reported (IntentService.submit).
SubmitAnswerIsRecorded ==
  \A r \in Requests : pc[r] = "ok" /\ call[r].next = "submitted"
                        => row[call[r].intent].hash = call[r].hash

\* "Records who authorized the payment before moving the settlement forward"
\* (IntentService.authorize): no row is past approval without an authorizer.
AuthorizerRecordedFirst ==
  \A i \in Intents : row[i].status \in {"authorized", "submitted", "confirmed"}
                        => authz[i] # None

\* One transaction settles one request: whatever two submits carrying the same
\* hash do between their reads and their UPDATEs, one of them is refused.
HashNamesOneIntent ==
  \A i, j \in Intents : i # j /\ row[i].hash # None => row[i].hash # row[j].hash

\* The tracing promise of IntentService.authorize read strictly: the recorded
\* authorizer of a submitted payment is no longer replaced.  The upsert that
\* runs ahead of the status check breaks it.
AuthorizationOutlivesSubmission ==
  [][\A i \in Intents : row[i].status \in {"submitted", "confirmed"}
                            => authz'[i] = authz[i]]_apiVars

\* The rows behave as the abstract book of payments, with nothing executed.
ApiBook == INSTANCE PaymentBook WITH
  status <- [i \in Intents |-> row[i].status],
  hash <- [i \in Intents |-> row[i].hash],
  executed <- {}

\* Every change a request makes to a row is a step of that book.
ImplementsBook == ApiBook!BookSpec

=============================================================================
