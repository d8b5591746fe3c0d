---------------------------- MODULE PaymentBook -----------------------------
(***************************************************************************)
(* What the settlement records promise a merchant, with no handler, worker *)
(* or network in sight: one record per payment request, a status that only *)
(* moves along the domain's table, a transaction hash that is written once *)
(* and never replaced, and a confirmation only for a transaction the chain *)
(* executed.  SettlementApi and Reconciliation implement it.               *)
(***************************************************************************)
EXTENDS Naturals, PaymentLifecycle

CONSTANTS Intents,   \* payment request identifiers
          Hashes,    \* transaction hashes
          None       \* "no hash yet"

VARIABLES status,    \* status[i]: a domain status, or "none" before publication
          hash,      \* hash[i]: the recorded settlement transaction
          executed   \* hashes the chain reports as successful

bookVars == <<status, hash, executed>>

BookInit == /\ status = [i \in Intents |-> "none"]
            /\ hash = [i \in Intents |-> None]
            /\ executed = {}

\* A merchant's request is recorded, waiting for a customer.
Open(i) == /\ status[i] = "none"
           /\ status' = [status EXCEPT ![i] = "awaiting_approval"]
           /\ UNCHANGED <<hash, executed>>

\* The record learns the one transaction that is to pay it.
Attach(i, h) == /\ status[i] = "authorized"
                /\ hash[i] = None
                /\ status' = [status EXCEPT ![i] = "submitted"]
                /\ hash' = [hash EXCEPT ![i] = h]
                /\ UNCHANGED executed

\* Any other legal move that does not claim the payment happened.
Move(i, s) == /\ status[i] \in Statuses
              /\ CanTransition(status[i], s)
              /\ s \notin {"submitted", "confirmed"}
              /\ status' = [status EXCEPT ![i] = s]
              /\ UNCHANGED <<hash, executed>>

\* A payment is confirmed only when the chain executed its own transaction.
Confirm(i) == /\ status[i] = "submitted"
              /\ hash[i] \in executed
              /\ status' = [status EXCEPT ![i] = "confirmed"]
              /\ UNCHANGED <<hash, executed>>

\* The chain executes a transaction, whatever the records say about it.
Execute(h) == /\ h \in Hashes \ executed
              /\ executed' = executed \union {h}
              /\ UNCHANGED <<status, hash>>

BookNext == \/ \E i \in Intents : \/ Open(i)
                                  \/ \E h \in Hashes : Attach(i, h)
                                  \/ \E s \in Statuses : Move(i, s)
                                  \/ Confirm(i)
            \/ \E h \in Hashes : Execute(h)

BookSpec == BookInit /\ [][BookNext]_bookVars

=============================================================================
