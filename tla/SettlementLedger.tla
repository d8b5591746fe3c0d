-------------------------- MODULE SettlementLedger --------------------------
(***************************************************************************)
(* What the books may expect of the chain, and what the settlement         *)
(* contract gives them: requests are settled one after the other, each of  *)
(* them once at most, and none at or after the ledger it expires at.  The  *)
(* chain that Reconciliation assumes and the contract of                   *)
(* SettlementContract both implement it.                                   *)
(***************************************************************************)
EXTENDS Naturals, Sequences

CONSTANTS Ids,       \* payment request identifiers
          Deadlines  \* ledgers at which a request may expire

VARIABLES now,       \* sequence of the ledger being built
          settled    \* the settlements so far, in ledger order

ledgerVars == <<now, settled>>

LedgerInit == now = 1 /\ settled = <<>>

Settle(id, deadline) == /\ \A n \in 1 .. Len(settled) : settled[n].id # id
                        /\ now < deadline
                        /\ settled' = Append(settled, [id |-> id, deadline |-> deadline])
                        /\ UNCHANGED now

Close == now' = now + 1 /\ UNCHANGED settled

LedgerNext == Close \/ \E id \in Ids, deadline \in Deadlines : Settle(id, deadline)

LedgerSpec == LedgerInit /\ [][LedgerNext]_ledgerVars

=============================================================================
