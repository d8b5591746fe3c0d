------------------------ MODULE MCSettlementContract ------------------------
(* Instances of SettlementContract for TLC.                                 *)
EXTENDS SettlementContract, TLC

CONSTANTS m1, m2, buyer, shop, usd, xlm, id1, id2

\* One request countersigned for a customer and for the shop's own account, a
\* second merchant's request that took the same identifier, and a request of
\* another identifier that costs more and expires sooner.
FirstFor(a) == [id |-> id1, merchant |-> m1, customer |-> a, recipient |-> shop,
                token |-> usd, amount |-> 1, expires |-> 3, here |-> TRUE]
SomeIntents == {FirstFor(buyer), FirstFor(shop), [FirstFor(shop) EXCEPT !.merchant = m2],
                [FirstFor(buyer) EXCEPT !.id = id2, !.amount = 2, !.expires = 2]}

\* Requests no call may settle: nothing to pay, and another network's.
VoidIntents == {[FirstFor(buyer) EXCEPT !.amount = 0], [FirstFor(buyer) EXCEPT !.here = FALSE]}

AllIntents == SomeIntents \union VoidIntents

\* The customer holds the asset the merchant asks for, both hold another.
SomeFunds == [a \in Accounts |-> [t \in Tokens |-> IF a = shop /\ t = usd THEN 0 ELSE 2]]

KeySymmetry == Permutations(Keys)

=============================================================================
