-------------------------- MODULE MCReconciliation --------------------------
(* Instances of Reconciliation for TLC.                                     *)
EXTENDS Reconciliation, TLC

CONSTANTS i1, i2, w1, w2, h1, h2, d1, d2

\* Every attempt at the one request.
OneIntent == [h \in Hashes |-> i1]

\* One attempt at each of two requests.
OneEach == [h \in Hashes |-> IF h = h1 THEN i1 ELSE i2]

\* One customer trying twice, or two customers trying once each.
SameWallet == [h \in Hashes |-> w1]
WalletEach == [h \in Hashes |-> IF h = h1 THEN w1 ELSE w2]

\* Each report carries a session bound to the paying wallet.
OwnSession == TxWallet

\* The second customer pays over the counter: the merchant's phone reports it,
\* with a session that owns no wallet.
CounterSession == [h \in Hashes |-> IF h = h1 THEN w1 ELSE Unbound]

\* The event of a request carries a digest of its identifier
\* (settlementEnvelope.ts), which no row is filed under.
DigestNames == [i \in Intents |-> IF i = i1 THEN d1 ELSE d2]

\* The worker's own unit tests: the event carries the row's identifier.
RowNames == [i \in Intents |-> i]

SoonExpired == [i \in Intents |-> 2]

RequestSymmetry == Permutations(Requests)
RequestWorkerSymmetry == Permutations(Requests) \union Permutations(Workers)

=============================================================================
