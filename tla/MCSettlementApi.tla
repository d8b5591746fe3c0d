-------------------------- MODULE MCSettlementApi --------------------------
(* Instances of SettlementApi for TLC: the members of each set are model    *)
(* values, interchangeable wherever the specification treats them alike.    *)
EXTENDS SettlementApi, TLC

\* Intents, wallets, hashes and request slots carry no identity of their own.
ApiSymmetry == Permutations(Intents) \union Permutations(Wallets)
                 \union Permutations(Hashes) \union Permutations(Requests)

=============================================================================
