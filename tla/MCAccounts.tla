------------------------------ MODULE MCAccounts ------------------------------
(***************************************************************************)
(* The API and the phones' accounts, for TLC: the settlement API with the  *)
(* instance of MCSettlementApi, the account on one phone (PhoneAccount),   *)
(* and the wallets of one owner's phones (WalletCustody).  Their tables    *)
(* and stores are disjoint, so a behaviour explores the one its initial    *)
(* state picks and the others stand still.                                 *)
(*                                                                         *)
(* Interchangeable values of one part serve the others too (two wallets    *)
(* are also two device keys, two slots are also two jobs and two setups),  *)
(* which keeps the symmetry group small.  Of the account, either one job   *)
(* runs at a time and one call may fail, or two sign in at once with one   *)
(* device key and no call fails.                                           *)
(***************************************************************************)
EXTENDS MCSettlementApi, PhoneAccount, WalletCustody

VARIABLE part

ASSUME AccountsConstants == AccountAssumption /\ CustodyAssumption /\ WalletAssumption

accountsVars == <<part, apiVars, paVars, custodyVars>>

AccountsInit == /\ part \in {"settlements", "account", "sharing", "custody"}
                /\ ApiInit /\ PaInit /\ CustodyInit

AccountsSymmetry == Permutations(Wallets) \union Permutations(Requests)

\* Wallets are set up and moved a bounded number of times: then their owners rest.
Rests == part = "custody" /\ UNCHANGED accountsVars

OneJob == Cardinality({j \in Jobs : job'[j] # NoJob}) <= 1
OneKey == Cardinality(minted') <= 1 /\ upsets' = 0

AccountStep == PaNext /\ UNCHANGED <<part, apiVars, custodyVars>>

AccountsNext ==
  \/ part = "settlements" /\ ApiNext /\ UNCHANGED <<part, paVars, custodyVars>>
  \/ part = "account" /\ AccountStep /\ OneJob
  \/ part = "sharing" /\ AccountStep /\ OneKey
  \/ part = "custody" /\ CustodyNext /\ UNCHANGED <<part, apiVars, paVars>>
  \/ Rests

AccountsSpec == AccountsInit /\ [][AccountsNext]_accountsVars

===============================================================================
