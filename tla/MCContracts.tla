----------------------------- MODULE MCContracts -----------------------------
(***************************************************************************)
(* The two contracts, for TLC: the settlement contract with the instance   *)
(* of MCSettlementContract, and the wallet contract under every sequence   *)
(* of calls.  They share no state, so a behaviour explores the one its     *)
(* initial state picks and the other stands still.                         *)
(***************************************************************************)
EXTENDS MCSettlementContract, SmartWallet

VARIABLE part

ASSUME WalletConstants == WalletAssumption

contractVars == <<part, scVars, walletVars>>

ContractsInit == part \in {"settlement", "wallet"} /\ ScInit /\ SwInit

\* Only the settlement contract has to go on forever.
Rests == part = "wallet" /\ UNCHANGED contractVars

ContractsNext == \/ part = "settlement" /\ ScNext /\ UNCHANGED <<part, walletVars>>
                 \/ part = "wallet" /\ SwNext /\ UNCHANGED <<part, scVars>>
                 \/ Rests

ContractsSpec == ContractsInit /\ [][ContractsNext]_contractVars

==============================================================================
