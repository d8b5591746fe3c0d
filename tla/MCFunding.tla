------------------------------- MODULE MCFunding -------------------------------
(***************************************************************************)
(* What the phone follows at somebody else's service, for TLC: the money   *)
(* it moves between a bank and its wallet (LiraRamp) and a hosted transfer *)
(* (AnchorTransfer), beside the payments an event of the contract closes   *)
(* (MCReconciliation).  They share no state: a behaviour explores the one  *)
(* its initial state picks and the others stand still.                     *)
(*                                                                         *)
(* The two openings of a hosted transfer are the two callbacks of the lira *)
(* screen: fewer values, a smaller symmetry group.                         *)
(***************************************************************************)
EXTENDS MCReconciliation, LiraRamp, AnchorTransfer

VARIABLE part

ASSUME FundingConstants == RampAssumption /\ TransferAssumption

fundingVars == <<part, recVars, rampVars, atVars>>

FundingInit == /\ part \in {"worker", "ramp", "hosted"}
               /\ RecInit /\ RampInit /\ AtInit
               /\ part # "ramp" => custody = "smart" /\ trusts = {}

\* Only the worker has to go on forever: people may stop.
Rests == part # "worker" /\ UNCHANGED fundingVars

FundingNext ==
  \/ part = "worker" /\ RecNext /\ UNCHANGED <<part, rampVars, atVars>>
  \/ part = "ramp" /\ RampNext /\ UNCHANGED <<part, recVars, atVars>>
  \/ part = "hosted" /\ AtNext /\ UNCHANGED <<part, recVars, rampVars>>
  \/ Rests

FundingSpec == FundingInit /\ [][FundingNext]_fundingVars

FundingSymmetry == Permutations(Transfers) \union Permutations(Ticks)

================================================================================
