----------------------------- MODULE MCPublishing -----------------------------
(***************************************************************************)
(* Retries, for TLC: a payment retried after the network refused or        *)
(* dropped it (MCReconciliation), and the publication of a request retried *)
(* while an earlier delivery is still being served, or an earlier run of   *)
(* the effect still under way (MerchantCounter, with two of the one and    *)
(* one of the other in turn).  They share no state: a behaviour explores   *)
(* the one its initial state picks and the others stand still.             *)
(***************************************************************************)
EXTENDS MCReconciliation, MerchantCounter

VARIABLE part

ASSUME PublishingConstants == CounterAssumption

publishingVars == <<part, recVars, mcVars>>

PublishingInit == part \in {"worker", "deliver", "rerun"} /\ RecInit /\ McInit

\* Only the worker has to go on forever: people may stop.
Rests == part # "worker" /\ UNCHANGED publishingVars

OneRun      == LET first == CHOOSE l \in Runs : TRUE
               IN  \A l \in Runs \ {first} : run'[l] = NoRun
OneDelivery == LET first == CHOOSE d \in Deliveries : TRUE
               IN  \A d \in Deliveries \ {first} : delivery'[d] = NoDelivery

CounterStep == McNext /\ UNCHANGED <<part, recVars>>

PublishingNext == \/ part = "worker" /\ RecNext /\ UNCHANGED <<part, mcVars>>
                  \/ part = "deliver" /\ CounterStep /\ OneRun
                  \/ part = "rerun" /\ CounterStep /\ OneDelivery
                  \/ Rests

PublishingSpec == PublishingInit /\ [][PublishingNext]_publishingVars

================================================================================
