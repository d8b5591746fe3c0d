------------------------------ MODULE MCLiveness ------------------------------
(***************************************************************************)
(* What must eventually happen, for TLC: rows are closed by the worker     *)
(* (MCReconciliation), and a deposit that arrived is settled although the  *)
(* phone's RPC node lags (LiraRamp).  They share no state: a behaviour     *)
(* lives the one its initial state picks while the other stands still, and *)
(* each is owed its own fairness.                                          *)
(***************************************************************************)
EXTENDS MCReconciliation

CONSTANTS Transfers, Keys, Ticks, MaxVisits, RpcLags, Nothing

VARIABLES part,
          custody, stored, minted, trusts, place, unseen, opened, txs, paid, visit, mounted, flow, timer,
          shown, tick, outcome, recorded, signedOut

Ramp == INSTANCE LiraRamp

ASSUME RampConstants == Ramp!RampAssumption

rampSide == <<custody, stored, minted, trusts, place, unseen, opened, txs, paid, visit, mounted, flow,
              timer, shown, tick, outcome, recorded, signedOut>>
livenessVars == <<part, recVars, rampSide>>

InWorker == part = "worker" /\ UNCHANGED <<part, rampSide>>
InRamp   == part = "ramp" /\ UNCHANGED <<part, recVars>>

LivenessInit == /\ part \in {"worker", "ramp"} /\ RecInit /\ Ramp!RampInit
                /\ part # "ramp" => custody = "smart" /\ trusts = {}

\* Only the worker has to go on forever: people may stop.
Rests == part # "worker" /\ UNCHANGED livenessVars

LivenessNext == (InWorker /\ RecNext) \/ (InRamp /\ Ramp!RampNext) \/ Rests

\* RecFairSpec; the ramp's fairness is a premise of its property: the interval
\* fires while it is set and its callbacks run to their end, and neither a bank,
\* an anchor nor a customer promises anything.
LivenessSpec == /\ LivenessInit /\ [][LivenessNext]_livenessVars
                /\ \A w \in Workers : WF_livenessVars(InWorker /\ WorkerStep(w))

\* LiraRamp: a deposit that arrived is settled or told of, if the interval fires.
ArrivedIsSettledOrTold ==
  (\A s \in Ticks : /\ WF_livenessVars(InRamp /\ Ramp!TickStep(s))
                    /\ \A v \in 1 .. MaxVisits : WF_livenessVars(InRamp /\ Ramp!Poll(s, v)))
  => Ramp!ArrivedIsSettledOrTold

================================================================================
