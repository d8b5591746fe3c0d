------------------------------- MODULE MCCounter -------------------------------
(***************************************************************************)
(* A payment at the counter without the customer's network, for TLC: the   *)
(* conversation (OfflineCounter), and the Bluetooth link under it          *)
(* (ProximityLink).  The conversation is checked over any link that        *)
(* delivers in order or breaks, the link with any words: a behaviour       *)
(* explores the one its initial state picks and the other stands still.    *)
(* The two requests of the conversation are also the two broadcasts of the *)
(* link: fewer values, a smaller symmetry group.                           *)
(***************************************************************************)
EXTENDS OfflineCounter, ProximityLink, TLC

CONSTANTS offer, result, payer, approval

VARIABLE part

\* A request and a result are short, an approval takes three frames.
Kind == [q \in Broadcasts |-> "request"] @@ payer :> "payer" @@ offer :> "authRequest"
          @@ approval :> "authorization" @@ result :> "result"
Size == [q \in Broadcasts |-> 2] @@ payer :> 2 @@ offer :> 2 @@ approval :> 3 @@ result :> 1

EveryPair == {"ios", "android"} \X {"ios", "android"}

ASSUME LinkConstants == LinkAssumption /\ OneOfAKind

CounterInit == /\ part \in {"conversation", "link"} /\ OcInit /\ PlInit
               /\ part # "link" => os = <<"ios", "ios">>

CounterNext == \/ part = "conversation" /\ OcNext /\ UNCHANGED <<part, plVars>>
               \/ part = "link" /\ PlNext /\ UNCHANGED <<part, ocVars>>

CounterSpec == CounterInit /\ [][CounterNext]_<<part, ocVars, plVars>>

CounterSymmetry == Permutations(Requests) \union Permutations(Customers)

================================================================================
