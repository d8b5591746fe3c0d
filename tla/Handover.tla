------------------------------ MODULE Handover ------------------------------
(***************************************************************************)
(* What the countersignature meeting point promises: a request is claimed  *)
(* by one customer and stays theirs, the merchant signs once, for that     *)
(* customer, and nobody else ever walks away with the signature.           *)
(***************************************************************************)
CONSTANTS Customers, None

VARIABLES owner,    \* the customer the request belongs to, or None
          signed,   \* the merchant's signature is stored
          takers    \* customers who hold the signature

handoverVars == <<owner, signed, takers>>

HandoverInit == owner = None /\ signed = FALSE /\ takers = {}

Claim(c) == /\ owner = None
            /\ owner' = c
            /\ UNCHANGED <<signed, takers>>

SignForOwner == /\ owner # None
                /\ ~signed
                /\ signed' = TRUE
                /\ UNCHANGED <<owner, takers>>

Take(c) == /\ owner = c
           /\ signed
           /\ takers' = takers \union {c}
           /\ UNCHANGED <<owner, signed>>

HandoverNext == SignForOwner \/ \E c \in Customers : Claim(c) \/ Take(c)

HandoverSpec == HandoverInit /\ [][HandoverNext]_handoverVars

=============================================================================
