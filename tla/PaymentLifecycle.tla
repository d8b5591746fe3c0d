-------------------------- MODULE PaymentLifecycle --------------------------
(***************************************************************************)
(* The payment state machine of packages/domain: which status may follow   *)
(* which, and which statuses are the end of a payment.  Both writers of a  *)
(* settlement row, the API and the reconciliation worker, pass every       *)
(* change through this table before they touch the row.                    *)
(***************************************************************************)

Statuses == {"created", "awaiting_approval", "authorized", "submitted",
             "confirmed", "rejected", "expired", "failed"}

\* One row of the table per status; a terminal status has no successors.
AllowedTransitions ==
  [s \in Statuses |->
     CASE s = "created"           -> {"awaiting_approval", "expired", "failed"}
       [] s = "awaiting_approval" -> {"authorized", "rejected", "expired", "failed"}
       [] s = "authorized"        -> {"submitted", "expired", "failed"}
       [] s = "submitted"         -> {"confirmed", "failed"}
       [] OTHER                   -> {}]

CanTransition(from, to) == to \in AllowedTransitions[from]

IsTerminal(s) == AllowedTransitions[s] = {}

=============================================================================
