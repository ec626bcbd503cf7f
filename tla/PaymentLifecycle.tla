-------------------------- MODULE PaymentLifecycle --------------------------
(***************************************************************************)
(* What the service promises about a payment, without saying how: it is    *)
(* accepted, only then settled, and once; the merchant is told only about  *)
(* a settled payment, and the notification is recorded only after the      *)
(* merchant was told.  Workers, messages, locks and retries are absent;    *)
(* PaymentProcessor and Pipeline are shown to implement this module.       *)
(***************************************************************************)
CONSTANT Payments

VARIABLES
  accepted,  \* SUBSET Payments: those with a committed row
  status,    \* [Payments -> Statuses]: payments.status
  told,      \* [Payments -> BOOLEAN]: a webhook reached the merchant
  notified   \* [Payments -> BOOLEAN]: payments.webhook_delivered_at is set

vars == <<accepted, status, told, notified>>

Outcomes == {"succeeded", "failed"}
Statuses == Outcomes \cup {"pending"}

Init ==
  /\ accepted \in SUBSET Payments
  /\ status = [p \in Payments |-> "pending"]
  /\ told = [p \in Payments |-> FALSE]
  /\ notified = [p \in Payments |-> FALSE]

(* The payment is there to be processed. *)
Accept(p) ==
  /\ accepted' = accepted \cup {p}
  /\ UNCHANGED <<status, told, notified>>

(* The gateway's outcome becomes the payment's status, for good. *)
Settle(p, s) ==
  /\ p \in accepted
  /\ status[p] = "pending"
  /\ status' = [status EXCEPT ![p] = s]
  /\ UNCHANGED <<accepted, told, notified>>

(* A webhook reaches the merchant. *)
Tell(p) ==
  /\ status[p] # "pending"
  /\ told' = [told EXCEPT ![p] = TRUE]
  /\ UNCHANGED <<accepted, status, notified>>

(* The delivery is recorded. *)
Confirm(p) ==
  /\ told[p]
  /\ notified' = [notified EXCEPT ![p] = TRUE]
  /\ UNCHANGED <<accepted, status, told>>

Next ==
  \E p \in Payments :
    \/ Accept(p)
    \/ \E s \in Outcomes : Settle(p, s)
    \/ Tell(p)
    \/ Confirm(p)

Spec == Init /\ [][Next]_vars
=============================================================================
