--------------------------- MODULE PaymentRegistry ---------------------------
(***************************************************************************)
(* What creating payments promises, without saying how: a payment and its  *)
(* event appear in one step, once for a key, and a client is answered only *)
(* with a payment that is there.  Requests, transactions, rows that are    *)
(* not committed and retries are absent; PaymentIntake is shown to         *)
(* implement this module.                                                  *)
(***************************************************************************)
EXTENDS Naturals

CONSTANTS Keys, Ids

VARIABLES
  payments,   \* the payments there are, with their keys
  events,     \* [Ids -> Nat]: events to publish about each payment
  answers     \* the payments clients were answered with

vars == <<payments, events, answers>>

Init ==
  /\ payments = {}
  /\ events = [i \in Ids |-> 0]
  /\ answers = {}

(* The key and the id are new; the payment comes with one event. *)
Register(key, id) ==
  /\ \A p \in payments : p.key # key /\ p.id # id
  /\ payments' = payments \cup {[key |-> key, id |-> id]}
  /\ events' = [events EXCEPT ![id] = 1]
  /\ UNCHANGED answers

Answer(p) ==
  /\ answers' = answers \cup {p}
  /\ UNCHANGED <<payments, events>>

Next ==
  \/ \E key \in Keys, id \in Ids : Register(key, id)
  \/ \E p \in payments : Answer(p)

Spec == Init /\ [][Next]_vars
=============================================================================
