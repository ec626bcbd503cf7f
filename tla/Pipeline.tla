------------------------------ MODULE Pipeline ------------------------------
(***************************************************************************)
(* The whole service: the API's transactions (PaymentIntake), the relay    *)
(* that publishes the outbox they write (OutboxRelay), the broker and the  *)
(* consumer (PaymentConsumer with PaymentProcessor).  They meet in two     *)
(* places: the commit of a request is what puts a row into the outbox, and *)
(* a publication is what puts a message into the payments queue.           *)
(***************************************************************************)
EXTENDS PaymentConsumer

CONSTANTS
  Keys, Requests,         \* of PaymentIntake
  Relays, BatchSize,      \* of OutboxRelay
  ClaimTTL                \* outbox_lock_ttl_seconds, in ticks

ASSUME PipelineAssumption ==
  /\ Payments \subseteq Nat
  /\ None \notin Keys
  /\ BatchSize \in Nat \ {0}
  /\ ClaimTTL \in Nat

VARIABLES
  payments, events, request, answers,  \* of PaymentIntake
  outbox, relay, bound, sent, overran  \* of OutboxRelay

(* An outbox row stands for its one payment; the relays' mishaps and the   *)
(* consumer's have one bound, so that one mishap can be anywhere.          *)
Intake == INSTANCE PaymentIntake WITH Ids <- Payments
Outbox == INSTANCE OutboxRelay WITH
  Events <- Payments, Poison <- {}, LockTTL <- ClaimTTL

intakeVars == <<payments, events, request, answers>>
outboxVars == <<outbox, relay, bound, sent, overran>>
queueVars == <<message, job, dlq, published, duplicated>>
pipelineVars == <<intakeVars, outboxVars, consumerVars>>

PipelineInit == Intake!Init /\ Outbox!Init /\ ConsumerInit

-----------------------------------------------------------------------------
(* Faulty: the outbox row does not wait for the payment's commit. *)
WrittenEarly ==
  {p \in Payments :
     /\ outbox[p].status = "absent"
     /\ \E r \in Requests : request'[r].written /\ request'[r].row.id = p}

(* The outbox rows that this step commits. *)
Written == {p \in Payments : events'[p] # events[p]}

(* A step of a request; create_event's row appears with the commit. *)
RequestStep ==
  /\ Intake!Next
  /\ IF Written = {} THEN UNCHANGED outboxVars
     ELSE \E p \in Written : Outbox!Create(p)
  /\ UNCHANGED consumerVars

(* A relay does anything but publish. *)
RelayKeeps(r) ==
  /\ Outbox!Keep(r)
  /\ UNCHANGED <<intakeVars, processorVars, queueVars>>

(* The exchange hands the message to the payments queue bound to it. *)
DeliveredToQueue(p) ==
  IF bound THEN Arrive(p) ELSE UNCHANGED <<processorVars, queueVars>>

(* A relay publishes an event, the first time or again. *)
RelayPublishes(r) ==
  /\ \E p \in relay[r].todo :
       \/ (Outbox!Accepted(r, p) \/ Outbox!AnswerLost(r, p)) /\ DeliveredToQueue(p)
       \/ Outbox!Refused(r, p) /\ UNCHANGED <<processorVars, queueVars>>
  /\ UNCHANGED intakeVars

(* The consumer and the broker know nothing of the API's processes. *)
Alone(A) == A /\ UNCHANGED <<intakeVars, outboxVars>>

TimePasses == Elapse /\ Outbox!Tick /\ UNCHANGED intakeVars

PipelineNext ==
  \/ RequestStep
  \/ \E r \in Relays : RelayKeeps(r) \/ RelayPublishes(r)
  \/ Alone(Consume)
  \/ TimePasses

PipelineSpec == PipelineInit /\ [][PipelineNext]_pipelineVars

(* The relays' fairness and the consumer's, step by step the same. *)
RelayProceeds(r) ==
  \/ Outbox!Proceed(r) /\ RelayKeeps(r)
  \/ RelayPublishes(r)

PipelineFairness ==
  /\ \A r \in Relays : WF_pipelineVars(RelayProceeds(r))
  /\ \A w \in Workers : WF_pipelineVars(Alone(Handle(w)))
  /\ \A c \in Copies :
       /\ WF_pipelineVars(Alone(\E w \in Workers : Take(w, c)))
       /\ WF_pipelineVars(Alone(Requeue(c)))
       /\ WF_pipelineVars(Alone(Expire(c)))
  /\ WF_pipelineVars(TimePasses)

PipelineFairSpec == PipelineSpec /\ PipelineFairness

-----------------------------------------------------------------------------
Committed == {p.id : p \in payments}

PipelineTypeOK == Intake!TypeOK /\ Outbox!TypeOK /\ ConsumerTypeOK

(* Nothing is queued for, and no worker runs for, a payment that is not    *)
(* committed: PaymentNotFoundError (processor.py:45) is unreachable, and   *)
(* process() may take every payment's row for granted.                     *)
OnlyCommittedHandled ==
  \A p \in Payments \ Committed :
    /\ outbox[p].status = "absent"
    /\ Live(p) = {}
    /\ \A w \in Workers : Pay(w) # p

(* From the commit of its request on, a payment always leaves a trace that *)
(* something goes on from: an outbox row still to be published, a message  *)
(* that will be handled, a recorded delivery or a dead letter.  No crash   *)
(* of the API or the consumer, no lost commit, publication or connection   *)
(* removes the last one.                                                   *)
NeverLost ==
  \A p \in Committed :
    \/ outbox[p].status \in {"pending", "in_progress"}
    \/ \E c \in Live(p) : Pending(c)
    \/ payment[p].delivered
    \/ p \in dlq

(* The inductive invariant: each component's own, and what their joint     *)
(* steps keep between them.  Outbox rows are those of committed payments,  *)
(* relays hold rows that exist, the relays' record of what was sent is the *)
(* queue's of what arrived, and only published payments are handled.       *)
PipelineInv ==
  /\ Intake!IntakeInv
  /\ Outbox!RelayInv
  /\ ConsumerInv
  /\ OnlyPublishedHandled
  /\ \A p \in Payments : p \in Committed <=> outbox[p].status # "absent"
  /\ Outbox!HeldRows
  /\ \A p \in Payments : p \in published <=> sent[p] > 0
  /\ published \subseteq Committed

(* The relays give a payment a second message only after a mishap or a     *)
(* batch that outlived its claims, and the consumer only after a mishap.   *)
OneMessageEach == mishaps = 0 /\ ~overran => duplicated = {}

(* The inductive invariant behind it and behind what the merchant is told: *)
(* of an event that was sent the table or its relay knows, and a payment   *)
(* with one message has one call, which knows its row.                     *)
QuietInv == Outbox!OnceInv /\ LoneInv /\ OneMessageEach

(* The whole service implements the abstract life of a payment, from its   *)
(* creation to its notification.                                           *)
EndToEnd == INSTANCE PaymentLifecycle WITH
  accepted <- Committed,
  status <- [p \in Payments |-> payment[p].status],
  told <- [p \in Payments |-> heard[p] # {}],
  notified <- [p \in Payments |-> payment[p].delivered]

ServiceImplementsLifecycle == EndToEnd!Spec

(* Every payment a request committed ends with its webhook recorded or in  *)
(* the dead-letter queue.                                                  *)
EventuallyHandled ==
  \A p \in Payments :
    p \in Committed ~> payment[p].delivered \/ p \in dlq
=============================================================================
