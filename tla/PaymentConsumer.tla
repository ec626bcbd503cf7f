--------------------------- MODULE PaymentConsumer ---------------------------
(***************************************************************************)
(* app/consumer.py around PaymentProcessor: deliveries taken from the      *)
(* payments queue, acknowledged by hand, republished to the retry queue    *)
(* with a growing delay or moved to the dead-letter queue.  The broker     *)
(* (RabbitMQ with the topology of app/infrastructure/messaging.py) is      *)
(* external: queues keep their messages, an unacknowledged delivery comes  *)
(* back when its connection is lost or its acknowledgement is overdue.     *)
(***************************************************************************)
EXTENDS PaymentProcessor

CONSTANTS
  Copies,           \* the messages that can exist at once
  MaxRetries,       \* consumer_retry_attempts
  BaseDelay,        \* consumer_retry_base_delay_seconds, in ticks
  ExpirationFactor, \* what a delay is multiplied with: 1000
  MaxMishaps        \* bound on the mishaps of one behaviour

ASSUME ConsumerAssumption ==
  /\ None \notin Copies
  /\ MaxRetries \in Nat
  /\ BaseDelay \in Nat \ {0}
  /\ ExpirationFactor \in Nat \ {0}
  /\ MaxMishaps \in Nat

VARIABLES
  message,     \* the broker's copies of the payment-created events
  job,         \* the delivery each worker is handling
  dlq,         \* payments with a message in the dead-letter queue
  published,   \* payments whose event the relay has published
  mishaps,     \* number of mishaps so far
  duplicated   \* history: payments that ever had a second message

brokerVars == <<message, job, dlq, published, mishaps, duplicated>>
consumerVars == <<processorVars, brokerVars>>

(* calculate_retry_delay_seconds *)
RetryDelay(n) == BaseDelay * 2 ^ (n - 1)

(* How long a message stays in the retry queue: line 114 turns the delay   *)
(* into milliseconds, and the broker client reads them as seconds.         *)
Expiration(n) == ExpirationFactor * RetryDelay(n)

(* Arithmetic the provers do not know. *)
ASSUME RetryDelayAssumption == \A n \in 1..MaxRetries : RetryDelay(n) \in Nat

-----------------------------------------------------------------------------
(* at: where the broker has the message; retry: x-retry-count; wait: what  *)
(* is left of the expiration in the retry queue.                           *)
Message == [at : {"free", "queue", "unacked", "retry"},
            pay : Payments \cup {None}, retry : Nat, wait : Nat]

NoMessage == [at |-> "free", pay |-> None, retry |-> 0, wait |-> 0]

InQueue(p) == [at |-> "queue", pay |-> p, retry |-> 0, wait |-> 0]

(* Faulty: _handle_retryable_error publishes without an expiration that    *)
(* delays anything.                                                        *)
InRetryQueueAtOnce(p, n) == [at |-> "retry", pay |-> p, retry |-> n, wait |-> 0]

InRetryQueue(p, n) ==
  [at |-> "retry", pay |-> p, retry |-> n, wait |-> Expiration(n)]

(* handle: process() is running or its result is to be dealt with; settle: *)
(* the message was republished, the delivery is to be acknowledged.  copy  *)
(* is None once the broker has taken the delivery back.                    *)
Job == [stage : {"none", "handle", "settle"}, copy : Copies \cup {None},
        retry : Nat]

NoJob == [stage |-> "none", copy |-> None, retry |-> 0]

ConsumerInit ==
  /\ Init
  /\ message = [c \in Copies |-> NoMessage]
  /\ job = [w \in Workers |-> NoJob]
  /\ dlq = {}
  /\ published = {}
  /\ mishaps = 0
  /\ duplicated = {}

Owns(w) == job[w].copy # None
Live(p) == {c \in Copies : message[c].at # "free" /\ message[c].pay = p}

(* A delivery its worker will never acknowledge. *)
Orphan(c) ==
  message[c].at = "unacked" /\ \A w \in Workers : job[w].copy # c

Mishap == mishaps < MaxMishaps /\ mishaps' = mishaps + 1

(* The broker forgets, or takes back, the delivery w owns. *)
Settled(w, at) ==
  message' = IF ~Owns(w) THEN message
             ELSE [message EXCEPT ![job[w].copy] =
                     IF at = "free" THEN NoMessage ELSE [@ EXCEPT !.at = at]]

-----------------------------------------------------------------------------
(* A message the relay publishes reaches the payments queue. *)
Arrive(p) ==
  /\ \E c \in Copies :
       /\ message[c].at = "free"
       /\ message' = [message EXCEPT ![c] = InQueue(p)]
  /\ published' = published \cup {p}
  /\ duplicated' = duplicated \cup ({p} \cap published)
  /\ UNCHANGED <<processorVars, job, dlq>>

(* broker.publish in OutboxRelay._publish_once.  The relay publishes an    *)
(* event again when it could not record that it was published.             *)
RelayPublish(p) ==
  /\ Arrive(p)
  /\ IF p \in published THEN Mishap ELSE UNCHANGED mishaps

(* Lines 39-54: a delivery arrives and process() is called. *)
Take(w, c) ==
  /\ job[w].stage = "none"
  /\ message[c].at = "queue"
  /\ Begin(w, message[c].pay)
  /\ message' = [message EXCEPT ![c].at = "unacked"]
  /\ job' = [job EXCEPT ![w] =
       [stage |-> "handle", copy |-> c, retry |-> message[c].retry]]
  /\ UNCHANGED <<dlq, published, mishaps, duplicated>>

(* Lines 48-49: without a broker connection the handler connects and       *)
(* declares the topology first, outside its try: when that raises, the     *)
(* delivery stays unacknowledged.                                          *)
SetupFails(c) ==
  /\ message[c].at = "queue"
  /\ Mishap
  /\ message' = [message EXCEPT ![c].at = "unacked"]
  /\ UNCHANGED <<processorVars, job, dlq, published, duplicated>>

(* Line 54. *)
Process(w) == Step(w) /\ UNCHANGED brokerVars

(* Line 56. *)
Ack(w) ==
  /\ job[w].stage = "handle"
  /\ task[w].pc = "done"
  /\ Owns(w)
  /\ Finish(w)
  /\ Settled(w, "free")
  /\ job' = [job EXCEPT ![w] = NoJob]
  /\ UNCHANGED <<dlq, published, mishaps, duplicated>>

(* Lines 64-70: process() raised, or message.ack() did because the         *)
(* delivery is no longer this connection's.                                *)
Failed(w) ==
  /\ job[w].stage = "handle"
  /\ task[w].pc = "failed" \/ (task[w].pc = "done" /\ ~Owns(w))

(* The publication of lines 87-116: dead-letter queue or retry queue. *)
Republished(w) ==
  \/ /\ job[w].retry >= MaxRetries
     /\ dlq' = dlq \cup {Pay(w)}
     /\ UNCHANGED message
  \/ /\ job[w].retry < MaxRetries
     /\ \E c \in Copies :
          /\ message[c].at = "free"
          /\ message' = [message EXCEPT
               ![c] = InRetryQueue(Pay(w), job[w].retry + 1)]
     /\ UNCHANGED dlq

(* A republication of a message the broker has, or will have, back. *)
Duplicates(w) ==
  duplicated' = IF Owns(w) THEN duplicated ELSE duplicated \cup {Pay(w)}

(* _handle_retryable_error up to its message.ack(). *)
Dispose(w) ==
  /\ Failed(w)
  /\ Republished(w)
  /\ Finish(w)
  /\ job' = [job EXCEPT ![w].stage = "settle"]
  /\ Duplicates(w)
  /\ UNCHANGED <<published, mishaps>>

(* Faulty: the delivery is acknowledged although the publication raised. *)
DisposeFailsAcked(w) ==
  /\ Failed(w)
  /\ Mishap
  /\ Settled(w, "free")
  /\ Finish(w)
  /\ job' = [job EXCEPT ![w] = NoJob]
  /\ UNCHANGED <<dlq, published, duplicated>>

(* The publication raises, sent or not: the exception leaves the handler   *)
(* and the delivery stays unacknowledged.                                  *)
DisposeFails(w) ==
  /\ Failed(w)
  /\ Mishap
  /\ \/ Republished(w) /\ duplicated' = duplicated \cup {Pay(w)}
     \/ UNCHANGED <<message, dlq, duplicated>>
  /\ Finish(w)
  /\ job' = [job EXCEPT ![w] = NoJob]
  /\ UNCHANGED published

(* Lines 89 and 117.  An acknowledgement that raises ends the handler too. *)
Settle(w) ==
  /\ job[w].stage = "settle"
  /\ Settled(w, "free")
  /\ job' = [job EXCEPT ![w] = NoJob]
  /\ UNCHANGED <<processorVars, dlq, published, mishaps, duplicated>>

-----------------------------------------------------------------------------
(* The payment of the delivery a worker owns. *)
Subject(w) == IF Owns(w) THEN {message[job[w].copy].pay} ELSE {}

(* The consumer process dies: its deliveries go back to the queue. *)
Die(w) ==
  /\ job[w].stage # "none"
  /\ Mishap
  /\ Crash(w)
  /\ Settled(w, "queue")
  /\ job' = [job EXCEPT ![w] = NoJob]
  /\ duplicated' = IF job[w].stage = "settle" THEN duplicated \cup Subject(w)
                   ELSE duplicated
  /\ UNCHANGED <<dlq, published>>

(* Faulty: the worker still thinks the delivery is its own. *)
DropUnnoticed(w) ==
  /\ Owns(w)
  /\ Mishap
  /\ Settled(w, "queue")
  /\ duplicated' = duplicated \cup Subject(w)
  /\ UNCHANGED <<processorVars, job, dlq, published>>

(* The broker connection is lost, or the broker gives up waiting for the   *)
(* acknowledgement; process() runs on.                                     *)
Drop(w) ==
  /\ Owns(w)
  /\ Mishap
  /\ Settled(w, "queue")
  /\ job' = [job EXCEPT ![w].copy = None]
  /\ duplicated' = duplicated \cup Subject(w)
  /\ UNCHANGED <<processorVars, dlq, published>>

(* The broker takes back a delivery nobody will acknowledge. *)
Requeue(c) ==
  /\ Orphan(c)
  /\ message' = [message EXCEPT ![c].at = "queue"]
  /\ UNCHANGED <<processorVars, job, dlq, published, mishaps, duplicated>>

(* Faulty: a retry queue without a dead-letter exchange. *)
ExpireDropped(c) ==
  /\ message[c].at = "retry"
  /\ message[c].wait = 0
  /\ message' = [message EXCEPT ![c] = NoMessage]
  /\ UNCHANGED <<processorVars, job, dlq, published, mishaps, duplicated>>

(* The expiration is over: the retry queue's dead-letter exchange is the   *)
(* payments exchange.                                                      *)
Expire(c) ==
  /\ message[c].at = "retry"
  /\ message[c].wait = 0
  /\ message' = [message EXCEPT ![c].at = "queue"]
  /\ UNCHANGED <<processorVars, job, dlq, published, mishaps, duplicated>>

Elapse ==
  /\ Tick
  /\ message' = [c \in Copies |->
       IF message[c].wait = 0 THEN message[c]
       ELSE [message[c] EXCEPT !.wait = @ - 1]]
  /\ UNCHANGED <<job, dlq, published, mishaps, duplicated>>

Handle(w) ==
  Process(w) \/ Ack(w) \/ Dispose(w) \/ DisposeFails(w) \/ Settle(w)

(* What the consumer and the broker do with the messages there are. *)
Consume ==
  \/ \E w \in Workers :
       \/ \E c \in Copies : Take(w, c)
       \/ Process(w)
       \/ Ack(w)
       \/ Dispose(w)
       \/ DisposeFails(w)
       \/ Settle(w)
       \/ Die(w)
       \/ Drop(w)
  \/ \E c \in Copies : SetupFails(c) \/ Requeue(c) \/ Expire(c)

ConsumerNext == (\E p \in Payments : RelayPublish(p)) \/ Consume \/ Elapse

ConsumerSpec == ConsumerInit /\ [][ConsumerNext]_consumerVars

(* The handler runs on while the process lives, the database, the gateway  *)
(* and the HTTP client answer, the broker delivers what it queues, takes   *)
(* back what is not acknowledged in time, and time passes.                 *)
ConsumerFairness ==
  /\ \A p \in Payments :
       WF_consumerVars(p \notin published /\ RelayPublish(p))
  /\ \A w \in Workers : WF_consumerVars(Handle(w))
  /\ \A c \in Copies :
       /\ WF_consumerVars(\E w \in Workers : Take(w, c))
       /\ WF_consumerVars(Requeue(c))
       /\ WF_consumerVars(Expire(c))
  /\ WF_consumerVars(Elapse)

ConsumerFairSpec == ConsumerSpec /\ ConsumerFairness

-----------------------------------------------------------------------------
ConsumerTypeOK ==
  /\ TypeOK
  /\ message \in [Copies -> Message]
  /\ job \in [Workers -> Job]
  /\ dlq \subseteq Payments
  /\ published \subseteq Payments
  /\ mishaps \in 0..MaxMishaps
  /\ duplicated \subseteq Payments

(* A message that will still be handled, or is being handled. *)
Pending(c) ==
  /\ message[c].at # "free"
  /\ ~\E w \in Workers : job[w].stage = "settle" /\ job[w].copy = c

(* No published payment is lost: it is recorded as delivered, or in the    *)
(* dead-letter queue, or a message about it is left that is not about to   *)
(* be acknowledged, wherever a worker died, a connection was lost or a     *)
(* publication failed (the order of publish and ack in                     *)
(* _handle_retryable_error, the ack after process()).                      *)
NothingLost ==
  \A p \in published :
    \/ payment[p].delivered
    \/ p \in dlq
    \/ \E c \in Live(p) : Pending(c)

(* A worker's delivery, and the call of process() made for it. *)
JobOK(w) ==
  /\ job[w].stage = "handle" <=> task[w].pc # "idle"
  /\ job[w].stage = "none" => ~Owns(w)
  /\ Owns(w) => message[job[w].copy].at = "unacked"
  /\ Owns(w) /\ job[w].stage = "handle" => message[job[w].copy].pay = Pay(w)

(* The inductive invariant behind NothingLost. *)
ConsumerInv ==
  /\ ProcessorInv
  /\ ConsumerTypeOK
  /\ \A c \in Copies : message[c].at # "free" => message[c].pay # None
  /\ \A w \in Workers : JobOK(w)
  /\ \A v, w \in Workers : v # w /\ Owns(v) => job[v].copy # job[w].copy
  /\ NothingLost

(* Nothing is queued, and no call runs, that the relay has not published.  *)
OnlyPublishedHandled ==
  /\ \A c \in Copies : message[c].at # "free" => message[c].pay \in published
  /\ \A w \in Workers : Pay(w) \in published \cup {None}

(* As long as a payment never had a second message, the merchant is told   *)
(* the status the payment has and nothing else: crashes, database errors   *)
(* and redeliveries do not suffice to tell anything else.                  *)
TruthUnlessDuplicated ==
  \A p \in Payments \ duplicated : heard[p] \subseteq {payment[p].status}

(* Retries and redeliveries alone never charge again: without a mishap and *)
(* a failed transaction, a settled payment was charged once if it          *)
(* succeeded and not at all if it failed.                                  *)
ChargeMatchesRow ==
  \A p \in Payments \ dbFailed :
    mishaps = 0 /\ payment[p].status # "pending"
    => charges[p] = IF payment[p].status = "succeeded" THEN 1 ELSE 0

(* A recorded delivery carries no error of an earlier or a later attempt   *)
(* (webhook_last_error), unless two deliveries of the payment overlap:     *)
(* update_webhook_result looks at no other column of the row.              *)
ErrorMeansUndelivered ==
  \A p \in Payments \ duplicated : payment[p].delivered => ~payment[p].error

(* What a call knows when no other call is made for its payment. *)
LoneCallOK(w) ==
  /\ task[w].pc \in {"gateway", "mark"} => RowOf(w).status = "pending"
  /\ task[w].pc \in {"acquire"} \cup InLease => task[w].verdict = RowOf(w).status
  /\ task[w].pc \in {"gateway", "mark", "acquire", "giveup"} \cup InLease
       => ~RowOf(w).delivered

(* The gateway's success is in the row, or about to be. *)
Charged(p) ==
  \/ payment[p].status = "succeeded"
  \/ \E w \in Workers :
       Pay(w) = p /\ task[w].pc = "mark" /\ task[w].verdict = "succeeded"

(* The inductive invariant behind the three: a payment that never had a    *)
(* second message has at most one that will be handled, its call owns that *)
(* delivery and so knows its row, and without a mishap nothing is charged  *)
(* that does not get into the row.                                         *)
LoneInv ==
  /\ \A p \in Payments \ duplicated :
       \A c, d \in Live(p) : Pending(c) /\ Pending(d) => c = d
  /\ \A w \in Workers :
       task[w].pc # "idle" /\ Pay(w) \notin duplicated => Owns(w) /\ LoneCallOK(w)
  /\ TruthUnlessDuplicated
  /\ ErrorMeansUndelivered
  /\ mishaps = 0 =>
       \A p \in Payments \ (dbFailed \cup duplicated) :
         charges[p] = IF Charged(p) THEN 1 ELSE 0

(* The README's "DLX/DLQ for messages that cannot be repaired": a payment  *)
(* is given up only after its webhook or one of its transactions failed.   *)
DeadLetterHasCause == dlq \subseteq refused \cup dbFailed

(* calculate_retry_delay_seconds, retry.py:7-10: "retry_number=1 -> 1s".    *)
(* A message is back from the retry queue when the delay computed for its   *)
(* retry is over, as far as the expiration says.                           *)
RetriesOnTime ==
  \A c \in Copies :
    message[c].at = "retry" => message[c].wait <= RetryDelay(message[c].retry)

(* Every retry comes when the lock a dead call left in the row is stale.   *)
DelaysOutlastLock == \A n \in 1..MaxRetries : Expiration(n) > LockTTL

(* No lock will be in the way of c's call: none in the row, one that is    *)
(* stale by then, or its own.                                              *)
WayFree(c) ==
  LET row == payment[message[c].pay] IN
  \/ row.lock = None
  \/ row.age + message[c].wait > LockTTL
  \/ \E w \in Workers : job[w].copy = c /\ task[w].id = row.lock

(* Each failure so far of c's calls has a mishap of its own.               *)
FailuresMatched(c) ==
  /\ message[c].retry <= mishaps
  /\ message[c].retry = mishaps =>
       WayFree(c) /\ \A w \in Workers : job[w].copy = c => task[w].pc # "failed"

(* Nothing the service meets outside accounts for a failure of p, and no   *)
(* second message.                                                         *)
Blameless(p) == p \notin refused \cup dbFailed \cup duplicated

(* Which failures webhook_lock_ttl_seconds alone can cause: only a mishap  *)
(* leaves a lock behind, and if the delays are long enough it costs a      *)
(* payment one retry, so that MaxRetries mishaps do not dead-letter it.    *)
PatienceInv ==
  /\ \A c \in Copies : message[c].at # "retry" => message[c].wait = 0
  /\ \A w \in Workers :
       /\ Owns(w) => job[w].retry = message[job[w].copy].retry
       /\ task[w].pc \in {"giveup", "cleanup"} => Pay(w) \in refused \cup dbFailed
  /\ \A p \in Payments \ published : payment[p].lock = None
  /\ DelaysOutlastLock \/ mishaps = 0 =>
       \A p \in Payments : Blameless(p) =>
         /\ p \in dlq => mishaps > MaxRetries
         /\ \A c \in Live(p) : Pending(c) => FailuresMatched(c)

(* Every published payment ends with its webhook recorded or in the        *)
(* dead-letter queue.                                                      *)
EventuallyResolved ==
  \A p \in Payments :
    p \in published ~> payment[p].delivered \/ p \in dlq
=============================================================================
