# Verification of the asynchronous payment processing service

TLA+ models of `app/`, TLC runs that check them on small instances, and TLAPS
proofs that hold for every instance. Line numbers refer to the files under
`app/`.

## 1. The system

A payment is created over HTTP, written together with an outbox event, published
to RabbitMQ by a relay, processed by a consumer that calls a gateway and tells
the merchant through a webhook, and retried or dead-lettered when that fails.

| Component | Code | State | Operations |
|---|---|---|---|
| Payment intake | `api/routes/payments.py`, `application/payments.py` | a transaction per request | create (idempotent by key), read |
| Payment rows | `PaymentRepository` | `payments`: status, delivery, webhook lock | `upsert_pending`, `mark_processed`, `update_webhook_result`, `acquire_webhook_lock`, `release_webhook_lock` |
| Outbox rows | `OutboxRepository` | `outbox`: status, claim | `create_event`, `acquire_pending_batch`, `mark_published`, `mark_publish_failed` |
| Outbox relay | `infrastructure/outbox_relay.py` | loop, current batch | start, stop, poll, publish, record |
| API lifespan | `main.py` | process up or down, topology declared | connect, declare, start relay, stop, close |
| Broker topology | `infrastructure/messaging.py` | payments, retry and dead-letter queues | publish, deliver, ack, expire |
| Consumer | `consumer.py`, `infrastructure/retry.py` | delivery in hand, retry count | process, ack, retry, dead-letter |
| Payment processor | `application/processor.py` | session copy of the row, lock id | gateway call, settle, lock, send, record |
| Webhook client, gateway | `infrastructure/webhook.py`, `application/gateway.py` | attempt count | send with retries, decide |
| Migration, ORM models | `alembic/`, `db/models.py` | the tables as declared | conversion of statuses to column texts |
| Authentication, errors, schemas, settings, deployment | `api/dependencies.py`, `api/errors.py`, `schemas/`, `config.py` | none | stateless |

The components share two tables and three queues and call nothing of each
other's: intake writes the `outbox` the relay polls; the relay publishes what
the consumer receives; consumers meet on the `payments` row.

What is hard:

* every `await` lets another worker run between reading a row and acting on it
  (gateway call, lock, webhook, record);
* crashes between an external effect and the commit that records it (gateway
  then `mark_processed`, POST then `update_webhook_result`, `broker.publish`
  then `mark_published`, republish then ack);
* leases that expire while their owner is alive (the webhook lock, the outbox
  claim), late releases and late records;
* lost answers: a POST, a commit or an ack whose outcome its caller does not
  learn;
* a retry budget and a lock TTL that are set independently of each other, and a
  delay whose unit changes between the code and the broker client;
* an ORM session that keeps its first copy of a row;
* order across components: commit before publication, declared queue before
  publication, publication before record, republication before ack.

What makes each component correct:

* intake: one payment per key, one event per payment, no request waits for ever;
* relay: what is marked published reached a queue, claims exclude each other while
  they are valid, everything is published in the end;
* processor: an outcome is final, the lock is a lease, the merchant is told
  only committed outcomes, a call that returns has delivered;
* consumer: no published payment is lost, the dead-letter queue has a cause,
  every payment is resolved in the end, retries do not charge again;
* together: process() runs only for committed payments, a committed payment
  always leaves something that goes on from it, and ends notified or
  dead-lettered.

## 2. Modules

| Module | What it is |
|---|---|
| `PaymentLifecycle` | abstract specification: a payment is accepted, settled, told, confirmed |
| `PaymentRegistry` | abstract specification of intake: payments and events appear in one step, answers follow |
| `PaymentProcessor` | `process()` with repository, gateway and webhook client, called by any number of workers |
| `PaymentConsumer` | `PaymentProcessor` inside the consumer and the broker; its steps conjoin the processor's actions with the consumer's |
| `OutboxRelay` | any number of API processes and their relays over the `outbox` table |
| `PaymentIntake` | concurrent `POST /payments` transactions; implements `PaymentRegistry` |
| `StatusColumns` | the texts of the two status columns, in a migrated database and in that of the tests |
| `Pipeline` | `PaymentIntake`, `OutboxRelay` and `PaymentConsumer` composed; implements `PaymentLifecycle` |
| `PaymentProcessor_proofs`, `PaymentConsumer_proofs`, `OutboxRelay_proofs`, `PaymentIntake_proofs` | theorems about each component |
| `PaymentRetries_proofs` | theorems about retries, the webhook lock and the dead-letter queue |
| `Pipeline_proofs` | theorems about the whole service; extends the consumer's proofs and instantiates those of intake and relay |
| `MC*` | symmetry sets for the runs |

### PaymentProcessor

`payment[p]` is the row: `status`, `delivered` (`webhook_delivered_at`), `error`
(`webhook_last_error`, as set or not), `lock`, and `age`, the time since
`webhook_locked_at`. `task[w]` is one call of
`process()`. An action is the code between two awaits that matter; an UPDATE and
the commit after it are one action because the row is locked in between.

| Action | Code |
|---|---|
| `Load` | `processor.py` 44-62, 93-96 |
| `Gateway` | 63-68, `gateway.py` |
| `Mark` | 70-92, `mark_processed` |
| `Acquire`, `Recheck` | 109-145 |
| `PostAccepted`, `Retry`, `SendFails`, `SendBreaks` | 148, `webhook.py` 41-81: an answer, another attempt, `WebhookDeliveryError`, an exception of another kind |
| `RecordDelivered`, `RecordFails` | 149-159 |
| `GiveUp`, `CleanUp` | the except blocks: 160-179, 180-186 |
| `DbError` | any of these statements raises, the commit having taken effect or not |
| `Begin`, `Finish`, `Crash`, `Tick` | the caller, the death of the process, time |

Assumptions about what is not in the repository:

* *Session.* `expire_on_commit=False` (`db/session.py`), so a later `get_by_id`
  in one `process()` returns the object loaded first, without refreshing it. An
  ORM-enabled UPDATE is applied to that object by evaluating its WHERE clause on
  the object: after a lost race the copy carries this worker's own status.
  `seen` and `verdict` are that copy.
* *Rows.* No code deletes a payment, and `process()` is called only for a
  committed one (`OnlyCommittedHandled` of `Pipeline`), so the branches for a
  missing payment are left out; nothing raises `NonRetryableProcessingError`.
* *Exceptions.* After a statement that raised, the except block may work (a
  commit failed and the session has begun anew) or fail as well (PostgreSQL has
  aborted the transaction): `CleanUp` or `DbError`.
* *Ids.* `uuid4()` returns an id that is in use nowhere.
* *Time.* `Tick` is possible in every state: nothing bounds how long a step
  takes. Ages are counted up to `LockTTL + 1`, beyond which no comparison can
  tell them apart.

`charges`, `heard`, `refused` and `dbFailed` are history variables: no action
reads them. `charges` stops at 2.

### PaymentConsumer

`message[c]` is one of `Copies` broker messages with its place, its
`x-retry-count` and what is left of its expiration; `job[w]` is the delivery a
worker is handling. `Take` to `Settle` are the handler. `SetupFails` is the
connection it makes first when there is none (lines 48-49), outside its `try`:
when that raises, the delivery stays unacknowledged. `Dispose` is
`_handle_retryable_error` up to its ack, `Settle` the ack, so that a crash or a
lost connection can come between them. `DisposeFails` is a publication that
raises (the message sent or not), which leaves the delivery unacknowledged.
`Die`, `Drop`, `Requeue`, `Expire` and `Elapse` are the environment: the process
dies, the connection is lost while the worker runs on, the broker takes back what
nobody will acknowledge, a retry delay is over, time passes. A message in the
retry queue may come back any time after its delay: RabbitMQ expires only the
head of a queue. `mishaps` counts the environment's failures against
`MaxMishaps`; database errors and refused webhooks are not counted. The relay
is reduced to `RelayPublish`, which may publish an event a second time; its part
that concerns the queue, `Arrive`, is what `Pipeline` shares.

`Expiration` is the delay times `ExpirationFactor`. Line 114 multiplies it by
1000, as milliseconds; the FastStream client (a dependency, not in the
repository) takes `expiration` in seconds and converts it itself. So the factor
is 1000 in the deployment, and the retries wait 1000, 2000 and 4000 s: longer
than the webhook lock's TTL of 120 s, which is what `DelaysOutlastLock` states.
The runs scale that down to a factor of 2 and a TTL of 1; `late_retry` uses the
default settings themselves.

### OutboxRelay

A batch is claimed in one statement; each event is then published and recorded
in a transaction of its own, in no particular order (the rows come from UPDATE
.. RETURNING). `lock_id` is left out because the PostgreSQL code never compares
it. `FOR UPDATE SKIP LOCKED` makes a claim atomic. `OutboxStatus.FAILED` is never
written.

A relay lives in an API process. `Start` and `Setup` are the startup of
`main.py` (`broker.connect`, then `setup_rabbitmq_topology` and `relay.start`),
`Stop` and `Exit` its shutdown; a process may die anywhere in between. `bound`
says that the payments queue exists: a message sent before that is dropped and
nothing raises (`Taken`). One publication has three outcomes: `Accepted`,
`AnswerLost` (it raises, the broker has the message) and `Refused`. The events in
`Poison` are always refused, as often as a relay tries.

### PaymentIntake

READ COMMITTED PostgreSQL: an INSERT .. ON CONFLICT DO NOTHING waits for another
transaction that inserted the key, and does nothing when that commits. The
request body is left out, since a repeat's is compared with nothing.
`PaymentRegistry` is what can be seen of it from outside: a payment and its
event appear in one step (`Register`), answers name payments that are there
(`Answer`); a request, its transaction and its failures are stutters.

### StatusColumns

The other modules write a status as its value. Here its conversion is the
subject: a member has a name and a value, `Bound` is what `SqlEnum` sends to the
database, `Accepts` what the table takes, and every statement of the
repositories that writes a status is an action. `schema` says whether the tables
come from the migration or, as in the tests, from the models.

### Pipeline

The variables of the three modules side by side; only the joint actions are its
own. A request's commit is also `Create` of the outbox row (`Written`,
`RequestStep`). A publication that reached the broker is also `Arrive` of a
message, if the queue is bound (`RelayPublishes`, `DeliveredToQueue`). Time
passes for the webhook locks, the claims and the retry delays at once
(`TimePasses`). Everything else is a step of one component with the others
unchanged. The mishaps of relays and consumers share one bound. Requests go on
after the payment exists: a repeat with its key runs beside everything else.

## 3. What is checked

Passing runs:

| Run | Instance | Properties |
|---|---|---|
| `processor` | 1 payment, 2 workers, TTL 1, 2 attempts | `TypeOK`, `LeaseExclusion`, `DoneMeansDelivered`, `ProcessorInv`, `OutcomeFinal`, `LockKeptForOwner`, `ImplementsLifecycle` |
| `consumer_safety` | 1 payment, 2 workers, 4 messages, 1 retry, 1 mishap, expiration 2 > TTL 1 | `ConsumerTypeOK`, `ConsumerInv`, `LoneInv`, `PatienceInv`, `NothingLost`, `TruthUnlessDuplicated`, `ChargeMatchesRow`, `ErrorMeansUndelivered`, `DeadLetterHasCause` |
| `consumer_live` | 1 payment, 1 worker, 3 messages, 1 retry, 1 mishap | `EventuallyResolved` |
| `relay` | 3 events, the first one poison, 2 relays, batches of 2, TTL 0, 2 mishaps | `TypeOK`, `RelayInv`, `PublishedWasSent`, `ClaimExclusion`, `OnceInv`, `DuplicateHasCause`, `EventuallyPublished` |
| `intake` | 2 keys, 3 requests, 2 ids | `TypeOK`, `IntakeInv`, `AnswersAgree`, `OneEventPerPayment`, `ExistingPresent`, `RequestEnds`, `ImplementsRegistry` |
| `pipeline` | 1 payment, 1 key, 1 request at a time, 1 relay, 1 worker, 2 messages, no retry, TTLs 0, 1 mishap | `PipelineTypeOK`, `PipelineInv`, `OnlyCommittedHandled`, `NeverLost`, `QuietInv`, `OneMessageEach`, `ServiceImplementsLifecycle`, `EventuallyHandled` |

Runs in which a statement of the repository is violated by what the code does:

| Run | Statement | What happens |
|---|---|---|
| `double_charge` | `processor.py:42` "in idempotent manner" | a crash after the gateway call and before the commit; the redelivery calls the gateway again |
| `untrue_webhook` | `schemas/events.py:32-36`, the payload carries the payment's status | two deliveries of one payment; the loser's reload is its own copy and the merchant is told an outcome the payment does not have |
| `duplicate_delivery` | `repositories.py:154` "to avoid duplicate side effects" | the check under the lock reads the session's copy; a recorded delivery is not seen and sent again |
| `late_retry` | `retry.py:7-10` "retry_number=1 -> 1s" | default settings: the first retry waits 1000 s |
| `status_text` | the migration's "status IN ('pending','succeeded','failed')" | the first INSERT binds `PENDING` and raises; with tables made from the models (the tests) nothing does |
| `relay_concurrent` | `repositories.py:228-230` "prevents two relay loops from publishing the same event concurrently" | a relay with an expired claim records a failure and so frees the row another relay holds |

What these runs show together: the webhook lock is a correct lease, and final
outcomes, delivery before acknowledgement and at-least-once handling hold under
every failure modelled. The violations come from what surrounds the lease:
reading the session's copy instead of the row, calling the gateway before
claiming the payment, no owner check when a relay records a result; and from
two conversions at the border of the program, of a delay and of a status.

`DeadLetterHasCause` (`consumer_safety`) rests on the long delays. With the
documented ones (`ExpirationFactor` 1, TTL 120, delays of 1, 2 and 4) TLC finds
it violated: a worker dies while it holds the webhook lock, three retries meet
that lock, and the payment is dead-lettered although nothing failed to deliver.
That is no behaviour of the program as it is; it is what a correction of the
unit alone would expose, and `DelaysOutlastLock` is the condition to keep.

`ConsumerInv`, `LoneInv`, `PatienceInv`, `RelayInv`, `OnceInv`, `IntakeInv`,
`PipelineInv` and `QuietInv` are the inductive invariants of the proofs in
section 4. The runs check them so that what is proved for all instances is seen
to hold in instances where the hard cases occur.

### Bounds

Payments do not interact in the processor and the consumer (no action reads
another payment's row), so one payment suffices for their properties; two workers
give every race on one row, and the proofs cover any number. TTL 1 separates
valid from stale locks at both sides of the comparison. Two attempts give a first
and a last one; one attempt suffices where only their result matters. One retry
gives the first delivery, a retried and a dead-lettered one. One mishap and four
messages allow each failure at every point with the messages it can create; the
runs are symmetric in ids, workers and messages (`consumer_live`, `relay`
and `intake`, which check liveness, are not). Three events with batches of two
give a batch that does not take everything, and two mishaps a crash after a lost
answer or a failed commit. With batches of two, one poison event leaves one place
for the others and two would starve them: `EventuallyPublished` says so by its
condition on `Poison`. Three requests over two keys make two wait for one.

`pipeline` asks what only the composition can answer, and keeps each part as
small as that allows: the races between workers, between relays and between
requests and the retry queue are the other runs'. One mishap may be a crash of
the API or of the consumer, a lost answer of the relay's publication or commit,
a lost connection; with it two messages can exist. A TTL of 0 (here and in `relay`)
still tells a fresh lock or claim from one that has aged. Without retries a failed delivery is
dead-lettered at once.

### Fairness

* Restarts, in the runs that have crashes (`consumer_live`, `relay`,
  `pipeline`), are an assumption about the environment: an operator or an
  orchestrator starts a dead process again. The repository does not provide it:
  `docker-compose.yml` has no restart policy. Without it a dead consumer or relay
  stops its part of the service for good.
* `consumer_live`: weak fairness of the handler (the event loop runs, calls have
  timeouts or end), of the first publication of an event, of the broker's
  delivery (to a consumer that was started again, if it died), requeue and
  expiry, and of time. None of crashes, lost connections or any particular
  outcome of a call: a webhook that is always refused must end in the dead-letter
  queue.
* `relay`: weak fairness of each relay's own loop, its restart included
  (`start()` begins the loop), and of time. Publication failures of other events
  than the poison ones are mishaps and bounded: the property is about a broker
  that recovers.
* `intake`: weak fairness of each request's steps, strong fairness of its INSERT,
  since PostgreSQL queues transactions that wait for an index entry.
* `pipeline`: the fairness of `relay` and `consumer_live`, action by action;
  none of requests, since the property starts with the commit.

## 4. What is proved

For every set of payments, workers, messages and ids and every TTL, attempt and
retry limit, by TLAPS:

**Processor.**

* `ProcessorInvariant`: `Spec => []ProcessorInv`. Lease exclusion alone is not
  inductive. The strengthening says what each call knows: the row it works on is
  settled from `Mark` on; a lease that is not over *is* the lock in the row and
  has its age (`LeaseOK`); lock ids are distinct; what the merchant was told was
  settled, what is recorded was told. `OthersUndisturbed` reduces "a step of w
  preserves this for all workers" to what the step does to w's own row and task,
  through `RowAdvances`: a step changes a lock only if it is free, its own or
  stale. Each action has one lemma.
* `LeasesExclude`, `DoneIsDelivered`, `ProcessorTypes`: from it.
* `LocksKept`: a lock that is not stale leaves the row only by its owner's step.
  `StepOwnRow` says of each step that it touches one row and advances it.
* `ProcessorImplementsLifecycle`, `OutcomesFinal`: each step settles, tells,
  confirms or stutters (`NextAbstract`).

**Consumer.**

* `ConsumerImplementsProcessor`: every step of the consumer is a step of the
  processor or a stutter, so `ConsumerKeepsLease` follows.
* `ConsumerInvariant`, `NoPaymentLost`: no published payment is lost. Needed
  besides `NothingLost`: a delivery in hand is unacknowledged, is about the
  payment being processed, and belongs to one worker (`JobOK`). `StillSafe` says
  when a step keeps a payment's messages; each action has one lemma.
* `LoneInvariant`, and from it `TruthTold`, `ErrorsExplained`, `ChargesMatch`.
  None of the three is inductive. `LoneInv` adds why they hold: a payment that
  never had a second message has at most one that will be handled, so its call
  owns that delivery, no other call touches the row, and the call's copy of it is
  true (`LoneCallOK`). `LoneKept` serves the steps of the handler and the broker,
  `LoneStep` those of the call. `NeverSecond` adds that without a mishap there is
  no second message.
* `PatienceInvariant` (`PaymentRetries_proofs`). Who can dead-letter a payment
  that nobody refused? A call fails without a cause of its own only when it
  meets another's lock. If the payment has one message, that lock was left by a
  call that died, which was a mishap, and a retry that waits longer than the TTL
  does not meet it again. So the failures of a message are never more than the
  mishaps, and as many only if no lock can be in its way (`FailuresMatched`).
  That needs lock age and remaining delay together: `WayFree` keeps their sum
  above the TTL while time moves from one to the other (`PatienceElapses`).
  `RetriesOutlastMishaps` (which applies to the deployment, 1000 s > 120 s) and
  `DeadLettersExplained` follow: `DeadLetterHasCause`
  without mishaps for any settings; with delays above the TTL for as many mishaps
  as there are retries, for payments that never had a second message.

**Relay**, for every number of relays and events, every batch size and TTL:

* `RelayInvariant`, and from it `PublishedOnlyIfSent` and `ClaimsExclude`.
  Neither is inductive. `PlaceOK` adds what a relay's place in its loop says: it
  polls only when the queue is bound, and has a success to record only for an
  event that was sent. `ClaimOK` adds that what a relay holds is claimed in the
  table, with the age the relay has held it, so that no poll can take it before
  the TTL is over; both ages grow by the same `Tick`. `RelayMoves` reduces the
  proof to what a step does to its own relay and to the rows others hold.
* `OnceInvariant`, and from it `DuplicatesExplained`: until a mishap or an
  overrun batch an event was sent at most once, and if it was, it is marked
  published or its relay is about to do so (`OnceInv`). That the relay about to
  publish is not such a one needs `ClaimOK`, hence `RelayInv`.

**Intake**, for every number of keys, requests and ids:

* `IntakeInvariant`, and from it `IntakeAnswersAgree`, `IntakeOneEvent`,
  `IntakeExistingPresent`. `SessionOK` says what each request knows at its place
  of the transaction; `RowsApart` that no two rows, committed or in an open
  transaction, share a key or an id.
* `IntakeImplementsRegistry`: a commit is `Register`, an answer is `Answer`, all
  else a stutter; that an answer's payment is registered needs `IntakeInv`.

**Service.** The proofs of intake and relay are instantiated with the names the
composition uses, so that their lemmas hold of `Intake` and `Outbox`; a step of
`PipelineNext` is a step of one component, or of two.

* `PipelineInvariant`: the components' invariants and the links between them:
  outbox rows are those of committed payments, what relays count as sent is what
  the queue has received, only published payments are handled. From it
  `CommittedBeforeHandled` and `CommittedNeverLost`, which no component could
  state alone.
* `ServiceRefinesLifecycle`: the service implements `PaymentLifecycle` from
  creation to notification. `ServiceRunsProcessor` and `ServiceKeepsLease`: the
  assumption of the processor's model, that calls are for committed payments, is
  discharged, and its theorems hold of the service.
* `QuietInvariant` puts `OnceInv` and `LoneInv` side by side: the relay sends no
  event twice, so the consumer handles one message each (`MessagesCounted`).
  `ServiceTellsTruth`, `FaultsHaveCause`: the violations that `double_charge`,
  `untrue_webhook` and `duplicate_delivery` show need a mishap, a batch that
  outlived its claims or (a second charge) a failed transaction, and the one of
  `relay_concurrent` needs such a batch; without them they cannot happen, in a
  service of any size. `ServiceDeadLettersExplained` says the same of a dead
  letter that nothing accounts for, and, for delays that outlast the lock, how
  many mishaps it takes.

Assumptions: the named ASSUMEs, which TLC evaluates on every run.
`RetryDelayAssumption` states that the delays are natural numbers, a fact about
exponentiation the provers do not know. Events, and in
`Pipeline` payments, are numbered in the order of `created_at`, by which a poll
takes the oldest (`RelayAssumption`, `PipelineAssumption`).

Model-checked only:

* liveness under fairness (`EventuallyResolved`, `EventuallyPublished`,
  `RequestEnds`, `EventuallyHandled`), which is out of the provers' reach;
* `DeadLetterHasCause` of payments with a second message (`consumer_safety`): it
  holds there with one mishap and one retry, but counting how many calls several
  messages can make refuse each other is not proved.

## 5. Not modelled

Authentication, header and body validation, error responses and GET endpoints:
each is a function of one request and keeps no state. Logging. `attempts`,
`last_error` and `webhook_attempts`, which no code reads. The SQLite branches
(tests only), the rest of the migration, deployment files. The settings that switch broker
and relay off. A header `x-retry-count` that is no number, which would leave its
delivery unacknowledged for ever (`consumer.py:46`): only the consumer writes
that header. Every module but `StatusColumns` takes the tables as
`db/models.py` declares them, as the tests do: on a database with the migration's
check constraints no payment can be created at all (`status_text`).

## 6. Plan

Done: all components with a state, their composition, their abstract
specifications, and proofs of every safety invariant and refinement the runs
check, `DeadLetterHasCause` under the conditions of section 4.

1. `DeadLetterHasCause` for payments with several messages: an inductive bound on
   the calls that can hold the lock, by the mishaps that made them.
2. The steps towards liveness that are not temporal: what decreases with each
   step of a delivery, and that an enabled step leads on.
