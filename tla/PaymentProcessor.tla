-------------------------- MODULE PaymentProcessor --------------------------
(***************************************************************************)
(* app/application/processor.py, PaymentProcessor.process, with the        *)
(* repository methods, the gateway emulator and the webhook client it      *)
(* calls.  A worker runs one call of process() at a time; every await is a *)
(* point where the others may run, so an action is the code between two    *)
(* awaits that matter.  An UPDATE and the commit that follows it are one   *)
(* action (the row stays locked in between).                               *)
(*                                                                         *)
(* The session is created with expire_on_commit=False (app/db/session.py), *)
(* so a second get_by_id in one process() returns the object loaded first, *)
(* with the values it already had or that this session's own UPDATEs gave  *)
(* it: "seen" and "verdict" are that copy.                                 *)
(***************************************************************************)
EXTENDS Integers

CONSTANTS
  Payments,         \* payment ids; every one has a committed row
  Workers,          \* calls of process() that can be in flight at once
  LockIds,          \* values of uuid4() drawn at line 109
  None,             \* no lock, no payment
  LockTTL,          \* webhook_lock_ttl_seconds, in ticks
  WebhookAttempts   \* webhook_retry_attempts

ASSUME ProcessorAssumption ==
  /\ None \notin Payments
  /\ None \notin LockIds
  /\ LockTTL \in Nat
  /\ WebhookAttempts \in Nat \ {0}

VARIABLES
  payment,   \* the payments table
  task,      \* what each worker is doing
  charges,   \* history: successful gateway calls per payment, up to 2
  heard,     \* history: the statuses the merchant's endpoint was told
  refused,   \* history: payments with a webhook attempt that raised
  dbFailed   \* history: payments with a transaction that raised

history == <<charges, heard, refused, dbFailed>>
processorVars == <<payment, task, charges, heard, refused, dbFailed>>

Outcomes == {"succeeded", "failed"}
Statuses == Outcomes \cup {"pending"}

MinOf(a, b) == IF a < b THEN a ELSE b

(* One tick later, as far as a comparison with LockTTL can tell. *)
Older(n) == MinOf(n + 1, LockTTL + 1)

-----------------------------------------------------------------------------
(* The row of a payment and what each repository method makes of it.       *)

(* error: webhook_last_error is set; age: now - webhook_locked_at. *)
Row == [status : Statuses, delivered : BOOLEAN, error : BOOLEAN,
        lock : LockIds \cup {None}, age : 0..(LockTTL + 1)]

NewRow == [status |-> "pending", delivered |-> FALSE, error |-> FALSE,
           lock |-> None, age |-> 0]

(* Faulty: mark_processed without its WHERE status = PENDING. *)
ProcessedAgain(row, s) == [row EXCEPT !.status = s]

(* mark_processed: WHERE status = PENDING. *)
Processed(row, s) ==
  IF row.status = "pending" THEN [row EXCEPT !.status = s] ELSE row

(* Faulty versions of acquire_webhook_lock's WHERE clause: a lock stale one *)
(* tick too soon, a lock taken whoever holds it, a lock never stale.       *)
CanLockTooSoon(row, id) == row.lock \in {None, id} \/ row.age >= LockTTL
CanAlwaysLock(row, id) == TRUE
CanNeverBreak(row, id) == row.lock \in {None, id}

(* acquire_webhook_lock: its WHERE clause and its VALUES. *)
CanLock(row, id) == row.lock \in {None, id} \/ row.age > LockTTL
Locked(row, id) == [row EXCEPT !.lock = id, !.age = 0]

(* Faulty: release_webhook_lock without its WHERE webhook_lock_id. *)
ReleasedByAnyone(row, id) == [row EXCEPT !.lock = None, !.age = 0]

(* release_webhook_lock: only the owner's id matches. *)
Released(row, id) ==
  IF row.lock = id THEN [row EXCEPT !.lock = None, !.age = 0] ELSE row

(* Faulty: a recorded delivery leaves webhook_last_error as it was. *)
DeliveredError(row) == [row EXCEPT !.delivered = TRUE]

(* update_webhook_result, delivered or not; webhook_attempts is left out. *)
Delivered(row) == [row EXCEPT !.delivered = TRUE, !.error = FALSE]
Undelivered(row) == [row EXCEPT !.error = TRUE]

-----------------------------------------------------------------------------
(* A call of process().                                                    *)

InLease == {"recheck", "send", "record"}
Running == InLease \cup {"load", "gateway", "mark", "acquire", "giveup", "cleanup"}
Ended == {"done", "failed"}

(* verdict: the status the payload will carry; seen: the copy's            *)
(* webhook_delivered_at; id: webhook_lock_id; attempt: of the send loop;   *)
(* held: time since the lock was acquired.                                 *)
Task == [pc : Running \cup Ended \cup {"idle"}, pay : Payments \cup {None},
         verdict : Statuses, seen : BOOLEAN, id : LockIds \cup {None},
         attempt : 0..WebhookAttempts, held : 0..(LockTTL + 1)]

At(pc, p) == [pc |-> pc, pay |-> p, verdict |-> "pending", seen |-> FALSE,
              id |-> None, attempt |-> 0, held |-> 0]
Idle == At("idle", None)

Init ==
  /\ payment = [p \in Payments |-> NewRow]
  /\ task = [w \in Workers |-> Idle]
  /\ charges = [p \in Payments |-> 0]
  /\ heard = [p \in Payments |-> {}]
  /\ refused = {}
  /\ dbFailed = {}

Pay(w) == task[w].pay
RowOf(w) == payment[Pay(w)]
Update(w, row) == payment' = [payment EXCEPT ![Pay(w)] = row]
Goto(w, pc) == task' = [task EXCEPT ![w].pc = pc]

(* process() returns ("done") or raises ("failed"); its locals are gone. *)
End(w, pc) == task' = [task EXCEPT ![w] = At(pc, Pay(w))]

(* An exception inside the try block: on to one of its except blocks,      *)
(* "giveup" for a WebhookDeliveryError, "cleanup" for any other.           *)
Abandon(w, pc) ==
  task' = [task EXCEPT ![w] = [At(pc, Pay(w)) EXCEPT !.id = task[w].id]]

(* The ids uuid4() can return: one never in use. *)
FreshIds ==
  {id \in LockIds : /\ \A p \in Payments : payment[p].lock # id
                    /\ \A v \in Workers : task[v].id # id}

(* The consumer calls process(). *)
Begin(w, p) ==
  /\ task[w].pc = "idle"
  /\ task' = [task EXCEPT ![w] = At("load", p)]
  /\ UNCHANGED <<payment, history>>

(* Faulty versions of lines 48 and 62: a settled payment is skipped without *)
(* a look at webhook_delivered_at; the gateway decides a settled payment   *)
(* again.                                                                  *)
LoadSkipsSettled(w) ==
  /\ task[w].pc = "load"
  /\ IF RowOf(w).status # "pending" THEN End(w, "done") ELSE Goto(w, "gateway")
  /\ UNCHANGED <<payment, history>>

LoadDecidesAgain(w) ==
  /\ task[w].pc = "load"
  /\ IF RowOf(w).delivered THEN End(w, "done") ELSE Goto(w, "gateway")
  /\ UNCHANGED <<payment, history>>

(* Lines 44-62 and 93-96: the row is copied into the session. *)
Load(w) ==
  LET row == RowOf(w)
      Copied(pc) == task' = [task EXCEPT ![w].pc = pc,
                                         ![w].verdict = row.status,
                                         ![w].seen = row.delivered]
  IN /\ task[w].pc = "load"
     /\ \/ row.status # "pending" /\ row.delivered /\ End(w, "done")
        \/ row.status # "pending" /\ ~row.delivered /\ Copied("acquire")
        \/ row.status = "pending" /\ Copied("gateway")
     /\ UNCHANGED <<payment, history>>

(* Lines 63-68: the gateway decides; a success moves money. *)
Gateway(w) ==
  /\ task[w].pc = "gateway"
  /\ \E s \in Outcomes :
       /\ task' = [task EXCEPT ![w].pc = "mark", ![w].verdict = s]
       /\ charges' = IF s = "succeeded"
                     THEN [charges EXCEPT ![Pay(w)] = MinOf(@ + 1, 2)]
                     ELSE charges
  /\ UNCHANGED <<payment, heard, refused, dbFailed>>

(* Lines 70-92.  The ORM applies the UPDATE to the session's copy, which   *)
(* still says pending, whether or not the row did: when another worker     *)
(* settled the row first, the copy says what this worker's gateway said.   *)
Mark(w) ==
  /\ task[w].pc = "mark"
  /\ Update(w, Processed(RowOf(w), task[w].verdict))
  /\ IF RowOf(w).status # "pending" /\ task[w].seen
     THEN End(w, "done")
     ELSE Goto(w, "acquire")
  /\ UNCHANGED history

(* Lines 109-124. *)
Acquire(w) ==
  /\ task[w].pc = "acquire"
  /\ \E id \in FreshIds :
       \/ /\ CanLock(RowOf(w), id)
          /\ Update(w, Locked(RowOf(w), id))
          /\ task' = [task EXCEPT ![w].pc = "recheck", ![w].id = id]
       \/ /\ ~CanLock(RowOf(w), id)
          /\ End(w, "failed")
          /\ UNCHANGED payment
  /\ UNCHANGED history

(* Lines 126-145: the reload, which again returns the session's copy. *)
Recheck(w) ==
  /\ task[w].pc = "recheck"
  /\ IF task[w].seen
     THEN Update(w, Released(RowOf(w), task[w].id)) /\ End(w, "done")
     ELSE /\ task' = [task EXCEPT ![w].pc = "send", ![w].attempt = 1]
          /\ UNCHANGED payment
  /\ UNCHANGED history

(* Line 148 and WebhookClient.send: a POST that returns a success status. *)
PostAccepted(w) ==
  /\ task[w].pc = "send"
  /\ Goto(w, "record")
  /\ heard' = [heard EXCEPT ![Pay(w)] = @ \cup {task[w].verdict}]
  /\ UNCHANGED <<payment, charges, refused, dbFailed>>

(* A POST that raises.  When it was the answer that got lost, the merchant *)
(* has heard the status all the same.                                      *)
PostRaised(w) ==
  /\ task[w].pc = "send"
  /\ heard' \in {heard, [heard EXCEPT ![Pay(w)] = @ \cup {task[w].verdict}]}
  /\ refused' = refused \cup {Pay(w)}
  /\ UNCHANGED <<payment, charges, dbFailed>>

(* Faulty: the send loop does one attempt too many. *)
RetryOnceMore(w) ==
  /\ task[w].attempt <= WebhookAttempts
  /\ PostRaised(w)
  /\ task' = [task EXCEPT ![w].attempt = @ + 1]

(* An httpx.HTTPError: the next attempt, after a delay. *)
Retry(w) ==
  /\ task[w].attempt < WebhookAttempts
  /\ PostRaised(w)
  /\ task' = [task EXCEPT ![w].attempt = @ + 1]

(* WebhookDeliveryError after the last attempt. *)
SendFails(w) ==
  /\ task[w].attempt = WebhookAttempts
  /\ PostRaised(w)
  /\ Abandon(w, "giveup")

(* An exception of another kind, at any attempt. *)
SendBreaks(w) ==
  /\ PostRaised(w)
  /\ Abandon(w, "cleanup")

(* Lines 149-159, one transaction. *)
RecordDelivered(w) ==
  /\ task[w].pc = "record"
  /\ Update(w, Released(Delivered(RowOf(w)), task[w].id))
  /\ End(w, "done")
  /\ UNCHANGED history

DbRaises(w) ==
  /\ dbFailed' = dbFailed \cup {Pay(w)}
  /\ UNCHANGED <<charges, heard, refused>>

(* The same transaction when the database raises: it is rolled back, or    *)
(* only the commit's answer is lost; the except block of line 180 follows, *)
(* and raises as well if the session cannot go on.                         *)
RecordFails(w) ==
  /\ task[w].pc = "record"
  /\ \/ UNCHANGED payment
     \/ Update(w, Released(Delivered(RowOf(w)), task[w].id))
  /\ Abandon(w, "cleanup")
  /\ DbRaises(w)

(* Faulty: update_webhook_result is called with delivered=True. *)
GiveUpDelivered(w) ==
  /\ task[w].pc = "giveup"
  /\ Update(w, Released(Delivered(RowOf(w)), task[w].id))
  /\ End(w, "failed")
  /\ UNCHANGED history

(* Lines 168-179: record the failure, release the lock, raise. *)
GiveUp(w) ==
  /\ task[w].pc = "giveup"
  /\ Update(w, Released(Undelivered(RowOf(w)), task[w].id))
  /\ End(w, "failed")
  /\ UNCHANGED history

(* Lines 181-186: release the lock, raise. *)
CleanUp(w) ==
  /\ task[w].pc = "cleanup"
  /\ Update(w, Released(RowOf(w), task[w].id))
  /\ End(w, "failed")
  /\ UNCHANGED history

(* The database raises outside the try block (lines 44, 70-76, 110-115,    *)
(* 126) or in an except block: nothing was written, or the commit took     *)
(* effect and its answer was lost.  No lock is released.                   *)
DbError(w) ==
  /\ task[w].pc \in {"load", "mark", "acquire", "recheck", "giveup", "cleanup"}
  /\ \/ UNCHANGED payment
     \/ task[w].pc = "mark" /\ Update(w, Processed(RowOf(w), task[w].verdict))
     \/ /\ task[w].pc = "acquire"
        /\ \E id \in FreshIds :
             CanLock(RowOf(w), id) /\ Update(w, Locked(RowOf(w), id))
     \/ /\ task[w].pc = "giveup"
        /\ Update(w, Released(Undelivered(RowOf(w)), task[w].id))
     \/ task[w].pc = "cleanup" /\ Update(w, Released(RowOf(w), task[w].id))
  /\ End(w, "failed")
  /\ DbRaises(w)

(* The caller has dealt with the result. *)
Finish(w) ==
  /\ task[w].pc \in Ended
  /\ task' = [task EXCEPT ![w] = Idle]
  /\ UNCHANGED <<payment, history>>

(* The process dies, wherever it was: nothing is released. *)
Crash(w) ==
  /\ task' = [task EXCEPT ![w] = Idle]
  /\ UNCHANGED <<payment, history>>

(* Time passes.  Nothing bounds how long a step of process() takes. *)
Tick ==
  /\ payment' = [p \in Payments |->
       IF payment[p].lock = None THEN payment[p]
       ELSE [payment[p] EXCEPT !.age = Older(@)]]
  /\ task' = [w \in Workers |->
       IF task[w].pc \in InLease THEN [task[w] EXCEPT !.held = Older(@)]
       ELSE task[w]]
  /\ UNCHANGED history

(* One step of process() itself. *)
Step(w) ==
  \/ Load(w) \/ Gateway(w) \/ Mark(w) \/ Acquire(w) \/ Recheck(w)
  \/ PostAccepted(w) \/ Retry(w) \/ SendFails(w) \/ SendBreaks(w)
  \/ RecordDelivered(w) \/ RecordFails(w) \/ GiveUp(w) \/ CleanUp(w)
  \/ DbError(w)

Next ==
  \/ \E w \in Workers :
       \/ \E p \in Payments : Begin(w, p)
       \/ Step(w)
       \/ Finish(w)
       \/ Crash(w)
  \/ Tick

Spec == Init /\ [][Next]_processorVars

-----------------------------------------------------------------------------
TypeOK ==
  /\ payment \in [Payments -> Row]
  /\ task \in [Workers -> Task]
  /\ charges \in [Payments -> 0..2]
  /\ heard \in [Payments -> SUBSET Statuses]
  /\ refused \subseteq Payments
  /\ dbFailed \subseteq Payments

(* Two calls deliver the webhook of one payment at once only if one of     *)
(* them has outlived webhook_lock_ttl_seconds, whatever crashes, failed    *)
(* commits, stale owners and late releases there were                      *)
(* (acquire_webhook_lock and release_webhook_lock).                        *)
LeaseExclusion ==
  \A v, w \in Workers :
    /\ v # w
    /\ task[v].pc \in InLease
    /\ task[w].pc \in InLease
    /\ Pay(v) = Pay(w)
    => task[v].held > LockTTL \/ task[w].held > LockTTL

(* Whichever workers race on a payment, its terminal status is written     *)
(* once and a recorded delivery is never forgotten (mark_processed,        *)
(* update_webhook_result).                                                 *)
OutcomeFinal ==
  [][\A p \in Payments :
       /\ payment[p].status # "pending" => payment'[p].status = payment[p].status
       /\ payment[p].delivered => payment'[p].delivered]_processorVars

(* A webhook lock that is not stale leaves the row only when the worker    *)
(* that acquired it moves on: a late release or a second acquirer never    *)
(* takes it away (release_webhook_lock, acquire_webhook_lock).             *)
LockKeptForOwner ==
  [][\A p \in Payments :
       LET id == payment[p].lock IN
       id # None /\ payment[p].age <= LockTTL /\ payment'[p].lock # id
         => \E w \in Workers : task[w].id = id /\ task'[w] # task[w]]_processorVars

(* process() returns only when the merchant was told and the row says so:  *)
(* this is what lets the consumer acknowledge the message.                 *)
DoneMeansDelivered ==
  \A w \in Workers :
    task[w].pc = "done" => RowOf(w).delivered /\ heard[Pay(w)] # {}

(* The merchant is told nothing about a payment whose outcome is not       *)
(* committed, and no delivery is recorded that did not happen.             *)
ToldOnlySettled ==
  \A p \in Payments :
    /\ heard[p] # {} => payment[p].status # "pending"
    /\ payment[p].delivered => heard[p] # {}

(* What each call knows about the row it is working on. *)
CallOK(w) ==
  /\ task[w].pc # "idle" => Pay(w) # None
  /\ task[w].id # None <=> task[w].pc \in InLease \cup {"giveup", "cleanup"}
  /\ task[w].pc \notin InLease => task[w].held = 0
  /\ task[w].pc = "mark" => task[w].verdict \in Outcomes
  /\ task[w].pc \in InLease \cup {"acquire"} => RowOf(w).status # "pending"
  /\ task[w].pc = "record" => heard[Pay(w)] # {}
  /\ task[w].seen => task[w].pc # "idle" /\ RowOf(w).delivered

(* A lease that is not over is the lock in the row, and as old. *)
LeaseOK(w) ==
  task[w].pc \in InLease /\ task[w].held <= LockTTL
    => RowOf(w).lock = task[w].id /\ RowOf(w).age = task[w].held

(* No two calls drew the same id. *)
IdsDistinct ==
  \A v, w \in Workers :
    v # w /\ task[v].id # None => task[v].id # task[w].id

(* The inductive invariant: whatever the workers do, a call's view of its  *)
(* row stays true and a lease that is not over is the row's lock.          *)
ProcessorInv ==
  /\ TypeOK
  /\ \A w \in Workers : CallOK(w) /\ LeaseOK(w)
  /\ IdsDistinct
  /\ DoneMeansDelivered
  /\ ToldOnlySettled

(* The row and the history of webhooks as the abstract payment. *)
Lifecycle == INSTANCE PaymentLifecycle WITH
  accepted <- Payments,
  status <- [p \in Payments |-> payment[p].status],
  told <- [p \in Payments |-> heard[p] # {}],
  notified <- [p \in Payments |-> payment[p].delivered]

(* process() implements the abstract life of a payment. *)
ImplementsLifecycle == Lifecycle!Spec

(* Line 42, "Execute full payment processing in idempotent manner": the    *)
(* gateway charges a payment at most once.                                 *)
AtMostOneCharge == \A p \in Payments : charges[p] < 2

(* Line 107 and app/schemas/events.py: what the merchant is told is the    *)
(* payment's status.                                                       *)
WebhookTellsRow ==
  \A p \in Payments : heard[p] \subseteq {payment[p].status}

(* Line 142, "Webhook already delivered, skipping duplicate delivery", and *)
(* the docstring of acquire_webhook_lock, "to avoid duplicate side         *)
(* effects": a worker whose lock is valid does not send a webhook that is  *)
(* recorded as delivered.                                                  *)
NoDuplicateDelivery ==
  \A w \in Workers :
    task[w].pc = "send" /\ task[w].held <= LockTTL => ~RowOf(w).delivered
=============================================================================
