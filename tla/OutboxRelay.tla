----------------------------- MODULE OutboxRelay -----------------------------
(***************************************************************************)
(* app/infrastructure/outbox_relay.py with the OutboxRepository methods it *)
(* calls: every API process runs a relay that claims a batch of outbox     *)
(* rows, publishes them one after the other and records each result in a   *)
(* transaction of its own.  Claims expire; nothing else ties a row to the  *)
(* relay that claimed it (lock_id is written and never compared).          *)
(***************************************************************************)
EXTENDS Integers, FiniteSets

CONSTANTS
  Events,      \* outbox rows, numbered in the order of created_at
  Poison,      \* events whose publication always raises
  Relays,      \* the API processes
  None,        \* no event
  BatchSize,   \* outbox_batch_size
  LockTTL,     \* outbox_lock_ttl_seconds, in ticks
  MaxMishaps   \* bound on the mishaps of one behaviour

ASSUME RelayAssumption ==
  /\ Events \subseteq Nat
  /\ Poison \subseteq Events
  /\ None \notin Events
  /\ BatchSize \in Nat \ {0}
  /\ LockTTL \in Nat
  /\ MaxMishaps \in Nat

VARIABLES
  outbox,    \* the outbox table
  relay,     \* what each relay is doing
  bound,     \* the payments queue exists and is bound to its exchange
  sent,      \* history: copies of each event a queue got, up to 2
  mishaps,   \* number of mishaps so far
  overran    \* history: some batch took longer than LockTTL

vars == <<outbox, relay, bound, sent, mishaps, overran>>

Older(n) == IF n <= LockTTL THEN n + 1 ELSE n

(* age is now - locked_at.  OutboxStatus.FAILED is never written. *)
OutboxRow ==
  [status : {"absent", "pending", "in_progress", "published"},
   locked : BOOLEAN, age : 0..(LockTTL + 1)]

Unlocked(status) == [status |-> status, locked |-> FALSE, age |-> 0]
Claimed == [status |-> "in_progress", locked |-> TRUE, age |-> 0]

(* todo: the events of the batch still to be published; event: the one the *)
(* current transaction is about; held: time since the batch was claimed.   *)
Relay == [pc : {"down", "boot", "poll", "batch", "mark", "unmark"},
          todo : SUBSET Events, event : Events \cup {None},
          held : 0..(LockTTL + 1), stopping : BOOLEAN]

Down == [pc |-> "down", todo |-> {}, event |-> None, held |-> 0,
         stopping |-> FALSE]

(* What a relay has claimed and not yet recorded. *)
Batch(r) == relay[r].todo \cup ({relay[r].event} \ {None})

Init ==
  /\ outbox = [e \in Events |-> Unlocked("absent")]
  /\ relay = [r \in Relays |-> Down]
  /\ bound = FALSE
  /\ sent = [e \in Events |-> 0]
  /\ mishaps = 0
  /\ overran = FALSE

Mishap == mishaps < MaxMishaps /\ mishaps' = mishaps + 1

(* Back to the loop of _run; what was left of the batch stays claimed. *)
Loop(r) ==
  relay' = [relay EXCEPT ![r] =
              [Down EXCEPT !.pc = "poll", !.stopping = relay[r].stopping]]

(* create_event, in the transaction of PaymentService.create_payment. *)
Create(e) ==
  /\ outbox[e].status = "absent"
  /\ outbox' = [outbox EXCEPT ![e] = Unlocked("pending")]
  /\ UNCHANGED <<relay, bound, sent, mishaps, overran>>

-----------------------------------------------------------------------------
(* The lifespan of app/main.py with the relay's start and stop. *)

(* Faulty: relay.start() comes before setup_rabbitmq_topology(). *)
StartUndeclared(r) ==
  /\ relay[r].pc = "down"
  /\ relay' = [relay EXCEPT ![r].pc = "poll"]
  /\ UNCHANGED <<outbox, bound, sent, mishaps, overran>>

(* The process is started and broker.connect() returns. *)
Start(r) ==
  /\ relay[r].pc = "down"
  /\ relay' = [relay EXCEPT ![r].pc = "boot"]
  /\ UNCHANGED <<outbox, bound, sent, mishaps, overran>>

(* setup_rabbitmq_topology() returns, and relay.start(). *)
Setup(r) ==
  /\ relay[r].pc = "boot"
  /\ relay' = [relay EXCEPT ![r].pc = "poll"]
  /\ bound' = TRUE
  /\ UNCHANGED <<outbox, sent, mishaps, overran>>

(* The application shuts down: relay.stop() sets the event the loop reads. *)
Stop(r) ==
  /\ relay[r].pc \notin {"down", "boot"}
  /\ ~relay[r].stopping
  /\ Mishap
  /\ relay' = [relay EXCEPT ![r].stopping = TRUE]
  /\ UNCHANGED <<outbox, bound, sent, overran>>

(* The loop ends between two batches; the process goes. *)
Exit(r) ==
  /\ relay[r].pc = "poll"
  /\ relay[r].stopping
  /\ relay' = [relay EXCEPT ![r] = Down]
  /\ UNCHANGED <<outbox, bound, sent, mishaps, overran>>

-----------------------------------------------------------------------------
(* _publish_once. *)

(* Faulty versions of acquire_pending_batch's WHERE clause: claims do not   *)
(* matter, the status does not matter, a claimed row is never taken again. *)
CandidatesClaimedToo == {e \in Events : outbox[e].status \in {"pending", "in_progress"}}
CandidatesOfAnyStatus ==
  {e \in Events : /\ outbox[e].status # "absent"
                  /\ outbox[e].locked => outbox[e].age > LockTTL}
CandidatesPending == {e \in Events : outbox[e].status = "pending"}

(* acquire_pending_batch: its WHERE, ORDER BY and LIMIT. *)
Candidates ==
  {e \in Events : /\ outbox[e].status \in {"pending", "in_progress"}
                  /\ outbox[e].locked => outbox[e].age > LockTTL}

(* Faulty: LIMIT 1. *)
OldestOne(S) == {e \in S : \A f \in S : e <= f}

Oldest(S) == {e \in S : Cardinality({f \in S : f < e}) < BatchSize}

ClaimBatch ==
  outbox' = [e \in Events |->
               IF e \in Oldest(Candidates) THEN Claimed ELSE outbox[e]]

Poll(r) ==
  /\ relay[r].pc = "poll"
  /\ ~relay[r].stopping
  /\ Candidates # {}
  /\ ClaimBatch
  /\ relay' = [relay EXCEPT ![r].pc = "batch", ![r].todo = Oldest(Candidates)]
  /\ UNCHANGED <<bound, sent, mishaps, overran>>

(* A message that no queue is bound for is dropped, and nothing raises. *)
Taken(e) ==
  sent' = IF bound THEN [sent EXCEPT ![e] = IF @ < 2 THEN @ + 1 ELSE @] ELSE sent

(* One event of the batch, in no particular order, and where the exception *)
(* handling of its publication leads.                                      *)
Publication(r, e, pc) ==
  /\ relay[r].pc = "batch"
  /\ e \in relay[r].todo
  /\ relay' = [relay EXCEPT ![r].pc = pc, ![r].event = e, ![r].todo = @ \ {e}]
  /\ UNCHANGED <<outbox, bound, overran>>

(* broker.publish returns. *)
Accepted(r, e) ==
  /\ e \notin Poison
  /\ Publication(r, e, "mark")
  /\ Taken(e)
  /\ UNCHANGED mishaps

(* It raises although the broker took the message. *)
AnswerLost(r, e) ==
  /\ e \notin Poison
  /\ Publication(r, e, "unmark")
  /\ Taken(e)
  /\ Mishap

(* Faulty: mark_published also when broker.publish raised. *)
RefusedUnnoticed(r, e) ==
  /\ Publication(r, e, "mark")
  /\ IF e \in Poison THEN UNCHANGED mishaps ELSE Mishap
  /\ UNCHANGED sent

(* It raises and the broker has no message. *)
Refused(r, e) ==
  /\ Publication(r, e, "unmark")
  /\ IF e \in Poison THEN UNCHANGED mishaps ELSE Mishap
  /\ UNCHANGED sent

Publish(r) ==
  \E e \in relay[r].todo : Accepted(r, e) \/ AnswerLost(r, e) \/ Refused(r, e)

(* Faulty: mark_publish_failed writes OutboxStatus.FAILED. *)
RecordedFailed(r) ==
  outbox' = [outbox EXCEPT ![relay[r].event] =
    Unlocked(IF relay[r].pc = "mark" THEN "published" ELSE "failed")]

(* mark_published and mark_publish_failed: WHERE id = event_id. *)
Recorded(r) ==
  outbox' = [outbox EXCEPT ![relay[r].event] =
    Unlocked(IF relay[r].pc = "mark" THEN "published" ELSE "pending")]

(* The event's transaction commits; on to the next event, if any. *)
Record(r) ==
  /\ relay[r].pc \in {"mark", "unmark"}
  /\ Recorded(r)
  /\ IF relay[r].todo = {}
     THEN Loop(r)
     ELSE relay' = [relay EXCEPT ![r].pc = "batch", ![r].event = None]
  /\ UNCHANGED <<bound, sent, mishaps, overran>>

(* The database raises: what is left of the batch is abandoned, its rows   *)
(* stay claimed.  When only the commit's answer was lost, it took effect.  *)
DbError(r) ==
  /\ Mishap
  /\ \/ relay[r].pc = "poll" /\ ~relay[r].stopping /\ (ClaimBatch \/ UNCHANGED outbox)
     \/ relay[r].pc \in {"mark", "unmark"} /\ (Recorded(r) \/ UNCHANGED outbox)
  /\ Loop(r)
  /\ UNCHANGED <<bound, sent, overran>>

(* The API process dies, or its startup raises. *)
Crash(r) ==
  /\ relay[r].pc # "down"
  /\ Mishap
  /\ relay' = [relay EXCEPT ![r] = Down]
  /\ UNCHANGED <<outbox, bound, sent, overran>>

(* Time passes; nothing bounds how long a publication takes. *)
Tick ==
  /\ outbox' = [e \in Events |->
       IF outbox[e].locked THEN [outbox[e] EXCEPT !.age = Older(@)]
       ELSE outbox[e]]
  /\ relay' = [r \in Relays |->
       IF Batch(r) = {} THEN relay[r] ELSE [relay[r] EXCEPT !.held = Older(@)]]
  /\ overran' = (overran \/ \E r \in Relays : Batch(r) # {} /\ relay[r].held = LockTTL)
  /\ UNCHANGED <<bound, sent, mishaps>>

(* A relay that is up goes on, and a process that is down is started. *)
Proceed(r) ==
  Start(r) \/ Setup(r) \/ Exit(r) \/ Poll(r) \/ Publish(r) \/ Record(r)

(* What a relay does without a publication. *)
Keep(r) ==
  \/ Start(r)
  \/ Setup(r)
  \/ Stop(r)
  \/ Exit(r)
  \/ Poll(r)
  \/ Record(r)
  \/ DbError(r)
  \/ Crash(r)

Next ==
  \/ \E e \in Events : Create(e)
  \/ \E r \in Relays : Keep(r) \/ Publish(r)
  \/ Tick

Spec == Init /\ [][Next]_vars

(* Time passes.  Payments need not be created, publications may fail. *)
Fairness ==
  /\ WF_vars(Tick)
  /\ \A r \in Relays : WF_vars(Proceed(r))

FairSpec == Spec /\ Fairness

-----------------------------------------------------------------------------
TypeOK ==
  /\ outbox \in [Events -> OutboxRow]
  /\ relay \in [Relays -> Relay]
  /\ bound \in BOOLEAN
  /\ sent \in [Events -> 0..2]
  /\ mishaps \in 0..MaxMishaps
  /\ overran \in BOOLEAN

(* A row that says published reached the payments queue, through crashes,  *)
(* lost commits and two relays recording results for the same row: the     *)
(* queue is declared before the first publication (lifespan), and          *)
(* mark_published follows broker.publish in one transaction.               *)
PublishedWasSent ==
  \A e \in Events : outbox[e].status = "published" => sent[e] > 0

(* As long as no batch takes longer than outbox_lock_ttl_seconds, no two   *)
(* relays hold the same event, whatever crashed or failed                  *)
(* (acquire_pending_batch).                                                *)
ClaimExclusion ==
  ~overran => \A r, s \in Relays : r # s => Batch(r) \cap Batch(s) = {}

(* What a relay's place in its loop says about its batch and the queue. *)
PlaceOK(r) ==
  /\ relay[r].pc \notin {"down", "boot"} => bound
  /\ relay[r].pc \in {"mark", "unmark"} <=> relay[r].event # None
  /\ relay[r].pc = "mark" => sent[relay[r].event] > 0
  /\ relay[r].pc \in {"down", "boot", "poll"} => relay[r].todo = {} /\ relay[r].held = 0
  /\ relay[r].event \notin relay[r].todo

(* What a relay holds is claimed in the table, for as long as it holds it. *)
ClaimOK(r) ==
  /\ Batch(r) # {} => relay[r].held <= LockTTL
  /\ \A e \in Batch(r) :
       /\ outbox[e].status = "in_progress"
       /\ outbox[e].locked
       /\ outbox[e].age = relay[r].held

(* The inductive invariant behind PublishedWasSent and ClaimExclusion: a   *)
(* relay that may publish has a queue to publish to, one that is to record *)
(* a success has sent the event, and until some batch outlives the TTL the *)
(* table says of every event in hand that it is claimed, and since when.   *)
RelayInv ==
  /\ TypeOK
  /\ \A r \in Relays : PlaceOK(r)
  /\ PublishedWasSent
  /\ ~overran => \A r \in Relays : ClaimOK(r)
  /\ ClaimExclusion

(* What a relay holds is a row of the table. *)
HeldRows ==
  \A r \in Relays : \A e \in Batch(r) : outbox[e].status # "absent"

(* Without a mishap and without an overrun batch no event is sent twice. *)
DuplicateHasCause ==
  mishaps = 0 /\ ~overran => \A e \in Events : sent[e] <= 1

Marking(r, e) == relay[r].pc = "mark" /\ relay[r].event = e

(* A copy that is sent is recorded as sent, now or by the next transaction *)
(* of the relay that sent it.                                              *)
SentOnce(e) ==
  sent[e] > 0 => /\ sent[e] = 1
                 /\ outbox[e].status = "published" \/ \E r \in Relays : Marking(r, e)

(* The inductive invariant behind DuplicateHasCause: without a mishap and  *)
(* an overrun batch, an event that was sent is in nobody's batch but for   *)
(* the relay about to mark it, and one to be released was never sent.      *)
OnceInv ==
  mishaps = 0 /\ ~overran =>
    /\ \A e \in Events : SentOnce(e)
    /\ \A r \in Relays : relay[r].pc = "unmark" => sent[relay[r].event] = 0

(* Line 22, "guarantees eventual publication of outbox events": every      *)
(* event is published in the end and then stays so, although a late relay  *)
(* may put a published row back to pending, as long as the events that can *)
(* never be published do not fill a batch (ORDER BY created_at, LIMIT).    *)
EventuallyPublished ==
  Cardinality(Poison) < BatchSize =>
    \A e \in Events \ Poison :
      outbox[e].status # "absent" ~> [](outbox[e].status = "published")

(* repositories.py:228-231, "This prevents two relay loops from publishing *)
(* the same event concurrently": two relays whose claims are both valid    *)
(* never hold the same event.                                              *)
NoConcurrentPublish ==
  \A r, s \in Relays :
    /\ r # s
    /\ relay[r].held <= LockTTL
    /\ relay[s].held <= LockTTL
    => Batch(r) \cap Batch(s) = {}
=============================================================================
