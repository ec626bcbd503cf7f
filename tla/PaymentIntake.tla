---------------------------- MODULE PaymentIntake ----------------------------
(***************************************************************************)
(* POST /payments: app/api/routes/payments.py, PaymentService of           *)
(* app/application/payments.py and PaymentRepository.upsert_pending.  Each *)
(* request runs one transaction on a READ COMMITTED PostgreSQL session:    *)
(* INSERT .. ON CONFLICT DO NOTHING, a SELECT when it inserted nothing,    *)
(* the outbox INSERT when it did, the commit, and only then the answer.    *)
(***************************************************************************)
EXTENDS Integers, FiniteSets

CONSTANTS
  Keys,       \* Idempotency-Key values, after strip()
  Requests,   \* requests that can be served at once
  Ids,        \* payment ids: values of uuid4()
  None        \* no key or payment

ASSUME IntakeAssumption == None \notin Keys \cup Ids

VARIABLES
  payments,   \* committed rows of the payments table
  events,     \* committed outbox rows: payment id -> how many, up to 2
  request,    \* what each request is doing
  answers     \* history: the payments clients were answered with 202

vars == <<payments, events, request, answers>>

Payment == [key : Keys, id : Ids]

(* row: the payment in the session; created: created_now; written: the     *)
(* transaction has an uncommitted outbox row.                              *)
Request ==
  [pc : {"idle", "insert", "select", "event", "commit", "answer"},
   key : Keys \cup {None}, row : Payment \cup {None},
   created : BOOLEAN, written : BOOLEAN]

Idle == [pc |-> "idle", key |-> None, row |-> None, created |-> FALSE,
         written |-> FALSE]

Init ==
  /\ payments = {}
  /\ events = [i \in Ids |-> 0]
  /\ request = [r \in Requests |-> Idle]
  /\ answers = {}

(* The rows a transaction in flight has inserted. *)
Inserted(r) == IF request[r].created THEN {request[r].row} ELSE {}
InFlight == UNION {Inserted(r) : r \in Requests}
FreshIds == Ids \ {p.id : p \in payments \cup InFlight}

Conflicts(key, S) == {p \in S : p.key = key}

(* A client sends a request, its first or a retry.  The body is left out:  *)
(* a repeat's is compared with nothing.                                    *)
Receive(r, key) ==
  /\ request[r].pc = "idle"
  /\ request' = [request EXCEPT ![r] =
       [Idle EXCEPT !.pc = "insert", !.key = key]]
  /\ UNCHANGED <<payments, events, answers>>

(* Faulty versions of upsert_pending's INSERT: no unique index; a conflict  *)
(* with an uncommitted row does not wait.                                  *)
InsertAnyway(r) ==
  /\ request[r].pc = "insert"
  /\ \E id \in FreshIds :
       request' = [request EXCEPT
         ![r].pc = "event", ![r].created = TRUE,
         ![r].row = [key |-> request[r].key, id |-> id]]
  /\ UNCHANGED <<payments, events, answers>>

InsertUnwaiting(r) ==
  /\ request[r].pc = "insert"
  /\ IF Conflicts(request[r].key, payments \cup InFlight) # {}
     THEN request' = [request EXCEPT ![r].pc = "select"]
     ELSE \E id \in FreshIds :
            request' = [request EXCEPT
              ![r].pc = "event", ![r].created = TRUE,
              ![r].row = [key |-> request[r].key, id |-> id]]
  /\ UNCHANGED <<payments, events, answers>>

(* upsert_pending's INSERT: the unique index makes it wait for another     *)
(* transaction that inserted the key, and do nothing for a committed one.  *)
Insert(r) ==
  LET key == request[r].key IN
  /\ request[r].pc = "insert"
  /\ IF Conflicts(key, payments) # {}
     THEN request' = [request EXCEPT ![r].pc = "select"]
     ELSE /\ Conflicts(key, InFlight) = {}
          /\ \E id \in FreshIds :
               request' = [request EXCEPT
                 ![r].pc = "event",
                 ![r].row = [key |-> key, id |-> id],
                 ![r].created = TRUE]
  /\ UNCHANGED <<payments, events, answers>>

(* Faulty: an event is created although created_now is false; the INSERT is *)
(* tried again instead of the SELECT.                                      *)
SelectThenEvent(r) ==
  /\ request[r].pc = "select"
  /\ \E p \in Conflicts(request[r].key, payments) :
       request' = [request EXCEPT ![r].pc = "event", ![r].row = p]
  /\ UNCHANGED <<payments, events, answers>>

SelectTriesAgain(r) ==
  /\ request[r].pc = "select"
  /\ request' = [request EXCEPT ![r].pc = "insert"]
  /\ UNCHANGED <<payments, events, answers>>

(* get_by_idempotency_key; nothing there trips the assertion of line 76. *)
Select(r) ==
  /\ request[r].pc = "select"
  /\ \E p \in Conflicts(request[r].key, payments) :
       request' = [request EXCEPT ![r].pc = "commit", ![r].row = p]
  /\ UNCHANGED <<payments, events, answers>>

(* create_event, flushed in the same transaction. *)
CreateEvent(r) ==
  /\ request[r].pc = "event"
  /\ request' = [request EXCEPT ![r].pc = "commit", ![r].written = TRUE]
  /\ UNCHANGED <<payments, events, answers>>

(* What the commit makes visible. *)
Committed(r) ==
  /\ payments' = payments \cup Inserted(r)
  /\ events' = IF request[r].written
               THEN [events EXCEPT ![request[r].row.id] = IF @ < 2 THEN @ + 1 ELSE @]
               ELSE events

Commit(r) ==
  /\ request[r].pc = "commit"
  /\ Committed(r)
  /\ request' = [request EXCEPT ![r].pc = "answer", ![r].created = FALSE,
                                ![r].written = FALSE]
  /\ UNCHANGED answers

(* 202 with the payment's id; the client may not receive it. *)
Respond(r) ==
  /\ request[r].pc = "answer"
  /\ answers' \in {answers, answers \cup {request[r].row}}
  /\ request' = [request EXCEPT ![r] = Idle]
  /\ UNCHANGED <<payments, events>>

(* Faulty: a request whose transaction was rolled back is answered. *)
FailAnswered(r) ==
  /\ request[r].pc # "idle"
  /\ request' = [request EXCEPT ![r] = Idle]
  /\ answers' = answers \cup {request[r].row}
  /\ UNCHANGED <<payments, events>>

(* Faulty: the rows are written without a transaction around them. *)
FailHalf(r) ==
  /\ request[r].pc # "idle"
  /\ payments' = payments \cup Inserted(r)
  /\ request' = [request EXCEPT ![r] = Idle]
  /\ UNCHANGED <<events, answers>>

(* The database raises or the process dies: the transaction is rolled      *)
(* back, unless its commit had taken effect already.                       *)
Fail(r) ==
  /\ request[r].pc # "idle"
  /\ \/ UNCHANGED <<payments, events>>
     \/ request[r].pc = "commit" /\ Committed(r)
  /\ request' = [request EXCEPT ![r] = Idle]
  /\ UNCHANGED answers

Serve(r) == Insert(r) \/ Select(r) \/ CreateEvent(r) \/ Commit(r) \/ Respond(r)

Next ==
  \E r \in Requests :
    \/ \E key \in Keys : Receive(r, key)
    \/ Insert(r)
    \/ Select(r)
    \/ CreateEvent(r)
    \/ Commit(r)
    \/ Respond(r)
    \/ Fail(r)

Spec == Init /\ [][Next]_vars

(* The database answers, and it serves the transactions that wait for one  *)
(* index entry in turn: an INSERT that can go on again and again does.     *)
FairSpec ==
  Spec /\ \A r \in Requests : WF_vars(Serve(r)) /\ SF_vars(Insert(r))

-----------------------------------------------------------------------------
TypeOK ==
  /\ payments \subseteq Payment
  /\ events \in [Ids -> 0..2]
  /\ request \in [Requests -> Request]
  /\ answers \subseteq Payment

(* "A repeat with the same key creates no new payment" and "the same       *)
(* concurrent requests converge" (README): all answers for one key name    *)
(* one payment, whichever transactions raced, failed or were retried.      *)
AnswersAgree ==
  \A a, b \in answers : a.key = b.key => a.id = b.id

(* Payment row and outbox row stand or fall together: every committed      *)
(* payment has exactly one event, every event a payment, and what a client *)
(* was answered exists.                                                    *)
OneEventPerPayment ==
  /\ \A i \in Ids : events[i] = IF \E p \in payments : p.id = i THEN 1 ELSE 0
  /\ answers \subseteq payments

(* repositories.py:76: after a conflict the existing payment is present. *)
ExistingPresent ==
  \A r \in Requests :
    request[r].pc = "select" => Conflicts(request[r].key, payments) # {}

(* What a request's place says of its transaction: the row in the session   *)
(* is the key's; it is the transaction's own exactly from the INSERT that  *)
(* inserted to the commit, and its event is written before that; any other *)
(* row in a session is committed.                                          *)
SessionOK(r) ==
  LET q == request[r] IN
  /\ q.pc # "idle" => q.key \in Keys
  /\ q.pc \in {"event", "commit", "answer"} => q.row \in Payment /\ q.row.key = q.key
  /\ q.created <=> q.pc = "event" \/ q.written
  /\ q.written => q.pc = "commit"
  /\ q.pc \in {"commit", "answer"} /\ ~q.created => q.row \in payments

(* Neither key nor id is shared by two rows, committed or in flight.       *)
RowsApart ==
  /\ \A p, q \in payments : p.key = q.key \/ p.id = q.id => p = q
  /\ \A r \in Requests, p \in payments :
       request[r].created => p.key # request[r].row.key /\ p.id # request[r].row.id
  /\ \A r, s \in Requests :
       r # s /\ request[r].created /\ request[s].created
       => /\ request[r].row.key # request[s].row.key
          /\ request[r].row.id # request[s].row.id

(* The inductive invariant: whatever requests overlap, fail and are        *)
(* repeated, the rows of open transactions and the committed ones stay     *)
(* apart, and what has been answered is committed with its one event.      *)
IntakeInv ==
  /\ TypeOK
  /\ \A r \in Requests : SessionOK(r)
  /\ RowsApart
  /\ OneEventPerPayment
  /\ ExistingPresent

(* Requests that wait for each other's transactions all end. *)
RequestEnds ==
  \A r \in Requests : request[r].pc # "idle" ~> request[r].pc = "idle"

(* However requests overlap, fail and are repeated, what can be seen of    *)
(* them is that of requests served one at a time: a payment and its event  *)
(* appear together when the transaction commits (create_payment), for a    *)
(* key that had none, and every answer names one of the payments there.    *)
Registry == INSTANCE PaymentRegistry
ImplementsRegistry == Registry!Spec
=============================================================================
