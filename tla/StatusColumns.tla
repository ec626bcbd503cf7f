---------------------------- MODULE StatusColumns ----------------------------
(***************************************************************************)
(* The status columns of one row of payments and one of outbox, as texts:  *)
(* what each statement of the repositories binds, and what the table takes *)
(* in a database made by the migration (docker-compose.yml, Makefile) or   *)
(* from the models (the tests).  The other modules take a status as it is  *)
(* written; here its conversion is the subject.                            *)
(***************************************************************************)

VARIABLES
  schema,   \* how the tables were made
  stored,   \* the text in the column; "none" while there is no row
  raised    \* the statements that raised, by table and member

vars == <<schema, stored, raised>>

-----------------------------------------------------------------------------
(* The members of PaymentStatus and OutboxStatus. *)
Member(name, value) == [name |-> name, value |-> value]

PENDING == Member("PENDING", "pending")
SUCCEEDED == Member("SUCCEEDED", "succeeded")
FAILED == Member("FAILED", "failed")
IN_PROGRESS == Member("IN_PROGRESS", "in_progress")
PUBLISHED == Member("PUBLISHED", "published")

(* SqlEnum without values_callable makes a member the text of its name.    *)
Bound(member) == member.name

(* ck_payments_status and ck_outbox_status. *)
Declared ==
  [payments |-> {"pending", "succeeded", "failed"},
   outbox |-> {"pending", "in_progress", "published", "failed"}]

(* The models declare no constraint on the text: native_enum=False alone   *)
(* makes a VARCHAR.                                                        *)
Accepts(table, text) == schema = "created" \/ text \in Declared[table]

Init ==
  /\ schema \in {"migrated", "created"}
  /\ stored = [payments |-> "none", outbox |-> "none"]
  /\ raised = {}

(* A statement that gives the row of a table the status member. *)
Write(table, member) ==
  /\ IF Accepts(table, Bound(member))
     THEN /\ stored' = [stored EXCEPT ![table] = Bound(member)]
          /\ UNCHANGED raised
     ELSE /\ raised' = raised \cup {<<table, member>>}
          /\ UNCHANGED stored
  /\ UNCHANGED schema

UpsertPending == stored.payments = "none" /\ Write("payments", PENDING)

CreateEvent ==
  /\ stored.payments # "none"
  /\ stored.outbox = "none"
  /\ Write("outbox", PENDING)

MarkProcessed ==
  /\ stored.payments = Bound(PENDING)
  /\ \E member \in {SUCCEEDED, FAILED} : Write("payments", member)

AcquirePendingBatch ==
  /\ stored.outbox \in {Bound(PENDING), Bound(IN_PROGRESS)}
  /\ Write("outbox", IN_PROGRESS)

MarkPublished == stored.outbox # "none" /\ Write("outbox", PUBLISHED)

MarkPublishFailed == stored.outbox # "none" /\ Write("outbox", PENDING)

Next ==
  \/ UpsertPending
  \/ CreateEvent
  \/ MarkProcessed
  \/ AcquirePendingBatch
  \/ MarkPublished
  \/ MarkPublishFailed

Spec == Init /\ [][Next]_vars

-----------------------------------------------------------------------------
(* The migration's "status IN ('pending','succeeded','failed')": whatever  *)
(* status the repositories write, the table takes it, in the deployed      *)
(* database as in that of the tests.                                       *)
StatusesAccepted == raised = {}
=============================================================================
