--------------------------- MODULE Pipeline_proofs ---------------------------
(***************************************************************************)
(* The composition, for any number of payments, requests, relays, workers, *)
(* messages and mishaps.  Each component is proved in a module of its own; *)
(* a step of the service is a step of one or two of them, and what is left *)
(* to prove is what the joint steps keep between them.                     *)
(***************************************************************************)
EXTENDS Pipeline, PaymentRetries_proofs

IntakeProofs == INSTANCE PaymentIntake_proofs WITH Ids <- Payments
RelayProofs == INSTANCE OutboxRelay_proofs WITH
  Events <- Payments, Poison <- {}, LockTTL <- ClaimTTL

(* The instances in which the components' lemmas are stated are those the  *)
(* pipeline is built from.                                                 *)
LEMMA SameIntake ==
  /\ Intake!IntakeInv <=> IntakeProofs!IntakeInv
  /\ Intake!IntakeInv' <=> IntakeProofs!IntakeInv'
  /\ Intake!Next <=> IntakeProofs!Next
BY DEF Intake!IntakeInv, IntakeProofs!IntakeInv,
       Intake!TypeOK, IntakeProofs!TypeOK,
       Intake!Payment, IntakeProofs!Payment, Intake!Request, IntakeProofs!Request,
       Intake!SessionOK, IntakeProofs!SessionOK,
       Intake!RowsApart, IntakeProofs!RowsApart,
       Intake!OneEventPerPayment, IntakeProofs!OneEventPerPayment,
       Intake!ExistingPresent, IntakeProofs!ExistingPresent,
       Intake!Conflicts, IntakeProofs!Conflicts,
       Intake!Next, IntakeProofs!Next, Intake!Idle, IntakeProofs!Idle,
       Intake!Receive, IntakeProofs!Receive, Intake!Insert, IntakeProofs!Insert,
       Intake!Select, IntakeProofs!Select,
       Intake!CreateEvent, IntakeProofs!CreateEvent,
       Intake!Commit, IntakeProofs!Commit, Intake!Committed, IntakeProofs!Committed,
       Intake!Inserted, IntakeProofs!Inserted, Intake!InFlight, IntakeProofs!InFlight,
       Intake!FreshIds, IntakeProofs!FreshIds,
       Intake!Respond, IntakeProofs!Respond, Intake!Fail, IntakeProofs!Fail

LEMMA SameRelay ==
  /\ Outbox!RelayInv <=> RelayProofs!RelayInv
  /\ Outbox!RelayInv' <=> RelayProofs!RelayInv'
  /\ Outbox!HeldRows <=> RelayProofs!HeldRows
  /\ Outbox!HeldRows' <=> RelayProofs!HeldRows'
BY DEF Outbox!HeldRows, RelayProofs!HeldRows,
       Outbox!RelayInv, RelayProofs!RelayInv, Outbox!TypeOK, RelayProofs!TypeOK,
       Outbox!OutboxRow, RelayProofs!OutboxRow, Outbox!Relay, RelayProofs!Relay,
       Outbox!PlaceOK, RelayProofs!PlaceOK, Outbox!ClaimOK, RelayProofs!ClaimOK,
       Outbox!PublishedWasSent, RelayProofs!PublishedWasSent,
       Outbox!ClaimExclusion, RelayProofs!ClaimExclusion,
       Outbox!Batch, RelayProofs!Batch

(* What the relays do is the same in both, operator by operator. *)
LEMMA SameTable ==
  /\ Outbox!Candidates = RelayProofs!Candidates
  /\ Outbox!Claimed = RelayProofs!Claimed
  /\ Outbox!Down = RelayProofs!Down
  /\ Outbox!Mishap <=> RelayProofs!Mishap
BY DEF Outbox!Candidates, RelayProofs!Candidates, Outbox!Claimed, RelayProofs!Claimed,
       Outbox!Down, RelayProofs!Down, Outbox!Mishap, RelayProofs!Mishap

LEMMA SameRelayKeeps ==
  ASSUME NEW r \in Relays, Outbox!Keep(r)
  PROVE  RelayProofs!Keep(r)
<1>1. ASSUME NEW S
      PROVE  Outbox!Oldest(S) = RelayProofs!Oldest(S)
  BY Zenon DEF Outbox!Oldest, RelayProofs!Oldest,
               Outbox!Cardinality, RelayProofs!Cardinality
<1>2. Outbox!ClaimBatch => RelayProofs!ClaimBatch
  BY <1>1, SameTable DEF Outbox!ClaimBatch, RelayProofs!ClaimBatch
<1>3. Outbox!Loop(r) => RelayProofs!Loop(r)
  BY SameTable DEF Outbox!Loop, RelayProofs!Loop
<1>4. Outbox!Recorded(r) => RelayProofs!Recorded(r)
  BY DEF Outbox!Recorded, RelayProofs!Recorded, Outbox!Unlocked, RelayProofs!Unlocked
<1>5. Outbox!Start(r) => RelayProofs!Start(r)
  BY DEF Outbox!Start, RelayProofs!Start
<1>6. Outbox!Setup(r) => RelayProofs!Setup(r)
  BY DEF Outbox!Setup, RelayProofs!Setup
<1>7. Outbox!Stop(r) => RelayProofs!Stop(r)
  BY SameTable DEF Outbox!Stop, RelayProofs!Stop
<1>8. Outbox!Exit(r) => RelayProofs!Exit(r)
  BY SameTable DEF Outbox!Exit, RelayProofs!Exit
<1>9. Outbox!Poll(r) => RelayProofs!Poll(r)
  BY <1>1, <1>2, SameTable DEF Outbox!Poll, RelayProofs!Poll
<1>10. Outbox!Record(r) => RelayProofs!Record(r)
  BY <1>3, <1>4 DEF Outbox!Record, RelayProofs!Record
<1>11. Outbox!DbError(r) => RelayProofs!DbError(r)
  BY <1>2, <1>3, <1>4, SameTable DEF Outbox!DbError, RelayProofs!DbError
<1>12. Outbox!Crash(r) => RelayProofs!Crash(r)
  BY SameTable DEF Outbox!Crash, RelayProofs!Crash
<1> QED
  BY <1>5, <1>6, <1>7, <1>8, <1>9, <1>10, <1>11, <1>12 DEF Outbox!Keep, RelayProofs!Keep

LEMMA SamePublished ==
  ASSUME NEW r \in Relays, NEW p
  PROVE  /\ Outbox!Accepted(r, p) => RelayProofs!Accepted(r, p)
         /\ Outbox!AnswerLost(r, p) => RelayProofs!AnswerLost(r, p)
         /\ Outbox!Refused(r, p) => RelayProofs!Refused(r, p)
<1>1. ASSUME NEW pc
      PROVE  Outbox!Publication(r, p, pc) => RelayProofs!Publication(r, p, pc)
  BY DEF Outbox!Publication, RelayProofs!Publication
<1>2. Outbox!Taken(p) => RelayProofs!Taken(p)
  BY DEF Outbox!Taken, RelayProofs!Taken
<1>3. Outbox!Accepted(r, p) => RelayProofs!Accepted(r, p)
  BY <1>1, <1>2 DEF Outbox!Accepted, RelayProofs!Accepted
<1>4. Outbox!AnswerLost(r, p) => RelayProofs!AnswerLost(r, p)
  BY <1>1, <1>2, SameTable DEF Outbox!AnswerLost, RelayProofs!AnswerLost
<1>5. Outbox!Refused(r, p) => RelayProofs!Refused(r, p)
  BY <1>1, SameTable DEF Outbox!Refused, RelayProofs!Refused
<1> QED
  BY <1>3, <1>4, <1>5

LEMMA SamePublication ==
  ASSUME NEW r \in Relays, NEW p \in relay[r].todo,
         Outbox!Accepted(r, p) \/ Outbox!AnswerLost(r, p) \/ Outbox!Refused(r, p)
  PROVE  RelayProofs!Publish(r)
BY SamePublished DEF RelayProofs!Publish

LEMMA SameTick == Outbox!Tick => RelayProofs!Tick
BY DEF Outbox!Tick, RelayProofs!Tick, Outbox!Older, RelayProofs!Older,
       Outbox!Batch, RelayProofs!Batch

LEMMA SameCreate ==
  ASSUME NEW p \in Payments, Outbox!Create(p)
  PROVE  RelayProofs!Create(p)
BY DEF Outbox!Create, RelayProofs!Create, Outbox!Unlocked, RelayProofs!Unlocked

(* So the components' invariants are kept by their steps in the pipeline. *)
LEMMA IntakeStepKeeps ==
  ASSUME Intake!IntakeInv, Intake!Next \/ UNCHANGED intakeVars
  PROVE  Intake!IntakeInv'
<1>1. IntakeProofs!IntakeInv /\ [IntakeProofs!Next]_(IntakeProofs!vars)
  BY SameIntake DEF intakeVars, IntakeProofs!vars
<1>2. IntakeProofs!IntakeInv'
  BY <1>1, IntakeProofs!IntakeNextKeeps, ProcessorAssumption, PipelineAssumption
<1> QED
  BY <1>2, SameIntake

LEMMA RelayStepKeeps ==
  ASSUME Outbox!RelayInv, RelayProofs!Next
  PROVE  Outbox!RelayInv'
<1>1. RelayProofs!RelayInv'
  BY SameRelay, RelayProofs!RelayNextKeeps, ProcessorAssumption, ConsumerAssumption,
     PipelineAssumption
<1> QED
  BY <1>1, SameRelay

LEMMA RelayIdle ==
  ASSUME Outbox!RelayInv, UNCHANGED outboxVars, mishaps' \in 0..MaxMishaps
  PROVE  Outbox!RelayInv'
<1>1. RelayProofs!RelayInv'
  BY SameRelay, RelayProofs!MishapElsewhere, ProcessorAssumption, ConsumerAssumption,
     PipelineAssumption DEF outboxVars
<1> QED
  BY <1>1, SameRelay

-----------------------------------------------------------------------------
(* What the joint steps keep between the components. *)
RowsMatch == \A p \in Payments : p \in Committed <=> outbox[p].status # "absent"
SentMatch == \A p \in Payments : p \in published <=> sent[p] > 0
Links == Outbox!HeldRows /\ RowsMatch /\ SentMatch /\ published \subseteq Committed
Consumers == ConsumerInv /\ OnlyPublishedHandled

LEMMA PipelineParts ==
  /\ PipelineInv <=> Intake!IntakeInv /\ Outbox!RelayInv /\ Consumers /\ Links
  /\ PipelineInv' <=> Intake!IntakeInv' /\ Outbox!RelayInv' /\ Consumers' /\ Links'
BY DEF PipelineInv, Links, RowsMatch, SentMatch, Consumers

LEMMA MishapsBounded ==
  /\ Outbox!RelayInv => mishaps \in 0..MaxMishaps
  /\ Outbox!RelayInv' => mishaps' \in 0..MaxMishaps
  /\ ConsumerInv => mishaps \in 0..MaxMishaps
  /\ ConsumerInv' => mishaps' \in 0..MaxMishaps
BY DEF Outbox!RelayInv, Outbox!TypeOK, ConsumerInv, ConsumerTypeOK

(* A relay's mishap is none of the consumer's. *)
LEMMA ConsumerIdle ==
  ASSUME Consumers, UNCHANGED <<processorVars, queueVars>>, mishaps' \in 0..MaxMishaps
  PROVE  Consumers'
<1>1. ProcessorInv' /\ TypeOK'
  BY NextKeeps DEF Consumers, ConsumerInv, ProcessorInv
<1>2. ConsumerTypeOK'
  BY <1>1 DEF Consumers, ConsumerInv, ConsumerTypeOK, queueVars
<1>3. payment' = payment /\ task' = task
  BY DEF processorVars
<1>4. Rest'
  BY <1>3 DEF queueVars, Consumers, ConsumerInv, Rest, Paid, OneOwner, Jobs, JobOK, Owns,
              Pay, NothingLost, Live, Pending
<1>5. OnlyPublishedHandled'
  BY <1>3 DEF queueVars, Consumers, OnlyPublishedHandled, Pay
<1> QED
  BY <1>1, <1>2, <1>4, <1>5 DEF Consumers, ConsumerInv, Rest, Paid, Jobs, OneOwner

LEMMA ConsumerArrives ==
  ASSUME Consumers, NEW p \in Payments, Arrive(p), mishaps' \in 0..MaxMishaps
  PROVE  Consumers'
<1>1. UNCHANGED processorVars
  BY DEF Arrive
<1>2. ProcessorInv'
  BY <1>1, NextKeeps DEF Consumers, ConsumerInv
<1>3. ConsumerTypeOK' /\ Rest'
  BY <1>1, ArriveKeeps DEF Consumers
<1>4. OnlyPublishedHandled'
  BY ArriveHandled DEF Consumers
<1> QED
  BY <1>2, <1>3, <1>4 DEF Consumers, ConsumerInv, Rest, Paid, Jobs, OneOwner

LEMMA ConsumerSteps ==
  ASSUME Consumers, [ConsumerNext]_consumerVars
  PROVE  Consumers'
BY ConsumerNextKeeps, HandledKept DEF Consumers

LEMMA LinksKept ==
  ASSUME Links, UNCHANGED <<outbox, relay, sent, published, payments>>
  PROVE  Links'
<1>1. Committed' = Committed
  BY DEF Committed
<1>2. Outbox!HeldRows'
  BY DEF Links, Outbox!HeldRows, Outbox!Batch
<1> QED
  BY <1>1, <1>2 DEF Links, RowsMatch, SentMatch

LEMMA RegisteredCommitted ==
  ASSUME NEW key, NEW id, payments' = payments \cup {[key |-> key, id |-> id]}
  PROVE  Committed' = Committed \cup {id}
<1> DEFINE row == [key |-> key, id |-> id]
<1>1. payments' = payments \cup {row} /\ row.id = id
  OBVIOUS
<1> HIDE DEF row
<1> QED
  BY <1>1 DEF Committed

-----------------------------------------------------------------------------
(* The commit of a request writes the outbox row of the payment it commits. *)
LEMMA RequestKeeps ==
  ASSUME PipelineInv, RequestStep
  PROVE  PipelineInv'
<1>1. Intake!Next /\ UNCHANGED consumerVars
  BY DEF RequestStep
<1>2. Intake!IntakeInv /\ Outbox!RelayInv /\ Consumers /\ Links
  BY PipelineParts
<1>3. Intake!IntakeInv'
  BY <1>1, <1>2, IntakeStepKeeps
<1>4. Consumers'
  BY <1>1, <1>2, ConsumerSteps
<1>5. mishaps' \in 0..MaxMishaps
  BY <1>4, MishapsBounded DEF Consumers
<1>6. \/ UNCHANGED <<payments, events>>
      \/ \E key \in Keys, id \in Payments : IntakeProofs!Registers(key, id)
  <2>1. IntakeProofs!IntakeInv /\ [IntakeProofs!Next]_(IntakeProofs!vars)
    BY <1>1, <1>2, SameIntake
  <2> QED
    BY <2>1, IntakeProofs!IntakeShows, ProcessorAssumption, PipelineAssumption
<1>7. CASE UNCHANGED <<payments, events>>
  <2>1. UNCHANGED outboxVars
    BY <1>7 DEF RequestStep, Written
  <2>2. Outbox!RelayInv'
    BY <1>2, <1>5, <2>1, RelayIdle
  <2>3. Links'
    BY <1>1, <1>2, <1>7, <2>1, LinksKept DEF outboxVars, consumerVars, brokerVars
  <2> QED
    BY <1>3, <1>4, <2>2, <2>3, PipelineParts
<1>8. ASSUME NEW key \in Keys, NEW id \in Payments, IntakeProofs!Registers(key, id)
      PROVE  PipelineInv'
  <2>1. /\ events[id] = 0 /\ events' = [events EXCEPT ![id] = 1]
        /\ payments' = payments \cup {[key |-> key, id |-> id]}
    BY <1>8 DEF IntakeProofs!Registers
  <2>2. Written = {id}
    BY <1>2, <2>1 DEF Written, Intake!IntakeInv, Intake!TypeOK
  <2>3. Outbox!Create(id)
    BY <2>2 DEF RequestStep
  <2>4. RelayProofs!Create(id)
    BY <2>3, SameCreate
  <2>5. Outbox!RelayInv'
    BY <1>2, <2>4, RelayStepKeeps DEF RelayProofs!Next
  <2>6. /\ Outbox!HeldRows' /\ sent' = sent /\ outbox'[id].status # "absent"
        /\ \A p \in Payments : p # id => outbox'[p] = outbox[p]
    BY <1>2, <2>4, SameRelay, RelayProofs!CreateRows, ProcessorAssumption,
       ConsumerAssumption, PipelineAssumption DEF Links
  <2>7. Committed' = Committed \cup {id}
    BY <2>1, RegisteredCommitted
  <2>8. published' = published
    BY <1>1 DEF consumerVars, brokerVars
  <2>9. Links'
    BY <1>2, <2>6, <2>7, <2>8 DEF Links, RowsMatch, SentMatch
  <2> QED
    BY <1>3, <1>4, <2>5, <2>9, PipelineParts
<1> QED
  BY <1>6, <1>7, <1>8

(* A relay does anything but publish. *)
LEMMA RelayKeepsKeeps ==
  ASSUME PipelineInv, NEW r \in Relays, RelayKeeps(r)
  PROVE  PipelineInv'
<1>1. Intake!IntakeInv /\ Outbox!RelayInv /\ Consumers /\ Links
  BY PipelineParts
<1>2. RelayProofs!Keep(r) /\ UNCHANGED <<intakeVars, processorVars, queueVars>>
  BY SameRelayKeeps DEF RelayKeeps
<1>3. Intake!IntakeInv'
  BY <1>1, <1>2, IntakeStepKeeps
<1>4. Outbox!RelayInv'
  BY <1>1, <1>2, RelayStepKeeps DEF RelayProofs!Next
<1>5. Consumers'
  BY <1>1, <1>2, <1>4, ConsumerIdle, MishapsBounded
<1>6. RelayProofs!SameRows /\ RelayProofs!HeldRows' /\ sent' = sent
  BY <1>1, <1>2, SameRelay, RelayProofs!KeepRows, ProcessorAssumption,
     ConsumerAssumption, PipelineAssumption DEF Links
<1>7. Links'
  BY <1>1, <1>2, <1>6, SameRelay
  DEF Links, RowsMatch, SentMatch, RelayProofs!SameRows, intakeVars, queueVars, Committed
<1> QED
  BY <1>3, <1>4, <1>5, <1>7, PipelineParts

(* What a relay publishes, and the queue gets, is a committed payment's. *)
LEMMA RelayPublishesKeeps ==
  ASSUME PipelineInv, NEW r \in Relays, RelayPublishes(r)
  PROVE  PipelineInv'
<1>1. Intake!IntakeInv /\ Outbox!RelayInv /\ Consumers /\ Links
  BY PipelineParts
<1>2. PICK p \in relay[r].todo :
        \/ (Outbox!Accepted(r, p) \/ Outbox!AnswerLost(r, p)) /\ DeliveredToQueue(p)
        \/ Outbox!Refused(r, p) /\ UNCHANGED <<processorVars, queueVars>>
  BY DEF RelayPublishes
<1>3. RelayProofs!Publish(r)
  BY <1>2, SamePublication
<1>4. UNCHANGED intakeVars
  BY DEF RelayPublishes
<1>5. Intake!IntakeInv'
  BY <1>1, <1>4, IntakeStepKeeps
<1>6. Outbox!RelayInv'
  BY <1>1, <1>3, RelayStepKeeps DEF RelayProofs!Next
<1>7. mishaps' \in 0..MaxMishaps
  BY <1>6, MishapsBounded
<1>8. Committed' = Committed
  BY <1>4 DEF intakeVars, Committed
<1>9. CASE (Outbox!Accepted(r, p) \/ Outbox!AnswerLost(r, p)) /\ DeliveredToQueue(p)
  <2>1. RelayProofs!Accepted(r, p) \/ RelayProofs!AnswerLost(r, p)
    BY <1>9, SamePublished
  <2>2. /\ Outbox!HeldRows' /\ outbox' = outbox /\ bound
        /\ p \in Payments /\ outbox[p].status # "absent"
        /\ sent'[p] > 0 /\ \A q \in Payments : q # p => sent'[q] = sent[q]
    BY <1>1, <2>1, SameRelay, RelayProofs!PublicationRows, ProcessorAssumption,
       ConsumerAssumption, PipelineAssumption DEF Links
  <2>3. Arrive(p) /\ published' = published \cup {p}
    BY <1>9, <2>2 DEF DeliveredToQueue, Arrive
  <2>4. Consumers'
    BY <1>1, <1>7, <2>2, <2>3, ConsumerArrives
  <2>5. p \in Committed
    BY <1>1, <2>2 DEF Links, RowsMatch
  <2>6. Links'
    BY <1>1, <1>8, <2>2, <2>3, <2>5 DEF Links, RowsMatch, SentMatch
  <2> QED
    BY <1>5, <1>6, <2>4, <2>6, PipelineParts
<1>10. CASE Outbox!Refused(r, p) /\ UNCHANGED <<processorVars, queueVars>>
  <2>1. RelayProofs!Refused(r, p)
    BY <1>10, SamePublished
  <2>2. Outbox!HeldRows' /\ outbox' = outbox /\ sent' = sent
    BY <1>1, <2>1, SameRelay, RelayProofs!PublicationRows, ProcessorAssumption,
       ConsumerAssumption, PipelineAssumption DEF Links
  <2>3. Consumers'
    BY <1>1, <1>7, <1>10, ConsumerIdle
  <2>4. Links'
    BY <1>1, <1>8, <1>10, <2>2 DEF Links, RowsMatch, SentMatch, queueVars
  <2> QED
    BY <1>5, <1>6, <2>3, <2>4, PipelineParts
<1> QED
  BY <1>2, <1>9, <1>10

LEMMA ConsumeKeeps ==
  ASSUME PipelineInv, Alone(Consume)
  PROVE  PipelineInv'
<1>1. Intake!IntakeInv /\ Outbox!RelayInv /\ Consumers /\ Links
  BY PipelineParts
<1>2. Consume /\ UNCHANGED <<intakeVars, outboxVars>>
  BY DEF Alone
<1>3. Intake!IntakeInv'
  BY <1>1, <1>2, IntakeStepKeeps
<1>4. Consumers'
  BY <1>1, <1>2, ConsumerSteps DEF ConsumerNext
<1>5. Outbox!RelayInv'
  BY <1>1, <1>2, <1>4, RelayIdle, MishapsBounded DEF Consumers
<1>6. published' = published
  BY <1>2 DEF Consume, Take, Process, Ack, Dispose, DisposeFails, Settle, Die, Drop,
              SetupFails, Requeue, Expire, brokerVars
<1>7. Links'
  BY <1>1, <1>2, <1>6, LinksKept DEF intakeVars, outboxVars
<1> QED
  BY <1>3, <1>4, <1>5, <1>7, PipelineParts

LEMMA TimePassesKeeps ==
  ASSUME PipelineInv, TimePasses
  PROVE  PipelineInv'
<1>1. Intake!IntakeInv /\ Outbox!RelayInv /\ Consumers /\ Links
  BY PipelineParts
<1>2. Elapse /\ RelayProofs!Tick /\ UNCHANGED intakeVars
  BY SameTick DEF TimePasses
<1>3. Intake!IntakeInv'
  BY <1>1, <1>2, IntakeStepKeeps
<1>4. Consumers'
  BY <1>1, <1>2, ConsumerSteps DEF ConsumerNext
<1>5. Outbox!RelayInv'
  BY <1>1, <1>2, RelayStepKeeps DEF RelayProofs!Next
<1>6. RelayProofs!SameRows /\ RelayProofs!HeldRows' /\ sent' = sent
  BY <1>1, <1>2, SameRelay, RelayProofs!TickRows, ProcessorAssumption,
     ConsumerAssumption, PipelineAssumption DEF Links
<1>7. published' = published
  BY <1>2 DEF Elapse
<1>8. Links'
  BY <1>1, <1>2, <1>6, <1>7, SameRelay
  DEF Links, RowsMatch, SentMatch, RelayProofs!SameRows, intakeVars, Committed
<1> QED
  BY <1>3, <1>4, <1>5, <1>8, PipelineParts

LEMMA PipelineNextKeeps ==
  ASSUME PipelineInv, [PipelineNext]_pipelineVars
  PROVE  PipelineInv'
<1>1. CASE UNCHANGED pipelineVars
  <2>1. Intake!IntakeInv /\ Outbox!RelayInv /\ Consumers /\ Links
    BY PipelineParts
  <2>2. UNCHANGED <<intakeVars, outboxVars, consumerVars>>
    BY <1>1 DEF pipelineVars
  <2>3. Intake!IntakeInv' /\ Consumers'
    BY <2>1, <2>2, IntakeStepKeeps, ConsumerSteps
  <2>4. Outbox!RelayInv'
    BY <2>1, <2>2, <2>3, RelayIdle, MishapsBounded DEF Consumers
  <2>5. Links'
    BY <2>1, <2>2, LinksKept DEF intakeVars, outboxVars, consumerVars, brokerVars
  <2> QED
    BY <2>3, <2>4, <2>5, PipelineParts
<1> QED
  BY <1>1, RequestKeeps, RelayKeepsKeeps, RelayPublishesKeeps, ConsumeKeeps,
     TimePassesKeeps DEF PipelineNext

LEMMA PipelineInitially == PipelineInit => PipelineInv
<1> SUFFICES ASSUME PipelineInit PROVE PipelineInv
  OBVIOUS
<1>1. Intake!Init /\ Outbox!Init /\ ConsumerInit
  BY DEF PipelineInit
<1>2. Intake!IntakeInv
  <2>1. IntakeProofs!Init
    BY <1>1 DEF Intake!Init, IntakeProofs!Init, Intake!Idle, IntakeProofs!Idle
  <2> QED
    BY <2>1, SameIntake, IntakeProofs!IntakeInitially, ProcessorAssumption,
       PipelineAssumption
<1>3. Outbox!RelayInv
  <2>1. RelayProofs!Init
    BY <1>1 DEF Outbox!Init, RelayProofs!Init, Outbox!Down, RelayProofs!Down,
                Outbox!Unlocked, RelayProofs!Unlocked
  <2> QED
    BY <2>1, SameRelay, RelayProofs!RelayInitially, ProcessorAssumption,
       ConsumerAssumption, PipelineAssumption
<1>4. Consumers
  BY <1>1, ConsumerInitHolds, HandledInitially DEF Consumers
<1>5. Outbox!HeldRows
  BY <1>1 DEF Outbox!Init, Outbox!HeldRows, Outbox!Batch, Outbox!Down
<1>6. RowsMatch
  BY <1>1 DEF Outbox!Init, Outbox!Unlocked, Intake!Init, RowsMatch, Committed
<1>7. SentMatch /\ published \subseteq Committed
  BY <1>1 DEF Outbox!Init, ConsumerInit, SentMatch
<1> QED
  BY <1>2, <1>3, <1>4, <1>5, <1>6, <1>7, PipelineParts DEF Links

(* The service's inductive invariant.                                      *)
THEOREM PipelineInvariant == PipelineSpec => []PipelineInv
<1>1. PipelineInv /\ [PipelineNext]_pipelineVars => PipelineInv'
  BY PipelineNextKeeps
<1> QED
  BY <1>1, PipelineInitially, PTL DEF PipelineSpec

(* process() meets only committed payments (processor.py:45): the outbox   *)
(* row is committed with its payment, and nothing is published without it. *)
THEOREM CommittedBeforeHandled == PipelineSpec => []OnlyCommittedHandled
<1>1. PipelineInv => OnlyCommittedHandled
  <2> SUFFICES ASSUME PipelineInv, NEW p \in Payments \ Committed
               PROVE  /\ outbox[p].status = "absent"
                      /\ Live(p) = {}
                      /\ \A w \in Workers : Pay(w) # p
    BY DEF OnlyCommittedHandled
  <2>1. outbox[p].status = "absent" /\ p \notin published /\ p # None
    BY ProcessorAssumption DEF PipelineInv
  <2> QED
    BY <2>1 DEF PipelineInv, OnlyPublishedHandled, Live
<1> QED
  BY <1>1, PipelineInvariant, PTL

(* A committed payment always leaves something that goes on from it: its   *)
(* outbox row until it is published, and then what the consumer keeps.     *)
THEOREM CommittedNeverLost == PipelineSpec => []NeverLost
<1>1. PipelineInv => NeverLost
  <2> SUFFICES ASSUME PipelineInv, NEW p \in Committed,
                      outbox[p].status \notin {"pending", "in_progress"}
               PROVE  \/ \E c \in Live(p) : Pending(c)
                      \/ payment[p].delivered
                      \/ p \in dlq
    BY DEF NeverLost
  <2>1. p \in Payments
    BY DEF PipelineInv, Committed, Intake!IntakeInv, Intake!TypeOK, Intake!Payment
  <2>2. outbox[p].status = "published"
    BY <2>1 DEF PipelineInv, Outbox!RelayInv, Outbox!TypeOK, Outbox!OutboxRow
  <2>3. p \in published
    BY <2>1, <2>2 DEF PipelineInv, Outbox!RelayInv, Outbox!PublishedWasSent
  <2> QED
    BY <2>3 DEF PipelineInv, ConsumerInv, NothingLost
<1> QED
  BY <1>1, PipelineInvariant, PTL

(* Every component's state stays what its types say, also in the joint     *)
(* steps.                                                                  *)
THEOREM PipelineTypes == PipelineSpec => []PipelineTypeOK
<1>1. PipelineInv => PipelineTypeOK
  BY DEF PipelineInv, PipelineTypeOK, Intake!IntakeInv, Outbox!RelayInv, ConsumerInv
<1> QED
  BY <1>1, PipelineInvariant, PTL
-----------------------------------------------------------------------------
(* Every step of the service is a step of the abstract payment, or none.   *)
EndToEndStep == EndToEnd!Next \/ UNCHANGED EndToEnd!vars

(* process() settles only committed payments, so its steps are those of    *)
(* the abstract payment here as they were for a given set of payments.     *)
LEMMA ProcessorStepEndToEnd ==
  ASSUME PipelineInv, [Next]_processorVars, Committed' = Committed
  PROVE  EndToEndStep
<1>1. ProcessorInv
  BY DEF PipelineInv, ConsumerInv
<1>2. AbstractStep
  BY <1>1, NextAbstract
<1>3. CASE UNCHANGED Lifecycle!vars
  BY <1>3 DEF Lifecycle!vars, EndToEnd!vars, EndToEndStep
<1>4. ASSUME NEW p \in Payments, NEW s \in Outcomes, Lifecycle!Settle(p, s)
      PROVE  EndToEndStep
  <2>1. payment[p].status = "pending" /\ payment'[p].status = s
    BY <1>4 DEF Lifecycle!Settle
  <2>2. PICK w \in Workers : Pay(w) = p
    BY <1>1, <2>1, SettledByItsCall DEF Outcomes
  <2>3. p \in Committed
    BY <2>2, ProcessorAssumption DEF PipelineInv, OnlyPublishedHandled
  <2>4. EndToEnd!Settle(p, s)
    BY <1>4, <2>3 DEF Lifecycle!Settle, EndToEnd!Settle
  <2> QED
    BY <2>4 DEF EndToEndStep, EndToEnd!Next, EndToEnd!Outcomes, Outcomes
<1>5. ASSUME NEW p \in Payments,
             Lifecycle!Accept(p) \/ Lifecycle!Tell(p) \/ Lifecycle!Confirm(p)
      PROVE  EndToEndStep
  <2>1. CASE Lifecycle!Accept(p)
    BY <2>1 DEF Lifecycle!Accept, EndToEnd!vars, EndToEndStep
  <2>2. CASE Lifecycle!Tell(p)
    <3>1. EndToEnd!Tell(p)
      BY <2>2 DEF Lifecycle!Tell, EndToEnd!Tell
    <3> QED
      BY <3>1 DEF EndToEndStep, EndToEnd!Next
  <2>3. CASE Lifecycle!Confirm(p)
    <3>1. EndToEnd!Confirm(p)
      BY <2>3 DEF Lifecycle!Confirm, EndToEnd!Confirm
    <3> QED
      BY <3>1 DEF EndToEndStep, EndToEnd!Next
  <2> QED
    BY <1>5, <2>1, <2>2, <2>3
<1> QED
  BY <1>2, <1>3, <1>4, <1>5 DEF AbstractStep, Lifecycle!Next, Lifecycle!Outcomes, Outcomes

(* A request's commit accepts its payment. *)
LEMMA RequestEndToEnd ==
  ASSUME PipelineInv, RequestStep
  PROVE  EndToEndStep
<1>1. payment' = payment /\ heard' = heard
  BY DEF RequestStep, consumerVars, processorVars
<1>2. \/ UNCHANGED <<payments, events>>
      \/ \E key \in Keys, id \in Payments : IntakeProofs!Registers(key, id)
  <2>1. IntakeProofs!IntakeInv /\ [IntakeProofs!Next]_(IntakeProofs!vars)
    BY SameIntake DEF RequestStep, PipelineInv
  <2> QED
    BY <2>1, IntakeProofs!IntakeShows, ProcessorAssumption, PipelineAssumption
<1>3. CASE UNCHANGED <<payments, events>>
  BY <1>1, <1>3 DEF Committed, EndToEnd!vars, EndToEndStep
<1>4. ASSUME NEW key \in Keys, NEW id \in Payments, IntakeProofs!Registers(key, id)
      PROVE  EndToEndStep
  <2>1. Committed' = Committed \cup {id}
    BY <1>4, RegisteredCommitted DEF IntakeProofs!Registers
  <2>2. EndToEnd!Accept(id)
    BY <1>1, <2>1 DEF EndToEnd!Accept
  <2> QED
    BY <2>2 DEF EndToEndStep, EndToEnd!Next
<1> QED
  BY <1>2, <1>3, <1>4

LEMMA NextEndToEnd ==
  ASSUME PipelineInv, [PipelineNext]_pipelineVars
  PROVE  EndToEndStep
<1>1. ASSUME NEW r \in Relays, RelayKeeps(r) \/ RelayPublishes(r)
      PROVE  UNCHANGED processorVars /\ UNCHANGED payments
  BY <1>1 DEF RelayKeeps, RelayPublishes, DeliveredToQueue, Arrive, intakeVars
<1>2. ASSUME Alone(Consume) \/ TimePasses
      PROVE  [Next]_processorVars /\ UNCHANGED payments
  BY <1>2, ProcessorStep
  DEF PipelineInv, Alone, TimePasses, ConsumerNext, intakeVars
<1>3. CASE UNCHANGED payments /\ [Next]_processorVars
  BY <1>3, ProcessorStepEndToEnd DEF Committed
<1>4. CASE UNCHANGED pipelineVars
  BY <1>3, <1>4 DEF pipelineVars, intakeVars, consumerVars
<1> QED
  BY <1>1, <1>2, <1>3, <1>4, RequestEndToEnd DEF PipelineNext

(* The whole service implements the abstract payment: what is settled was  *)
(* committed by a request, the merchant is told only of settled payments,  *)
(* and only what the merchant heard is recorded as delivered.              *)
THEOREM ServiceRefinesLifecycle == PipelineSpec => ServiceImplementsLifecycle
<1>1. PipelineInit => EndToEnd!Init
  <2> SUFFICES ASSUME PipelineInit PROVE EndToEnd!Init
    OBVIOUS
  <2>1. \A p \in Payments : /\ payment[p].status = "pending"
                            /\ payment[p].delivered = FALSE
                            /\ (heard[p] # {}) = FALSE
    BY DEF PipelineInit, ConsumerInit, Init, NewRow
  <2>2. Committed \in SUBSET Payments
    BY DEF PipelineInit, Intake!Init, Committed
  <2> QED
    BY <2>1, <2>2, Zenon DEF EndToEnd!Init
<1>2. PipelineInv /\ [PipelineNext]_pipelineVars => [EndToEnd!Next]_(EndToEnd!vars)
  BY NextEndToEnd DEF EndToEndStep
<1> QED
  BY <1>1, <1>2, PipelineInvariant, PTL
  DEF PipelineSpec, ServiceImplementsLifecycle, EndToEnd!Spec
-----------------------------------------------------------------------------
(* The consumers of the whole service call process() only as               *)
(* PaymentProcessor allows.                                                *)
THEOREM ServiceRunsProcessor == PipelineSpec => Spec
<1>1. PipelineInit => Init
  BY DEF PipelineInit, ConsumerInit
<1>2. ASSUME PipelineInv, [PipelineNext]_pipelineVars
      PROVE  [Next]_processorVars
  <2>1. CASE RequestStep \/ UNCHANGED pipelineVars
    BY <2>1 DEF RequestStep, pipelineVars, consumerVars
  <2>2. CASE \E r \in Relays : RelayKeeps(r) \/ RelayPublishes(r)
    BY <2>2 DEF RelayKeeps, RelayPublishes, DeliveredToQueue, Arrive
  <2>3. CASE Alone(Consume) \/ TimePasses
    BY <1>2, <2>3, ProcessorStep DEF PipelineInv, Alone, TimePasses, ConsumerNext
  <2> QED
    BY <1>2, <2>1, <2>2, <2>3 DEF PipelineNext
<1>3. PipelineInv /\ [PipelineNext]_pipelineVars => [Next]_processorVars
  BY <1>2
<1> QED
  BY <1>1, <1>3, PipelineInvariant, PTL DEF PipelineSpec, Spec

(* So the webhook lock is a lease, its owner loses it to nobody before its *)
(* TTL is over, and outcomes are final, in the whole service too.          *)
THEOREM ServiceKeepsLease ==
  PipelineSpec => []LeaseExclusion /\ LockKeptForOwner /\ OutcomeFinal
BY ServiceRunsProcessor, LeasesExclude, LocksKept, OutcomesFinal

-----------------------------------------------------------------------------
(* From the outbox to the merchant without a failure in between.           *)
LEMMA SameOnce ==
  /\ Outbox!OnceInv <=> RelayProofs!OnceInv
  /\ Outbox!OnceInv' <=> RelayProofs!OnceInv'
BY DEF Outbox!OnceInv, RelayProofs!OnceInv, Outbox!SentOnce, RelayProofs!SentOnce,
       Outbox!Marking, RelayProofs!Marking

LEMMA OnceStepKeeps ==
  ASSUME Outbox!RelayInv, Outbox!OnceInv, RelayProofs!Next
  PROVE  /\ Outbox!OnceInv'
         /\ mishaps' = 0 => mishaps = 0
         /\ ~overran' => ~overran
<1>1. RelayProofs!OnceInv'
  BY SameRelay, SameOnce, RelayProofs!NextKeepsOnce, ProcessorAssumption,
     ConsumerAssumption, PipelineAssumption
<1>2. (mishaps' = 0 => mishaps = 0) /\ (~overran' => ~overran)
  BY SameRelay, RelayProofs!CausesStay, ProcessorAssumption, ConsumerAssumption,
     PipelineAssumption
<1> QED
  BY <1>1, <1>2, SameOnce

LEMMA OnceIdle ==
  ASSUME Outbox!RelayInv, Outbox!OnceInv, UNCHANGED outboxVars,
         mishaps' = 0 => mishaps = 0
  PROVE  Outbox!OnceInv'
<1>1. RelayProofs!OnceInv'
  BY SameRelay, SameOnce, RelayProofs!OnceUnmoved, ProcessorAssumption,
     ConsumerAssumption, PipelineAssumption DEF outboxVars
<1> QED
  BY <1>1, SameOnce

(* A message that a publication adds is the payment's first. *)
LEMMA PublishesFirst ==
  ASSUME PipelineInv, QuietInv, NEW r \in Relays, NEW p \in relay[r].todo,
         Outbox!Accepted(r, p) \/ Outbox!AnswerLost(r, p), Arrive(p),
         mishaps = 0, ~overran
  PROVE  duplicated' = {}
<1>1. Outbox!RelayInv /\ SentMatch
  BY PipelineParts DEF Links
<1>2. relay[r].pc = "batch"
  BY DEF Outbox!Accepted, Outbox!AnswerLost, Outbox!Publication
<1>3. p \in Payments
  BY <1>1 DEF Outbox!RelayInv, Outbox!TypeOK, Outbox!Relay
<1>4. sent[p] = 0
  BY <1>1, <1>2, SameRelay, SameOnce, RelayProofs!FirstPublication, ProcessorAssumption,
     ConsumerAssumption, PipelineAssumption DEF QuietInv
<1>5. p \notin published
  BY <1>1, <1>3, <1>4 DEF SentMatch
<1> QED
  BY <1>5 DEF Arrive, QuietInv, OneMessageEach

LEMMA RelayQuiet ==
  ASSUME PipelineInv, QuietInv, NEW r \in Relays, RelayKeeps(r) \/ RelayPublishes(r)
  PROVE  QuietInv'
<1>1. Outbox!RelayInv /\ Outbox!OnceInv /\ LoneInv /\ OneMessageEach /\ Consumers
  BY PipelineParts DEF QuietInv
<1>2. RelayProofs!Next
  BY SameRelayKeeps, SamePublication DEF RelayKeeps, RelayPublishes, RelayProofs!Next
<1>3. /\ Outbox!OnceInv'
      /\ mishaps' = 0 => mishaps = 0
      /\ ~overran' => ~overran
  BY <1>1, <1>2, OnceStepKeeps
<1>4. CASE UNCHANGED <<processorVars, queueVars>>
  <2>1. LoneInv'
    BY <1>1, <1>3, <1>4, LoneIdle DEF processorVars, queueVars, history
  <2>2. OneMessageEach'
    BY <1>1, <1>3, <1>4 DEF queueVars, OneMessageEach
  <2> QED
    BY <1>3, <2>1, <2>2 DEF QuietInv
<1>5. ASSUME NEW p \in relay[r].todo, Arrive(p),
             Outbox!Accepted(r, p) \/ Outbox!AnswerLost(r, p)
      PROVE  QuietInv'
  <2>1. p \in Payments
    BY <1>1 DEF Outbox!RelayInv, Outbox!TypeOK, Outbox!Relay
  <2>2. LoneInv'
    BY <1>1, <1>3, <1>5, <2>1, LoneArrives DEF Consumers
  <2>3. OneMessageEach'
    BY <1>3, <1>5, PublishesFirst DEF OneMessageEach
  <2> QED
    BY <1>3, <2>2, <2>3 DEF QuietInv
<1> QED
  BY <1>4, <1>5 DEF RelayKeeps, RelayPublishes, DeliveredToQueue

LEMMA NextQuiet ==
  ASSUME PipelineInv, QuietInv, [PipelineNext]_pipelineVars
  PROVE  QuietInv'
<1>1. Outbox!RelayInv /\ Outbox!OnceInv /\ LoneInv /\ OneMessageEach /\ Consumers
  BY PipelineParts DEF QuietInv
<1>2. ASSUME RequestStep \/ UNCHANGED pipelineVars
      PROVE  QuietInv'
  <2>1. UNCHANGED consumerVars
    BY <1>2 DEF RequestStep, pipelineVars
  <2>2. mishaps' = mishaps /\ duplicated' = duplicated
    BY <2>1 DEF consumerVars, brokerVars
  <2>3. LoneInv'
    BY <1>1, <2>1, LoneNextKeeps DEF Consumers
  <2>4. Outbox!OnceInv' /\ (~overran' => ~overran)
    <3>1. CASE UNCHANGED outboxVars
      BY <1>1, <2>2, <3>1, OnceIdle DEF outboxVars
    <3>2. ASSUME NEW p \in Payments, Outbox!Create(p)
          PROVE  Outbox!OnceInv' /\ (~overran' => ~overran)
      <4>1. RelayProofs!Next
        BY <3>2, SameCreate DEF RelayProofs!Next
      <4> QED
        BY <1>1, <4>1, OnceStepKeeps
    <3> QED
      BY <1>2, <3>1, <3>2 DEF RequestStep, Written, pipelineVars
  <2> QED
    BY <1>1, <2>2, <2>3, <2>4 DEF QuietInv, OneMessageEach
<1>3. CASE Alone(Consume)
  <2>1. Consume /\ UNCHANGED outboxVars
    BY <1>3 DEF Alone
  <2>2. LoneInv'
    BY <1>1, <2>1, LoneNextKeeps DEF Consumers, ConsumerNext
  <2>3. mishaps' = 0 => mishaps = 0
    BY <1>1, <2>1, MishapsCounted DEF Consumers, ConsumerInv
  <2>4. Outbox!OnceInv'
    BY <1>1, <2>1, <2>3, OnceIdle
  <2>5. OneMessageEach'
    BY <1>1, <2>1, <2>3, NoSecondMessage DEF OneMessageEach, Consumers, outboxVars
  <2> QED
    BY <2>2, <2>4, <2>5 DEF QuietInv
<1>4. CASE TimePasses
  <2>1. Elapse /\ RelayProofs!Next
    BY <1>4, SameTick DEF TimePasses, RelayProofs!Next
  <2>2. LoneInv'
    BY <1>1, <2>1, LoneNextKeeps DEF Consumers, ConsumerNext
  <2>3. /\ Outbox!OnceInv'
        /\ mishaps' = 0 => mishaps = 0
        /\ ~overran' => ~overran
    BY <1>1, <2>1, OnceStepKeeps
  <2>4. OneMessageEach'
    BY <1>1, <2>1, <2>3 DEF OneMessageEach, Elapse
  <2> QED
    BY <2>2, <2>3, <2>4 DEF QuietInv
<1> QED
  BY <1>2, <1>3, <1>4, RelayQuiet DEF PipelineNext

LEMMA QuietInitially == PipelineInit => QuietInv
<1> SUFFICES ASSUME PipelineInit PROVE QuietInv
  OBVIOUS
<1>1. Outbox!OnceInv
  BY DEF PipelineInit, Outbox!Init, Outbox!Down, Outbox!OnceInv, Outbox!SentOnce
<1>2. LoneInv /\ OneMessageEach
  BY LoneInitially DEF PipelineInit, ConsumerInit, OneMessageEach
<1> QED
  BY <1>1, <1>2 DEF QuietInv

(* Without a mishap and an overrun batch every event reaches the queue at  *)
(* most once; and in any case a payment with one message has one call.     *)
THEOREM QuietInvariant == PipelineSpec => []QuietInv
<1>1. PipelineInv /\ QuietInv /\ [PipelineNext]_pipelineVars => QuietInv'
  BY NextQuiet
<1> QED
  BY <1>1, QuietInitially, PipelineInvariant, PTL DEF PipelineSpec

(* Only a mishap or a batch that outlived outbox_lock_ttl_seconds gives a  *)
(* payment a second message (_publish_once, _handle_retryable_error).      *)
THEOREM MessagesCounted == PipelineSpec => []OneMessageEach
<1>1. QuietInv => OneMessageEach
  BY DEF QuietInv
<1> QED
  BY <1>1, QuietInvariant, PTL

(* The merchant of the whole service hears only the status the payment     *)
(* has, and a recorded delivery carries no error, unless the payment ever  *)
(* had a second message (processor.py:70-92, update_webhook_result).       *)
THEOREM ServiceTellsTruth ==
  PipelineSpec => [](TruthUnlessDuplicated /\ ErrorMeansUndelivered)
<1>1. QuietInv => TruthUnlessDuplicated /\ ErrorMeansUndelivered
  BY DEF QuietInv, LoneInv
<1> QED
  BY <1>1, QuietInvariant, PTL

(* What double_charge, untrue_webhook, duplicate_delivery and              *)
(* relay_concurrent show has no cause but those: in a service without a    *)
(* mishap and an overrun batch every webhook tells the payment's status,   *)
(* none is sent again, the gateway charges no payment twice whose          *)
(* transactions all succeeded, and no two relays hold an event, for which  *)
(* that no batch overran is enough.                                        *)
THEOREM FaultsHaveCause ==
  PipelineSpec =>
    [](/\ mishaps = 0 /\ ~overran =>
            /\ WebhookTellsRow
            /\ NoDuplicateDelivery
            /\ dbFailed = {} => AtMostOneCharge
       /\ ~overran => Outbox!NoConcurrentPublish)
<1>1. ASSUME QuietInv, mishaps = 0, ~overran
      PROVE  /\ WebhookTellsRow
             /\ NoDuplicateDelivery
             /\ dbFailed = {} => AtMostOneCharge
  <2>1. LoneInv /\ duplicated = {}
    BY <1>1 DEF QuietInv, OneMessageEach
  <2>2. WebhookTellsRow
    BY <2>1 DEF LoneInv, TruthUnlessDuplicated, WebhookTellsRow
  <2>3. NoDuplicateDelivery
    BY <2>1 DEF LoneInv, LoneCallOK, InLease, NoDuplicateDelivery
  <2>4. ASSUME dbFailed = {}, NEW p \in Payments
        PROVE  charges[p] < 2
    <3>1. charges[p] = IF Charged(p) THEN 1 ELSE 0
      BY <1>1, <2>1, <2>4 DEF LoneInv
    <3> QED
      BY <3>1
  <2> QED
    BY <2>2, <2>3, <2>4 DEF AtMostOneCharge
<1>2. ASSUME PipelineInv, ~overran
      PROVE  Outbox!NoConcurrentPublish
  BY <1>2 DEF PipelineInv, Outbox!RelayInv, Outbox!ClaimExclusion,
              Outbox!NoConcurrentPublish
<1>3. QuietInv /\ PipelineInv =>
        /\ mishaps = 0 /\ ~overran =>
             /\ WebhookTellsRow
             /\ NoDuplicateDelivery
             /\ dbFailed = {} => AtMostOneCharge
        /\ ~overran => Outbox!NoConcurrentPublish
  BY <1>1, <1>2
<1> QED
  BY <1>3, QuietInvariant, PipelineInvariant, PTL

-----------------------------------------------------------------------------
(* A step of a relay is a mishap, or none. *)
LEMMA RelayMishaps ==
  ASSUME NEW r \in Relays, RelayKeeps(r) \/ RelayPublishes(r)
  PROVE  mishaps' = mishaps \/ mishaps' = mishaps + 1
BY DEF RelayKeeps, RelayPublishes, Outbox!Keep, Outbox!Start, Outbox!Setup, Outbox!Stop,
       Outbox!Exit, Outbox!Poll, Outbox!Record, Outbox!DbError, Outbox!Crash,
       Outbox!Accepted, Outbox!AnswerLost, Outbox!Refused, Outbox!Publication,
       Outbox!Mishap

LEMMA NextPatient ==
  ASSUME PipelineInv, QuietInv, PatienceInv, [PipelineNext]_pipelineVars
  PROVE  PatienceInv'
<1>1. ConsumerInv /\ OnlyPublishedHandled /\ LoneInv /\ Outbox!RelayInv
  BY DEF PipelineInv, QuietInv
<1>2. CASE RequestStep \/ UNCHANGED pipelineVars
  <2>1. UNCHANGED consumerVars
    BY <1>2 DEF RequestStep, pipelineVars
  <2> QED
    BY <1>1, <2>1, PatienceNextKeeps
<1>3. ASSUME NEW r \in Relays, RelayKeeps(r) \/ RelayPublishes(r)
      PROVE  PatienceInv'
  <2>1. mishaps' = mishaps \/ mishaps' = mishaps + 1
    BY <1>3, RelayMishaps
  <2>2. \/ UNCHANGED <<processorVars, queueVars>>
        \/ \E p \in relay[r].todo : Arrive(p)
    BY <1>3 DEF RelayKeeps, RelayPublishes, DeliveredToQueue
  <2>3. relay[r].todo \subseteq Payments
    BY <1>1 DEF Outbox!RelayInv, Outbox!TypeOK, Outbox!Relay
  <2>4. CASE UNCHANGED <<processorVars, queueVars>>
    BY <1>1, <2>1, <2>4, PatienceIdle DEF processorVars, queueVars, history
  <2> QED
    BY <1>1, <2>1, <2>2, <2>3, <2>4, PatienceArrives
<1>4. CASE Alone(Consume)
  BY <1>1, <1>4, PatienceConsume DEF Alone
<1>5. CASE TimePasses
  BY <1>1, <1>5, PatienceElapses DEF TimePasses
<1> QED
  BY <1>2, <1>3, <1>4, <1>5 DEF PipelineNext

(* In the whole service, too, every failure that no webhook, transaction   *)
(* or second message accounts for has a mishap of its own.                 *)
THEOREM ServicePatience == PipelineSpec => []PatienceInv
<1>1. PipelineInit => PatienceInv
  BY PatienceInitially DEF PipelineInit
<1>2. PipelineInv /\ QuietInv /\ PatienceInv /\ [PipelineNext]_pipelineVars => PatienceInv'
  BY NextPatient
<1> QED
  BY <1>1, <1>2, QuietInvariant, PipelineInvariant, PTL DEF PipelineSpec

(* So a dead letter has a cause: without a mishap and an overrun batch     *)
(* nothing is dead-lettered that could be delivered, and with delays that  *)
(* outlast the lock, as the deployed ones do, it takes more mishaps than   *)
(* consumer_retry_attempts, or a second message.                           *)
THEOREM ServiceDeadLettersExplained ==
  PipelineSpec =>
    [](/\ mishaps = 0 /\ ~overran => DeadLetterHasCause
       /\ DelaysOutlastLock /\ mishaps <= MaxRetries
            => dlq \subseteq refused \cup dbFailed \cup duplicated)
<1>1. PipelineInv /\ QuietInv /\ PatienceInv =>
        /\ mishaps = 0 /\ ~overran => DeadLetterHasCause
        /\ DelaysOutlastLock /\ mishaps <= MaxRetries
             => dlq \subseteq refused \cup dbFailed \cup duplicated
  BY ConsumerAssumption
  DEF PipelineInv, QuietInv, OneMessageEach, ConsumerInv, ConsumerTypeOK, PatienceInv,
      Blameless, DeadLetterHasCause
<1> QED
  BY <1>1, ServicePatience, QuietInvariant, PipelineInvariant, PTL
=============================================================================
