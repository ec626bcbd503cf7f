----------------------- MODULE PaymentConsumer_proofs -----------------------
(***************************************************************************)
(* The consumer only ever uses process() as PaymentProcessor allows, so    *)
(* what is proved of the one holds of the other; and no published payment  *)
(* is lost, for every number of workers, messages, retries and mishaps.    *)
(***************************************************************************)
EXTENDS PaymentConsumer, PaymentProcessor_proofs

(* A step of the consumer is a step of the processor, or none. *)
LEMMA ProcessorStep ==
  ASSUME ConsumerInv, [ConsumerNext]_consumerVars
  PROVE  [Next]_processorVars
<1>1. ASSUME NEW w \in Workers, NEW c \in Copies, Take(w, c)
      PROVE  Next
  <2>1. PICK p \in Payments : p = message[c].pay
    BY <1>1 DEF Take, ConsumerInv, ConsumerTypeOK, Message
  <2>2. Begin(w, p)
    BY <1>1, <2>1 DEF Take, Begin
  <2> QED
    BY <2>2 DEF Next
<1>2. ASSUME NEW w \in Workers, Ack(w) \/ Dispose(w) \/ DisposeFails(w) \/ Process(w) \/ Die(w)
      PROVE  Next
  BY <1>2 DEF Ack, Dispose, DisposeFails, Process, Die, Next
<1>3. ASSUME NEW w \in Workers, Settle(w) \/ Drop(w)
      PROVE  UNCHANGED processorVars
  BY <1>3 DEF Settle, Drop
<1>4. ASSUME NEW c \in Copies, SetupFails(c) \/ Requeue(c) \/ Expire(c)
      PROVE  UNCHANGED processorVars
  BY <1>4 DEF SetupFails, Requeue, Expire
<1>5. ASSUME NEW p \in Payments, RelayPublish(p)
      PROVE  UNCHANGED processorVars
  BY <1>5 DEF RelayPublish, Arrive
<1>6. CASE Elapse
  BY <1>6 DEF Elapse, Next
<1>7. CASE UNCHANGED consumerVars
  BY <1>7 DEF consumerVars
<1> QED
  BY <1>1, <1>2, <1>3, <1>4, <1>5, <1>6, <1>7 DEF ConsumerNext, Consume

-----------------------------------------------------------------------------
(* The parts of the invariant that are the consumer's own. *)
Paid == \A c \in Copies : message[c].at # "free" => message[c].pay # None
Jobs == \A w \in Workers : JobOK(w)
OneOwner == \A v, w \in Workers : v # w /\ Owns(v) => job[v].copy # job[w].copy
Rest == Paid /\ Jobs /\ OneOwner /\ NothingLost

LEMMA InvParts == ConsumerInv <=> ProcessorInv /\ ConsumerTypeOK /\ Rest
BY DEF ConsumerInv, Rest, Paid, Jobs, OneOwner

LEMMA Deliveries ==
  ASSUME ConsumerInv, NEW w \in Workers
  PROVE  /\ job[w] \in Job /\ JobOK(w)
         /\ Owns(w) => job[w].copy \in Copies /\ message[job[w].copy] \in Message
BY DEF ConsumerInv, ConsumerTypeOK, Job, Owns

(* A worker whose task, job and delivery are as they were. *)
LEMMA JobKept ==
  ASSUME ConsumerInv, NEW v \in Workers,
         job'[v] = job[v], task'[v].pc = task[v].pc, task'[v].pay = task[v].pay,
         Owns(v) => /\ message'[job[v].copy].at = message[job[v].copy].at
                    /\ message'[job[v].copy].pay = message[job[v].copy].pay
  PROVE  JobOK(v)'
<1>1. JobOK(v)
  BY DEF ConsumerInv
<1> QED
  BY <1>1 DEF JobOK, Owns, Pay

(* What a processor step does not forget. *)
LEMMA DeliveredKept ==
  ASSUME ProcessorInv, [Next]_processorVars, NEW p \in Payments,
         payment[p].delivered
  PROVE  payment'[p].delivered
<1>1. AbstractStep
  BY NextAbstract
<1> QED
  BY <1>1 DEF AbstractStep, Lifecycle!Next, Lifecycle!vars, Lifecycle!Settle,
              Lifecycle!Accept, Lifecycle!Tell, Lifecycle!Confirm

(* A payment is not lost by a step that keeps its messages, or leaves      *)
(* another trace of it.                                                    *)
Safe(p) ==
  \/ payment[p].delivered
  \/ p \in dlq
  \/ \E c \in Live(p) : Pending(c)

LEMMA StillSafe ==
  ASSUME ConsumerInv, [Next]_processorVars, NEW p \in published,
         dlq \subseteq dlq',
         \/ Safe(p)'
         \/ \A c \in Copies : message[c].at # "free" /\ message[c].pay = p /\ Pending(c)
              => message'[c].at # "free" /\ message'[c].pay = p /\ Pending(c)'
  PROVE  Safe(p)'
<1>1. p \in Payments /\ ProcessorInv /\ Safe(p)
  BY DEF ConsumerInv, ConsumerTypeOK, NothingLost, Safe
<1>2. CASE payment[p].delivered
  BY <1>1, <1>2, DeliveredKept DEF Safe
<1>3. CASE p \in dlq
  BY <1>3 DEF Safe
<1>4. CASE \E c \in Live(p) : Pending(c)
  BY <1>4 DEF Safe, Live
<1> QED
  BY <1>1, <1>2, <1>3, <1>4 DEF Safe

LEMMA ArriveKeeps ==
  ASSUME ConsumerInv, NEW p \in Payments, Arrive(p), [Next]_processorVars,
         mishaps' \in 0..MaxMishaps
  PROVE  ConsumerTypeOK' /\ Rest'
<1>1. PICK c \in Copies : /\ message[c].at = "free"
                          /\ message' = [message EXCEPT ![c] = InQueue(p)]
  BY DEF Arrive
<1>2. /\ message'[c] = InQueue(p) /\ InQueue(p) \in Message
      /\ message' \in [Copies -> Message]
      /\ \A d \in Copies : d # c => message'[d] = message[d]
  BY <1>1 DEF ConsumerInv, ConsumerTypeOK, InQueue, Message
<1>3. job' = job /\ task' = task /\ payment' = payment /\ dlq' = dlq
  BY DEF Arrive, processorVars
<1>4. ConsumerTypeOK'
  <2>1. TypeOK'
    BY DEF Arrive, processorVars, ConsumerInv, ConsumerTypeOK, TypeOK
  <2> QED
    BY <1>2, <1>3, <2>1 DEF Arrive, ConsumerInv, ConsumerTypeOK
<1>5. Paid'
  BY <1>2, ProcessorAssumption DEF Paid, ConsumerInv, InQueue
<1>6. ASSUME NEW v \in Workers
      PROVE  JobOK(v)' /\ job[v].copy # c
  <2>1. job[v].copy # c
    BY <1>1, Deliveries, ConsumerAssumption DEF JobOK, Owns
  <2>2. Owns(v) => message'[job[v].copy] = message[job[v].copy]
    BY <1>2, <2>1, Deliveries
  <2> QED
    BY <1>3, <2>1, <2>2, JobKept
<1>7. OneOwner'
  BY <1>3 DEF OneOwner, ConsumerInv, Owns
<1>8. ASSUME NEW q \in published'
      PROVE  Safe(q)'
  <2>1. CASE q = p
    <3>1. c \in Live(p)' /\ Pending(c)'
      BY <1>2, <1>3, <1>6 DEF Live, Pending, InQueue
    <3> QED
      BY <2>1, <3>1 DEF Safe
  <2>2. CASE q # p
    <3>1. q \in published
      BY <2>2 DEF Arrive
    <3>2. \A d \in Copies : Pending(d) /\ message[d].pay = q =>
            message'[d] = message[d] /\ Pending(d)'
      BY <1>1, <1>2, <1>3 DEF Pending
    <3> QED
      BY <1>3, <3>1, <3>2, StillSafe DEF Pending
  <2> QED
    BY <2>1, <2>2
<1> QED
  BY <1>4, <1>5, <1>6, <1>7, <1>8 DEF Rest, Jobs, NothingLost, Safe

-----------------------------------------------------------------------------
(* What the processor's part of a step does to the tasks.                  *)

LEMMA RelayPublishKeeps ==
  ASSUME ConsumerInv, NEW p \in Payments, RelayPublish(p), [Next]_processorVars
  PROVE  ConsumerTypeOK' /\ Rest'
<1>1. mishaps' \in 0..MaxMishaps
  BY ConsumerAssumption DEF RelayPublish, Mishap, ConsumerInv, ConsumerTypeOK
<1> QED
  BY <1>1, ArriveKeeps DEF RelayPublish

LEMMA StepStays ==
  ASSUME ProcessorInv, NEW w \in Workers, Step(w)
  PROVE  /\ task[w].pc # "idle" /\ task'[w].pc # "idle"
         /\ task'[w].pay = task[w].pay
         /\ \A v \in Workers : v # w => task'[v] = task[v]
<1>0. task \in [Workers -> Task] /\ task[w] \in Task
  BY DEF ProcessorInv, TypeOK
<1> USE <1>0 DEF Task, At, End, Goto, Abandon, Pay
<1>1. CASE Load(w)
  BY <1>1 DEF Load
<1>2. CASE Gateway(w)
  BY <1>2 DEF Gateway
<1>3. CASE Mark(w)
  BY <1>3 DEF Mark
<1>4. CASE Acquire(w)
  BY <1>4 DEF Acquire
<1>5. CASE Recheck(w)
  BY <1>5 DEF Recheck
<1>6. CASE PostAccepted(w)
  BY <1>6 DEF PostAccepted
<1>7. CASE Retry(w)
  BY <1>7 DEF Retry, PostRaised
<1>8. CASE SendFails(w) \/ SendBreaks(w)
  BY <1>8 DEF SendFails, SendBreaks, PostRaised
<1>9. CASE RecordDelivered(w) \/ RecordFails(w)
  BY <1>9 DEF RecordDelivered, RecordFails
<1>10. CASE GiveUp(w) \/ CleanUp(w) \/ DbError(w)
  BY <1>10 DEF GiveUp, CleanUp, DbError
<1> QED
  BY <1>1, <1>2, <1>3, <1>4, <1>5, <1>6, <1>7, <1>8, <1>9, <1>10 DEF Step

LEMMA IdleAfter ==
  ASSUME ProcessorInv, NEW w \in Workers, Finish(w) \/ Crash(w)
  PROVE  /\ task'[w].pc = "idle"
         /\ \A v \in Workers : v # w => task'[v] = task[v]
         /\ payment' = payment
BY DEF Finish, Crash, Idle, At, ProcessorInv, TypeOK

(* A step in which at most worker w's job and delivery change is in order  *)
(* when they are, and no payment is lost.                                  *)
LEMMA OneJobStep ==
  ASSUME ConsumerInv, [Next]_processorVars, NEW w \in Workers,
         message' \in [Copies -> Message],
         job' \in [Workers -> Job],
         dlq' \subseteq Payments, duplicated' \subseteq Payments,
         mishaps' \in 0..MaxMishaps, published' = published,
         \A v \in Workers : v # w => job'[v] = job[v] /\ task'[v] = task[v],
         \A v \in Workers : v # w /\ Owns(v)
           => message'[job[v].copy] = message[job[v].copy] /\ job'[w].copy # job[v].copy,
         JobOK(w)', Paid',
         \A q \in published : Safe(q)'
  PROVE  ConsumerTypeOK' /\ Rest'
<1>1. ConsumerTypeOK'
  BY NextKeeps DEF ProcessorInv, ConsumerInv, ConsumerTypeOK
<1>2. ASSUME NEW v \in Workers
      PROVE  JobOK(v)'
  BY JobKept
<1>3. ASSUME NEW v \in Workers, NEW u \in Workers, v # u, Owns(v)'
      PROVE  job'[v].copy # job'[u].copy
  BY <1>3 DEF ConsumerInv, Owns
<1> QED
  BY <1>1, <1>2, <1>3 DEF Rest, Jobs, OneOwner, NothingLost, Safe

(* A step in which only the broker, or the time, moves, or a delivery is   *)
(* not taken up.                                                           *)
LEMMA BrokerStep ==
  ASSUME ConsumerInv, [Next]_processorVars,
         message' \in [Copies -> Message],
         UNCHANGED <<job, dlq, published, duplicated>>, mishaps' \in 0..MaxMishaps,
         \A v \in Workers : task'[v].pc = task[v].pc /\ task'[v].pay = task[v].pay,
         \A v \in Workers : Owns(v) => message'[job[v].copy].at = message[job[v].copy].at,
         \A c \in Copies : /\ message'[c].pay = message[c].pay
                           /\ message'[c].at = "free" <=> message[c].at = "free"
  PROVE  ConsumerTypeOK' /\ Rest'
<1>1. ConsumerTypeOK'
  BY NextKeeps DEF ProcessorInv, ConsumerInv, ConsumerTypeOK
<1>2. ASSUME NEW v \in Workers
      PROVE  JobOK(v)'
  <2>1. Owns(v) => message'[job[v].copy].pay = message[job[v].copy].pay
    BY Deliveries
  <2> QED
    BY <2>1, JobKept
<1>3. Paid' /\ OneOwner'
  BY DEF ConsumerInv, Paid, OneOwner, Owns
<1>4. ASSUME NEW q \in published
      PROVE  Safe(q)'
  BY StillSafe DEF Pending
<1> QED
  BY <1>1, <1>2, <1>3, <1>4 DEF Rest, Jobs, NothingLost, Safe

LEMMA SetupFailsKeeps ==
  ASSUME ConsumerInv, NEW c \in Copies, SetupFails(c), [Next]_processorVars
  PROVE  ConsumerTypeOK' /\ Rest'
<1>1. /\ message' \in [Copies -> Message]
      /\ message'[c].at = "unacked" /\ message'[c].pay = message[c].pay
      /\ \A d \in Copies : d # c => message'[d] = message[d]
  BY DEF SetupFails, ConsumerInv, ConsumerTypeOK, Message
<1>2. \A w \in Workers : Owns(w) => job[w].copy # c
  BY Deliveries DEF SetupFails, JobOK
<1>3. \A v \in Workers : Owns(v) => message'[job[v].copy].at = message[job[v].copy].at
  BY <1>1, <1>2, Deliveries
<1>4. mishaps' \in 0..MaxMishaps
  BY ConsumerAssumption DEF SetupFails, Mishap, ConsumerInv, ConsumerTypeOK
<1> QED
  BY <1>1, <1>3, <1>4, BrokerStep DEF SetupFails, processorVars

LEMMA RequeueKeeps ==
  ASSUME ConsumerInv, NEW c \in Copies, Requeue(c), [Next]_processorVars
  PROVE  ConsumerTypeOK' /\ Rest'
<1>1. /\ message' \in [Copies -> Message]
      /\ message'[c].at = "queue" /\ message'[c].pay = message[c].pay
      /\ \A d \in Copies : d # c => message'[d] = message[d]
  BY DEF Requeue, ConsumerInv, ConsumerTypeOK, Message
<1>2. message[c].at = "unacked" /\ \A w \in Workers : job[w].copy # c
  BY DEF Requeue, Orphan
<1>3. \A v \in Workers : Owns(v) => message'[job[v].copy].at = message[job[v].copy].at
  BY <1>1, <1>2, Deliveries
<1>4. mishaps' \in 0..MaxMishaps
  BY DEF Requeue, ConsumerInv, ConsumerTypeOK
<1> QED
  BY <1>1, <1>2, <1>3, <1>4, BrokerStep DEF Requeue, processorVars

LEMMA ExpireKeeps ==
  ASSUME ConsumerInv, NEW c \in Copies, Expire(c), [Next]_processorVars
  PROVE  ConsumerTypeOK' /\ Rest'
<1>1. /\ message' \in [Copies -> Message]
      /\ message'[c].at = "queue" /\ message'[c].pay = message[c].pay
      /\ \A d \in Copies : d # c => message'[d] = message[d]
  BY DEF Expire, ConsumerInv, ConsumerTypeOK, Message
<1>2. \A w \in Workers : Owns(w) => job[w].copy # c
  BY Deliveries DEF Expire, JobOK
<1>3. \A v \in Workers : Owns(v) => message'[job[v].copy].at = message[job[v].copy].at
  BY <1>1, <1>2, Deliveries
<1>4. mishaps' \in 0..MaxMishaps
  BY DEF Expire, ConsumerInv, ConsumerTypeOK
<1> QED
  BY <1>1, <1>3, <1>4, BrokerStep DEF Expire, processorVars

LEMMA ElapseKeeps ==
  ASSUME ConsumerInv, Elapse, [Next]_processorVars
  PROVE  ConsumerTypeOK' /\ Rest'
<1>1. ASSUME NEW c \in Copies
      PROVE  /\ message'[c] \in Message
             /\ message'[c].pay = message[c].pay /\ message'[c].at = message[c].at
  <2>1. message[c] \in Message
    BY DEF ConsumerInv, ConsumerTypeOK
  <2>2. CASE message[c].wait = 0
    BY <2>1, <2>2 DEF Elapse
  <2>3. CASE message[c].wait # 0
    <3>1. message'[c] = [message[c] EXCEPT !.wait = message[c].wait - 1]
      BY <2>3 DEF Elapse
    <3>2. message[c].wait - 1 \in Nat
      BY <2>1, <2>3 DEF Message
    <3> QED
      BY <2>1, <3>1, <3>2 DEF Message
  <2> QED
    BY <2>2, <2>3
<1>2. message' \in [Copies -> Message]
  BY <1>1 DEF Elapse
<1>3. \A v \in Workers : task'[v].pc = task[v].pc /\ task'[v].pay = task[v].pay
  BY DEF Elapse, Tick, ConsumerInv, ProcessorInv, TypeOK, Task
<1>4. \A v \in Workers : Owns(v) => message'[job[v].copy].at = message[job[v].copy].at
  BY <1>1, Deliveries
<1>5. mishaps' \in 0..MaxMishaps
  BY DEF Elapse, ConsumerInv, ConsumerTypeOK
<1> QED
  BY <1>1, <1>2, <1>3, <1>4, <1>5, BrokerStep DEF Elapse

-----------------------------------------------------------------------------
LEMMA TakeKeeps ==
  ASSUME ConsumerInv, NEW w \in Workers, NEW c \in Copies, Take(w, c),
         [Next]_processorVars
  PROVE  ConsumerTypeOK' /\ Rest'
<1>1. message[c] \in Message /\ message[c].at = "queue" /\ message[c].pay # None
  BY DEF Take, ConsumerInv, ConsumerTypeOK
<1>2. /\ message' \in [Copies -> Message]
      /\ message'[c].at = "unacked" /\ message'[c].pay = message[c].pay
      /\ \A d \in Copies : d # c => message'[d] = message[d]
  BY DEF Take, ConsumerInv, ConsumerTypeOK, Message
<1>3. /\ job' \in [Workers -> Job]
      /\ job'[w] = [stage |-> "handle", copy |-> c, retry |-> message[c].retry]
      /\ \A v \in Workers : v # w => job'[v] = job[v]
  BY <1>1 DEF Take, ConsumerInv, ConsumerTypeOK, Job, Message
<1>4. /\ task'[w].pc = "load" /\ task'[w].pay = message[c].pay
      /\ \A v \in Workers : v # w => task'[v] = task[v]
  BY DEF Take, Begin, At, ConsumerInv, ProcessorInv, TypeOK
<1>5. \A v \in Workers : Owns(v) => job[v].copy # c
  BY <1>1, Deliveries DEF JobOK
<1>6. JobOK(w)'
  BY <1>2, <1>3, <1>4, ConsumerAssumption DEF JobOK, Owns, Pay
<1>7. Paid'
  BY <1>1, <1>2 DEF Paid, ConsumerInv
<1>8. ASSUME NEW q \in published
      PROVE  Safe(q)'
  <2>1. dlq' = dlq
    BY DEF Take
  <2>2. \A d \in Copies : message[d].at # "free" /\ Pending(d) =>
          message'[d].at # "free" /\ message'[d].pay = message[d].pay /\ Pending(d)'
    BY <1>2, <1>3 DEF Pending
  <2> QED
    BY <2>1, <2>2, StillSafe
<1>9. \A v \in Workers : v # w /\ Owns(v)
        => message'[job[v].copy] = message[job[v].copy] /\ job'[w].copy # job[v].copy
  BY <1>2, <1>3, <1>5, Deliveries
<1> QED
  BY <1>2, <1>3, <1>4, <1>6, <1>7, <1>8, <1>9, OneJobStep
  DEF Take, ConsumerInv, ConsumerTypeOK

LEMMA ProcessKeeps ==
  ASSUME ConsumerInv, NEW w \in Workers, Process(w), [Next]_processorVars
  PROVE  ConsumerTypeOK' /\ Rest'
<1>1. \A v \in Workers : /\ task[v].pc = "idle" <=> task'[v].pc = "idle"
                         /\ task'[v].pay = task[v].pay
  BY StepStays DEF Process, ConsumerInv
<1>2. UNCHANGED brokerVars
  BY DEF Process
<1>3. ConsumerTypeOK'
  BY <1>2, NextKeeps DEF brokerVars, ProcessorInv, ConsumerInv, ConsumerTypeOK
<1>4. Jobs'
  BY <1>1, <1>2 DEF Jobs, JobOK, Owns, Pay, brokerVars, ConsumerInv
<1>5. Paid' /\ OneOwner'
  BY <1>2 DEF Paid, OneOwner, Owns, brokerVars, ConsumerInv
<1>6. ASSUME NEW q \in published
      PROVE  Safe(q)'
  BY <1>2, StillSafe DEF brokerVars, Pending
<1> QED
  BY <1>2, <1>3, <1>4, <1>5, <1>6 DEF brokerVars, Rest, NothingLost, Safe

(* What Settled(w, at) does to the messages. *)
LEMMA SettledMessages ==
  ASSUME ConsumerInv, NEW w \in Workers, NEW at \in {"free", "queue"}, Settled(w, at)
  PROVE  /\ message' \in [Copies -> Message]
         /\ \A d \in Copies : d # job[w].copy => message'[d] = message[d]
         /\ Owns(w) => /\ message'[job[w].copy].at = at
                       /\ at = "queue" => message'[job[w].copy].pay = message[job[w].copy].pay
         /\ Paid'
<1>1. message \in [Copies -> Message] /\ NoMessage \in Message
  BY DEF ConsumerInv, ConsumerTypeOK, NoMessage, Message
<1>2. Paid
  BY DEF Paid, ConsumerInv
<1>3. CASE ~Owns(w)
  BY <1>1, <1>2, <1>3 DEF Settled, Paid
<1>4. CASE Owns(w) /\ at = "free"
  <2>1. message' = [message EXCEPT ![job[w].copy] = NoMessage] /\ job[w].copy \in Copies
    BY <1>4, Deliveries DEF Settled
  <2> QED
    BY <1>1, <1>2, <1>4, <2>1 DEF NoMessage, Paid
<1>5. CASE Owns(w) /\ at = "queue"
  <2>1. /\ message' = [message EXCEPT ![job[w].copy].at = "queue"]
        /\ job[w].copy \in Copies /\ message[job[w].copy].at = "unacked"
    BY <1>5, Deliveries DEF Settled, JobOK
  <2> QED
    BY <1>1, <1>2, <1>5, <2>1 DEF Message, Paid
<1> QED
  BY <1>3, <1>4, <1>5

(* Other workers' deliveries are not in the way of w's. *)
LEMMA OthersDeliveries ==
  ASSUME ConsumerInv, NEW w \in Workers, NEW v \in Workers, v # w, Owns(v)
  PROVE  job[v].copy # job[w].copy /\ job[v].copy # None /\ job[v].copy \in Copies
BY Deliveries DEF ConsumerInv, Owns

LEMMA AckKeeps ==
  ASSUME ConsumerInv, NEW w \in Workers, Ack(w), [Next]_processorVars
  PROVE  ConsumerTypeOK' /\ Rest'
<1>1. /\ message' \in [Copies -> Message] /\ Paid'
      /\ \A d \in Copies : d # job[w].copy => message'[d] = message[d]
  BY SettledMessages DEF Ack
<1>2. /\ job' \in [Workers -> Job] /\ job'[w] = NoJob
      /\ \A v \in Workers : v # w => job'[v] = job[v]
  BY DEF Ack, ConsumerInv, ConsumerTypeOK, Job, NoJob
<1>3. /\ task'[w].pc = "idle" /\ payment' = payment
      /\ \A v \in Workers : v # w => task'[v] = task[v]
  BY IdleAfter DEF Ack, ConsumerInv
<1>4. JobOK(w)'
  BY <1>2, <1>3 DEF JobOK, Owns, NoJob
<1>5. payment[Pay(w)].delivered /\ message[job[w].copy].pay = Pay(w)
  BY Deliveries DEF Ack, ConsumerInv, ProcessorInv, DoneMeansDelivered, RowOf, JobOK
<1>6. ASSUME NEW q \in published
      PROVE  Safe(q)'
  <2>1. CASE q = Pay(w)
    BY <1>3, <1>5, <2>1 DEF Safe
  <2>2. CASE q # Pay(w)
    <3>1. dlq' = dlq
      BY DEF Ack
    <3>2. \A d \in Copies : message[d].pay = q => d # job[w].copy
      BY <1>5, <2>2
    <3>3. \A d \in Copies : Pending(d) /\ message[d].pay = q =>
            message'[d] = message[d] /\ Pending(d)'
      BY <1>1, <1>2, <3>2 DEF Pending, NoJob
    <3> QED
      BY <3>1, <3>3, StillSafe DEF Pending
  <2> QED
    BY <2>1, <2>2
<1>7. \A v \in Workers : v # w /\ Owns(v)
        => message'[job[v].copy] = message[job[v].copy] /\ job'[w].copy # job[v].copy
  BY <1>1, <1>2, OthersDeliveries DEF NoJob
<1> QED
  BY <1>1, <1>2, <1>3, <1>4, <1>6, <1>7, OneJobStep
  DEF Ack, ConsumerInv, ConsumerTypeOK

LEMMA SettleKeeps ==
  ASSUME ConsumerInv, NEW w \in Workers, Settle(w), [Next]_processorVars
  PROVE  ConsumerTypeOK' /\ Rest'
<1>1. /\ message' \in [Copies -> Message] /\ Paid'
      /\ \A d \in Copies : d # job[w].copy => message'[d] = message[d]
  BY SettledMessages DEF Settle
<1>2. /\ job' \in [Workers -> Job] /\ job'[w] = NoJob
      /\ \A v \in Workers : v # w => job'[v] = job[v]
  BY DEF Settle, ConsumerInv, ConsumerTypeOK, Job, NoJob
<1>3. task' = task /\ dlq' = dlq
  BY DEF Settle, processorVars
<1>4. JobOK(w)'
  BY <1>2, <1>3, Deliveries DEF Settle, JobOK, Owns, NoJob
<1>5. ASSUME NEW q \in published
      PROVE  Safe(q)'
  <2>1. \A d \in Copies : Pending(d) =>
          message'[d] = message[d] /\ Pending(d)'
    BY <1>1, <1>2 DEF Pending, NoJob, Settle
  <2> QED
    BY <1>3, <2>1, StillSafe DEF Pending
<1>6. \A v \in Workers : v # w /\ Owns(v)
        => message'[job[v].copy] = message[job[v].copy] /\ job'[w].copy # job[v].copy
  BY <1>1, <1>2, OthersDeliveries DEF NoJob
<1> QED
  BY <1>1, <1>2, <1>3, <1>4, <1>5, <1>6, OneJobStep
  DEF Settle, ConsumerInv, ConsumerTypeOK

(* When a delivery goes back to the queue, no message is lost.             *)
LEMMA TakenBack ==
  ASSUME ConsumerInv, NEW w \in Workers, Settled(w, "queue"),
         [Next]_processorVars, dlq' = dlq,
         \A v \in Workers : v # w => job'[v] = job[v],
         job'[w].stage = "settle" => job'[w].copy = None,
         NEW q \in published
  PROVE  Safe(q)'
<1>1. \A d \in Copies : d # job[w].copy => message'[d] = message[d]
  BY SettledMessages
<1>2. Owns(w) => /\ message'[job[w].copy].at = "queue"
                 /\ message'[job[w].copy].pay = message[job[w].copy].pay
  BY SettledMessages
<1>3. None \notin Copies
  BY ConsumerAssumption
<1>4. \A d \in Copies : Pending(d) =>
        message'[d].at # "free" /\ message'[d].pay = message[d].pay /\ Pending(d)'
  BY <1>1, <1>2, <1>3 DEF Pending, Owns
<1> QED
  BY <1>4, StillSafe

LEMMA SubjectIsPayment ==
  ASSUME ConsumerInv, NEW w \in Workers
  PROVE  Subject(w) \subseteq Payments
<1>1. CASE Owns(w)
  <2>1. /\ message[job[w].copy] \in Message /\ job[w].copy \in Copies
        /\ message[job[w].copy].at = "unacked"
    BY <1>1, Deliveries DEF JobOK
  <2>2. message[job[w].copy].pay \in Payments
    BY <2>1 DEF Message, ConsumerInv
  <2> QED
    BY <1>1, <2>2 DEF Subject
<1>2. CASE ~Owns(w)
  BY <1>2 DEF Subject
<1> QED
  BY <1>1, <1>2

LEMMA DropKeeps ==
  ASSUME ConsumerInv, NEW w \in Workers, Drop(w), [Next]_processorVars
  PROVE  ConsumerTypeOK' /\ Rest'
<1>1. /\ message' \in [Copies -> Message] /\ Paid'
      /\ \A d \in Copies : d # job[w].copy => message'[d] = message[d]
  BY SettledMessages DEF Drop
<1>2. /\ job' \in [Workers -> Job]
      /\ job'[w].copy = None /\ job'[w].stage = job[w].stage
      /\ \A v \in Workers : v # w => job'[v] = job[v]
  BY DEF Drop, ConsumerInv, ConsumerTypeOK, Job
<1>3. task' = task /\ dlq' = dlq
  BY DEF Drop, processorVars
<1>4. JobOK(w)'
  BY <1>2, <1>3, Deliveries DEF JobOK, Owns
<1>5. ASSUME NEW q \in published
      PROVE  Safe(q)'
  BY <1>2, <1>3, TakenBack DEF Drop
<1>6. \A v \in Workers : v # w /\ Owns(v)
        => message'[job[v].copy] = message[job[v].copy] /\ job'[w].copy # job[v].copy
  BY <1>1, <1>2, OthersDeliveries
<1>7. mishaps' \in 0..MaxMishaps
  BY ConsumerAssumption DEF Drop, Mishap, ConsumerInv, ConsumerTypeOK
<1>8. Subject(w) \subseteq Payments
  BY SubjectIsPayment
<1>9. duplicated' \subseteq Payments
  BY <1>8 DEF Drop, ConsumerInv, ConsumerTypeOK
<1> QED
  BY <1>1, <1>2, <1>3, <1>4, <1>5, <1>6, <1>7, <1>9, OneJobStep
  DEF Drop, ConsumerInv, ConsumerTypeOK

LEMMA DieKeeps ==
  ASSUME ConsumerInv, NEW w \in Workers, Die(w), [Next]_processorVars
  PROVE  ConsumerTypeOK' /\ Rest'
<1>1. /\ message' \in [Copies -> Message] /\ Paid'
      /\ \A d \in Copies : d # job[w].copy => message'[d] = message[d]
  BY SettledMessages DEF Die
<1>2. /\ job' \in [Workers -> Job] /\ job'[w] = NoJob
      /\ \A v \in Workers : v # w => job'[v] = job[v]
  BY DEF Die, ConsumerInv, ConsumerTypeOK, Job, NoJob
<1>3. /\ task'[w].pc = "idle"
      /\ \A v \in Workers : v # w => task'[v] = task[v]
  BY IdleAfter DEF Die, ConsumerInv
<1>4. JobOK(w)'
  BY <1>2, <1>3 DEF JobOK, Owns, NoJob
<1>5. ASSUME NEW q \in published
      PROVE  Safe(q)'
  BY <1>2, TakenBack DEF Die, NoJob
<1>6. \A v \in Workers : v # w /\ Owns(v)
        => message'[job[v].copy] = message[job[v].copy] /\ job'[w].copy # job[v].copy
  BY <1>1, <1>2, OthersDeliveries DEF NoJob
<1>7. mishaps' \in 0..MaxMishaps
  BY ConsumerAssumption DEF Die, Mishap, ConsumerInv, ConsumerTypeOK
<1>8. Subject(w) \subseteq Payments
  BY SubjectIsPayment
<1>9. duplicated' \subseteq Payments
  BY <1>8 DEF Die, ConsumerInv, ConsumerTypeOK
<1> QED
  BY <1>1, <1>2, <1>3, <1>4, <1>5, <1>6, <1>7, <1>9, OneJobStep
  DEF Die, ConsumerInv, ConsumerTypeOK

-----------------------------------------------------------------------------
LEMMA ExpirationIsNat == \A n \in 1..MaxRetries : Expiration(n) \in Nat
<1> SUFFICES ASSUME NEW n \in 1..MaxRetries PROVE Expiration(n) \in Nat
  OBVIOUS
<1>1. RetryDelay(n) \in Nat /\ ExpirationFactor \in Nat
  BY RetryDelayAssumption, ConsumerAssumption
<1> QED
  BY <1>1 DEF Expiration

(* A republication leaves a trace of the payment that is not the delivery. *)
LEMMA RepublishedMessages ==
  ASSUME ConsumerInv, NEW w \in Workers, Failed(w), Republished(w)
  PROVE  /\ message' \in [Copies -> Message] /\ dlq \subseteq dlq' /\ dlq' \subseteq Payments
         /\ \A d \in Copies : message[d].at # "free" => message'[d] = message[d]
         /\ Paid'
         /\ \/ Pay(w) \in dlq'
            \/ \E c \in Copies : /\ message[c].at = "free"
                                 /\ message'[c].at # "free" /\ message'[c].pay = Pay(w)
<1>1. Pay(w) \in Payments
  BY AtWork DEF Failed, ConsumerInv
<1>2. message \in [Copies -> Message] /\ dlq \subseteq Payments /\ job[w] \in Job
  BY DEF ConsumerInv, ConsumerTypeOK
<1>3. CASE job[w].retry >= MaxRetries /\ dlq' = dlq \cup {Pay(w)} /\ message' = message
  BY <1>1, <1>2, <1>3 DEF Paid, ConsumerInv
<1>4. ASSUME job[w].retry < MaxRetries, dlq' = dlq, NEW c \in Copies,
             message[c].at = "free",
             message' = [message EXCEPT ![c] = InRetryQueue(Pay(w), job[w].retry + 1)]
      PROVE  /\ message' \in [Copies -> Message] /\ message'[c].at # "free"
             /\ message'[c].pay = Pay(w) /\ Paid'
             /\ \A d \in Copies : message[d].at # "free" => message'[d] = message[d]
  <2>1. job[w].retry + 1 \in 1..MaxRetries /\ job[w].retry + 1 \in Nat
    BY <1>2, <1>4, ConsumerAssumption DEF Job
  <2>2. Expiration(job[w].retry + 1) \in Nat
    BY <2>1, ExpirationIsNat
  <2>3. InRetryQueue(Pay(w), job[w].retry + 1) \in Message
    BY <1>1, <2>1, <2>2 DEF InRetryQueue, Message
  <2>4. message'[c] = InRetryQueue(Pay(w), job[w].retry + 1)
    BY <1>2, <1>4
  <2>5. message'[c].at = "retry" /\ message'[c].pay = Pay(w)
    BY <2>4 DEF InRetryQueue
  <2>6. Pay(w) # None
    BY <1>1, ProcessorAssumption
  <2> QED
    BY <1>2, <1>4, <2>3, <2>5, <2>6 DEF Paid, ConsumerInv
<1> QED
  BY <1>2, <1>3, <1>4 DEF Republished

LEMMA DisposeKeeps ==
  ASSUME ConsumerInv, NEW w \in Workers, Dispose(w), [Next]_processorVars
  PROVE  ConsumerTypeOK' /\ Rest'
<1>1. /\ message' \in [Copies -> Message] /\ dlq \subseteq dlq' /\ dlq' \subseteq Payments
      /\ \A d \in Copies : message[d].at # "free" => message'[d] = message[d]
      /\ Paid'
  BY RepublishedMessages DEF Dispose
<1>2. /\ job' \in [Workers -> Job]
      /\ job'[w].stage = "settle" /\ job'[w].copy = job[w].copy
      /\ \A v \in Workers : v # w => job'[v] = job[v]
  BY DEF Dispose, ConsumerInv, ConsumerTypeOK, Job
<1>3. /\ task'[w].pc = "idle"
      /\ \A v \in Workers : v # w => task'[v] = task[v]
  BY IdleAfter DEF Dispose, ConsumerInv
<1>4. \A v \in Workers : Owns(v) => message[job[v].copy].at # "free"
  BY Deliveries DEF JobOK
<1>5. JobOK(w)'
  BY <1>1, <1>2, <1>3, <1>4, Deliveries DEF JobOK, Owns
<1>6. Owns(w) => message[job[w].copy].pay = Pay(w)
  BY Deliveries DEF JobOK, Dispose, Failed
<1>7. ASSUME NEW q \in published
      PROVE  Safe(q)'
  <2>1. CASE q = Pay(w)
    <3>1. CASE Pay(w) \in dlq'
      BY <2>1, <3>1 DEF Safe
    <3>2. ASSUME NEW c \in Copies, message[c].at = "free",
                 message'[c].at # "free", message'[c].pay = Pay(w)
          PROVE  Safe(q)'
      <4>1. \A v \in Workers : job'[v].copy # c
        BY <1>2, <1>4, <3>2, ConsumerAssumption DEF Owns
      <4> QED
        BY <2>1, <3>2, <4>1 DEF Safe, Live, Pending
    <3> QED
      BY <3>1, <3>2, RepublishedMessages DEF Dispose
  <2>2. CASE q # Pay(w)
    <3>1. \A d \in Copies : Pending(d) /\ message[d].pay = q =>
            message'[d] = message[d] /\ Pending(d)'
      BY <1>1, <1>2, <1>6, <2>2, ConsumerAssumption DEF Pending, Owns
    <3> QED
      BY <1>1, <3>1, StillSafe DEF Pending
  <2> QED
    BY <2>1, <2>2
<1>8. \A v \in Workers : v # w /\ Owns(v)
        => message'[job[v].copy] = message[job[v].copy] /\ job'[w].copy # job[v].copy
  BY <1>1, <1>2, <1>4, OthersDeliveries
<1>9. duplicated' \subseteq Payments
  BY AtWork DEF Dispose, Duplicates, Failed, ConsumerInv, ConsumerTypeOK
<1> QED
  BY <1>1, <1>2, <1>3, <1>5, <1>7, <1>8, <1>9, OneJobStep
  DEF Dispose, ConsumerInv, ConsumerTypeOK

LEMMA DisposeFailsKeeps ==
  ASSUME ConsumerInv, NEW w \in Workers, DisposeFails(w), [Next]_processorVars
  PROVE  ConsumerTypeOK' /\ Rest'
<1>1. /\ message' \in [Copies -> Message] /\ dlq \subseteq dlq' /\ dlq' \subseteq Payments
      /\ \A d \in Copies : message[d].at # "free" => message'[d] = message[d]
      /\ Paid'
  BY RepublishedMessages DEF DisposeFails, ConsumerInv, ConsumerTypeOK, Paid
<1>2. /\ job' \in [Workers -> Job] /\ job'[w] = NoJob
      /\ \A v \in Workers : v # w => job'[v] = job[v]
  BY DEF DisposeFails, ConsumerInv, ConsumerTypeOK, Job, NoJob
<1>3. /\ task'[w].pc = "idle"
      /\ \A v \in Workers : v # w => task'[v] = task[v]
  BY IdleAfter DEF DisposeFails, ConsumerInv
<1>4. \A v \in Workers : Owns(v) => message[job[v].copy].at # "free"
  BY Deliveries DEF JobOK
<1>5. JobOK(w)'
  BY <1>2, <1>3 DEF JobOK, Owns, NoJob
<1>6. ASSUME NEW q \in published
      PROVE  Safe(q)'
  <2>1. \A d \in Copies : Pending(d) =>
          message'[d] = message[d] /\ Pending(d)'
    BY <1>1, <1>2 DEF Pending, NoJob
  <2> QED
    BY <1>1, <2>1, StillSafe DEF Pending
<1>7. \A v \in Workers : v # w /\ Owns(v)
        => message'[job[v].copy] = message[job[v].copy] /\ job'[w].copy # job[v].copy
  BY <1>1, <1>2, <1>4, OthersDeliveries DEF NoJob
<1>8. mishaps' \in 0..MaxMishaps
  BY ConsumerAssumption DEF DisposeFails, Mishap, ConsumerInv, ConsumerTypeOK
<1>9. duplicated' \subseteq Payments
  BY AtWork DEF DisposeFails, Failed, ConsumerInv, ConsumerTypeOK
<1> QED
  BY <1>1, <1>2, <1>3, <1>5, <1>6, <1>7, <1>8, <1>9, OneJobStep
  DEF DisposeFails, ConsumerInv, ConsumerTypeOK

-----------------------------------------------------------------------------
(* Every message, and every call, goes back to a publication.              *)
LEMMA HandledFrom ==
  ASSUME OnlyPublishedHandled, published \subseteq published',
         \A c \in Copies : message'[c].at # "free" =>
           \/ message[c].at # "free" /\ message'[c].pay = message[c].pay
           \/ message'[c].pay \in published',
         \A w \in Workers : task'[w].pay = task[w].pay \/ task'[w].pay \in published' \cup {None}
  PROVE  OnlyPublishedHandled'
BY DEF OnlyPublishedHandled, Pay

LEMMA ArriveHandled ==
  ASSUME ConsumerInv, OnlyPublishedHandled, NEW p \in Payments, Arrive(p)
  PROVE  OnlyPublishedHandled'
<1>1. PICK c \in Copies : message' = [message EXCEPT ![c] = InQueue(p)]
  BY DEF Arrive
<1>2. /\ message'[c].pay = p
      /\ \A d \in Copies : d # c => message'[d] = message[d]
  BY <1>1 DEF ConsumerInv, ConsumerTypeOK, InQueue
<1> QED
  BY <1>2, HandledFrom DEF Arrive, processorVars

LEMMA NoTaskMoves ==
  ASSUME ProcessorInv, NEW w \in Workers, Finish(w) \/ Crash(w)
  PROVE  \A v \in Workers : task'[v].pay \in {task[v].pay, None}
BY DEF Finish, Crash, Idle, At, ProcessorInv, TypeOK

LEMMA SettledHandled ==
  ASSUME ConsumerInv, NEW w \in Workers, NEW at \in {"free", "queue"}, Settled(w, at)
  PROVE  \A c \in Copies : message'[c].at # "free" =>
           message[c].at # "free" /\ message'[c].pay = message[c].pay
<1>1. \A d \in Copies : d # job[w].copy => message'[d] = message[d]
  BY SettledMessages
<1>2. CASE Owns(w)
  <2>1. message[job[w].copy].at # "free" /\ job[w].copy \in Copies
    BY <1>2, Deliveries DEF JobOK
  <2>2. message'[job[w].copy].at = at
    BY <1>2, SettledMessages
  <2>3. at = "queue" => message'[job[w].copy].pay = message[job[w].copy].pay
    BY <1>2, SettledMessages
  <2> QED
    BY <1>1, <2>1, <2>2, <2>3
<1>3. CASE ~Owns(w)
  BY <1>3 DEF Settled
<1> QED
  BY <1>2, <1>3

LEMMA RepublishedHandled ==
  ASSUME ConsumerInv, OnlyPublishedHandled, NEW w \in Workers, Failed(w), Republished(w)
  PROVE  \A c \in Copies : message'[c].at # "free" =>
           \/ message[c].at # "free" /\ message'[c].pay = message[c].pay
           \/ message'[c].pay \in published
<1>1. Pay(w) \in published
  <2>1. Pay(w) \in Payments
    BY AtWork DEF Failed, ConsumerInv
  <2> QED
    BY <2>1, ProcessorAssumption DEF OnlyPublishedHandled
<1>2. CASE UNCHANGED message
  BY <1>2
<1>3. ASSUME NEW c \in Copies,
             message' = [message EXCEPT ![c] = InRetryQueue(Pay(w), job[w].retry + 1)]
      PROVE  /\ message'[c].pay = Pay(w)
             /\ \A d \in Copies : d # c => message'[d] = message[d]
  BY <1>3 DEF ConsumerInv, ConsumerTypeOK, InRetryQueue
<1> QED
  BY <1>1, <1>2, <1>3 DEF Republished

LEMMA HandledKept ==
  ASSUME ConsumerInv, OnlyPublishedHandled, [ConsumerNext]_consumerVars
  PROVE  OnlyPublishedHandled'
<1>0. ProcessorInv /\ message \in [Copies -> Message]
  BY DEF ConsumerInv, ConsumerTypeOK
<1>1. ASSUME NEW p \in Payments, RelayPublish(p)
      PROVE  OnlyPublishedHandled'
  BY <1>1, ArriveHandled DEF RelayPublish
<1>2. ASSUME NEW w \in Workers, NEW c \in Copies, Take(w, c)
      PROVE  OnlyPublishedHandled'
  <2>1. \A d \in Copies : message'[d].pay = message[d].pay
    BY <1>0, <1>2 DEF Take, Message
  <2>2. \A d \in Copies : message'[d].at # "free" => message[d].at # "free"
    BY <1>0, <1>2 DEF Take, Message
  <2>3. \A v \in Workers : task'[v].pay \in {task[v].pay, message[c].pay}
    BY <1>0, <1>2 DEF Take, Begin, At, ProcessorInv, TypeOK
  <2>4. message[c].pay \in published /\ published' = published
    BY <1>2 DEF Take, OnlyPublishedHandled
  <2> QED
    BY <2>1, <2>2, <2>3, <2>4, HandledFrom
<1>3. ASSUME NEW w \in Workers, Process(w)
      PROVE  OnlyPublishedHandled'
  BY <1>0, <1>3, StepStays, HandledFrom DEF Process, brokerVars
<1>4. ASSUME NEW w \in Workers, Ack(w) \/ Die(w) \/ Settle(w) \/ Drop(w)
      PROVE  OnlyPublishedHandled'
  <2>1. Settled(w, "free") \/ Settled(w, "queue")
    BY <1>4 DEF Ack, Die, Settle, Drop
  <2>2. \A v \in Workers : task'[v].pay \in {task[v].pay, None}
    BY <1>0, <1>4, NoTaskMoves DEF Ack, Die, Settle, Drop, processorVars
  <2>3. published' = published
    BY <1>4 DEF Ack, Die, Settle, Drop
  <2> QED
    BY <2>1, <2>2, <2>3, SettledHandled, HandledFrom
<1>5. ASSUME NEW w \in Workers, Dispose(w) \/ DisposeFails(w)
      PROVE  OnlyPublishedHandled'
  <2>1. \A v \in Workers : task'[v].pay \in {task[v].pay, None}
    BY <1>0, <1>5, NoTaskMoves DEF Dispose, DisposeFails
  <2>2. published' = published /\ Failed(w) /\ (Republished(w) \/ UNCHANGED message)
    BY <1>5 DEF Dispose, DisposeFails
  <2> QED
    BY <2>1, <2>2, RepublishedHandled, HandledFrom
<1>6. ASSUME NEW c \in Copies, SetupFails(c) \/ Requeue(c) \/ Expire(c)
      PROVE  OnlyPublishedHandled'
  <2>1. \A d \in Copies : message'[d].pay = message[d].pay
    BY <1>0, <1>6 DEF SetupFails, Requeue, Expire, Message
  <2>2. \A d \in Copies : message'[d].at # "free" => message[d].at # "free"
    BY <1>0, <1>6 DEF SetupFails, Requeue, Expire, Orphan, Message
  <2> QED
    BY <1>6, <2>1, <2>2, HandledFrom DEF SetupFails, Requeue, Expire, processorVars
<1>7. CASE Elapse
  <2>1. \A d \in Copies : message'[d].pay = message[d].pay /\ message'[d].at = message[d].at
    BY <1>0, <1>7 DEF Elapse, Message
  <2>2. \A v \in Workers : task'[v].pay = task[v].pay
    BY <1>0, <1>7 DEF Elapse, Tick, ProcessorInv, TypeOK, Task
  <2> QED
    BY <1>7, <2>1, <2>2, HandledFrom DEF Elapse
<1>8. CASE UNCHANGED consumerVars
  BY <1>8, HandledFrom DEF consumerVars, brokerVars, processorVars
<1> QED
  BY <1>1, <1>2, <1>3, <1>4, <1>5, <1>6, <1>7, <1>8 DEF ConsumerNext, Consume

LEMMA HandledInitially == ConsumerInit => OnlyPublishedHandled
BY DEF ConsumerInit, OnlyPublishedHandled, NoMessage, Init, Idle, At, Pay

-----------------------------------------------------------------------------
(* A call of process() that is the only one for its payment: what it knows *)
(* stays true, and what it tells, records and charges agrees with the row. *)
RowTrue(p) ==
  /\ heard[p] \subseteq {payment[p].status}
  /\ payment[p].delivered => ~payment[p].error

(* Whether the gateway's success is in the row of the only call, or about  *)
(* to be.                                                                  *)
ChargedBy(w) ==
  \/ RowOf(w).status = "succeeded"
  \/ task[w].pc = "mark" /\ task[w].verdict = "succeeded"
LoneCharge(w) == charges[Pay(w)] = IF ChargedBy(w) THEN 1 ELSE 0

(* The other column the only call depends on, webhook_last_error. *)
LEMMA RowErrorColumn ==
  ASSUME NEW row \in Row, NEW id
  PROVE  /\ Locked(row, id).error = row.error
         /\ Released(row, id).error = row.error
         /\ Released(Delivered(row), id).error = FALSE
<1>1. ASSUME NEW r \in Row
      PROVE  Released(r, id).error = r.error
  BY DEF Released, Row
<1>2. Delivered(row) \in Row /\ Delivered(row).error = FALSE
  BY DEF Delivered, Row
<1>3. Locked(row, id).error = row.error
  BY DEF Locked, Row
<1> QED
  BY <1>1, <1>2, <1>3

(* What an UPDATE of the own row leaves in it. *)
LEMMA RowWritten ==
  ASSUME ProcessorInv, NEW w \in Workers, Pay(w) \in Payments, NEW row, Update(w, row)
  PROVE  payment'[Pay(w)] = row
BY DEF Update, ProcessorInv, TypeOK

(* The call moves on and its row says the same of the outcome. *)
LEMMA LoneMoves ==
  ASSUME NEW w \in Workers, NEW p \in Payments, Pay(w) = p, task'[w].pay = p,
         LoneCallOK(w), RowTrue(p),
         payment'[p].status = payment[p].status,
         payment'[p].delivered => ~payment'[p].error,
         heard'[p] \subseteq heard[p] \cup {payment[p].status},
         charges' = charges,
         task[w].pc # "mark", task'[w].pc # "mark",
         \/ task'[w].pc \in {"done", "failed", "cleanup"}
         \/ /\ task'[w].pc \in {"giveup", "acquire"} \cup InLease
            /\ ~payment'[p].delivered
            /\ task'[w].pc # "giveup" => task'[w].verdict = payment[p].status
  PROVE  LoneCallOK(w)' /\ RowTrue(p)' /\ (LoneCharge(w) => LoneCharge(w)')
<1>1. RowOf(w)' = payment'[p] /\ RowOf(w) = payment[p] /\ Pay(w)' = p
  BY DEF RowOf, Pay
<1>2. LoneCallOK(w)'
  BY <1>1 DEF LoneCallOK, InLease
<1>3. RowTrue(p)'
  BY DEF RowTrue
<1>4. LoneCharge(w) => LoneCharge(w)'
  BY <1>1 DEF LoneCharge, ChargedBy
<1> QED
  BY <1>2, <1>3, <1>4

LEMMA LoneStep ==
  ASSUME ProcessorInv, NEW w \in Workers, Step(w), NEW p \in Payments, Pay(w) = p,
         LoneCallOK(w), RowTrue(p)
  PROVE  /\ LoneCallOK(w)' /\ RowTrue(p)'
         /\ LoneCharge(w) => LoneCharge(w)' \/ p \in dbFailed'
<1>1. /\ task'[w].pay = p /\ task[w].pc # "idle"
      /\ task \in [Workers -> Task] /\ task[w] \in Task
      /\ RowOf(w) \in Row /\ RowOf(w) = payment[p] /\ CallOK(w)
  BY StepStays, AtWork DEF Pay, RowOf, ProcessorInv, TypeOK
<1>2. /\ payment[p].delivered => heard[p] # {}
      /\ heard[p] # {} => payment[p].status # "pending"
      /\ payment[p].delivered => ~payment[p].error
  BY DEF ProcessorInv, ToldOnlySettled, RowTrue
<1>3. \A id : /\ Locked(payment[p], id).status = payment[p].status
              /\ Locked(payment[p], id).delivered = payment[p].delivered
              /\ Locked(payment[p], id).error = payment[p].error
              /\ Released(payment[p], id).status = payment[p].status
              /\ Released(payment[p], id).delivered = payment[p].delivered
              /\ Released(payment[p], id).error = payment[p].error
              /\ Released(Delivered(payment[p]), id).status = payment[p].status
              /\ Released(Delivered(payment[p]), id).error = FALSE
              /\ Released(Undelivered(payment[p]), id).status = payment[p].status
              /\ Released(Undelivered(payment[p]), id).delivered = payment[p].delivered
  <2> TAKE id
  <2>1. payment[p] \in Row
    BY <1>1
  <2>2. /\ Locked(payment[p], id).status = payment[p].status
        /\ Locked(payment[p], id).delivered = payment[p].delivered
        /\ Released(payment[p], id).status = payment[p].status
        /\ Released(payment[p], id).delivered = payment[p].delivered
        /\ Released(Delivered(payment[p]), id).status = payment[p].status
        /\ Released(Undelivered(payment[p]), id).status = payment[p].status
        /\ Released(Undelivered(payment[p]), id).delivered = payment[p].delivered
    BY <2>1, RowColumns
  <2>3. /\ Locked(payment[p], id).error = payment[p].error
        /\ Released(payment[p], id).error = payment[p].error
        /\ Released(Delivered(payment[p]), id).error = FALSE
    BY <2>1, RowErrorColumn
  <2> QED
    BY <2>2, <2>3
<1>4. CASE Load(w)
  <2>1. payment' = payment /\ heard' = heard /\ charges' = charges /\ task[w].pc = "load"
    BY <1>4 DEF Load, history
  <2>2. CASE End(w, "done")
    <3>1. task'[w].pc = "done"
      BY <1>1, <2>2 DEF End, At
    <3> QED
      BY <1>1, <1>2, <2>1, <3>1, LoneMoves
  <2>3. ASSUME NEW pc, task' = [task EXCEPT ![w].pc = pc,
                                            ![w].verdict = payment[p].status,
                                            ![w].seen = payment[p].delivered]
        PROVE  task'[w].pc = pc /\ task'[w].verdict = payment[p].status
    <3>1. task'[w] = [[[task[w] EXCEPT !.pc = pc] EXCEPT !.verdict = payment[p].status]
                        EXCEPT !.seen = payment[p].delivered]
      BY <1>1, <2>3
    <3> QED
      BY <1>1, <3>1 DEF Task
  <2>4. CASE ~payment[p].delivered /\ task'[w].pc = "acquire"
               /\ task'[w].verdict = payment[p].status
    BY <1>1, <1>2, <2>1, <2>4, LoneMoves
  <2>5. CASE payment[p].status = "pending" /\ task'[w].pc = "gateway"
    <3>1. LoneCallOK(w)'
      BY <1>1, <1>2, <2>1, <2>5 DEF LoneCallOK, RowOf, Pay, InLease
    <3>2. RowTrue(p)' /\ (LoneCharge(w) => LoneCharge(w)')
      BY <1>1, <2>1, <2>5 DEF RowTrue, LoneCharge, ChargedBy, RowOf, Pay
    <3> QED
      BY <3>1, <3>2
  <2> QED
    BY <1>1, <1>4, <2>2, <2>3, <2>4, <2>5 DEF Load
<1>5. CASE Gateway(w)
  <2>1. PICK s \in Outcomes :
          /\ task' = [task EXCEPT ![w].pc = "mark", ![w].verdict = s]
          /\ charges' = IF s = "succeeded" THEN [charges EXCEPT ![p] = MinOf(@ + 1, 2)]
                        ELSE charges
    BY <1>5 DEF Gateway
  <2>2. /\ payment' = payment /\ heard' = heard /\ task[w].pc = "gateway"
        /\ payment[p].status = "pending" /\ ~payment[p].delivered
    BY <1>1, <1>5 DEF Gateway, LoneCallOK
  <2>3. task'[w] = [[task[w] EXCEPT !.pc = "mark"] EXCEPT !.verdict = s]
    BY <1>1, <2>1
  <2>4. task'[w].pc = "mark" /\ task'[w].verdict = s
    BY <1>1, <2>3 DEF Task
  <2>5. LoneCallOK(w)' /\ RowTrue(p)'
    BY <1>1, <2>2, <2>4 DEF LoneCallOK, RowTrue, RowOf, Pay, InLease
  <2>6. ASSUME LoneCharge(w)
        PROVE  LoneCharge(w)'
    <3>1. charges[p] = 0 /\ charges \in [Payments -> 0..2]
      BY <1>1, <2>2, <2>6 DEF LoneCharge, ChargedBy, ProcessorInv, TypeOK
    <3>2. charges'[p] = IF s = "succeeded" THEN 1 ELSE 0
      BY <2>1, <3>1 DEF MinOf
    <3> QED
      BY <1>1, <2>2, <2>4, <3>2 DEF LoneCharge, ChargedBy, RowOf, Pay
  <2> QED
    BY <2>5, <2>6
<1>6. CASE Mark(w)
  <2>1. /\ task[w].pc = "mark" /\ task[w].verdict \in Outcomes
        /\ heard' = heard /\ charges' = charges
        /\ payment[p].status = "pending" /\ ~payment[p].delivered
    BY <1>1, <1>6 DEF Mark, CallOK, LoneCallOK, history
  <2>2. payment'[p] = [payment[p] EXCEPT !.status = task[w].verdict]
    BY <1>1, <1>6, <2>1, RowWritten DEF Mark, Processed
  <2>3. /\ payment'[p].status = task[w].verdict /\ ~payment'[p].delivered
    BY <1>1, <2>1, <2>2 DEF Row
  <2>4. task'[w] = [task[w] EXCEPT !.pc = "acquire"]
    BY <1>1, <1>6, <2>1 DEF Mark, Goto
  <2>5. task'[w].pc = "acquire" /\ task'[w].verdict = task[w].verdict
    BY <1>1, <2>4 DEF Task
  <2>6. heard[p] = {}
    BY <1>2, <2>1
  <2> QED
    BY <1>1, <2>1, <2>3, <2>5, <2>6
    DEF LoneCallOK, RowTrue, LoneCharge, ChargedBy, RowOf, Pay, InLease
<1>7. CASE Acquire(w)
  <2>1. /\ heard' = heard /\ charges' = charges /\ task[w].pc = "acquire"
        /\ ~payment[p].delivered /\ task[w].verdict = payment[p].status
    BY <1>1, <1>7 DEF Acquire, LoneCallOK, history
  <2>2. ASSUME NEW id, Update(w, Locked(RowOf(w), id)),
               task' = [task EXCEPT ![w].pc = "recheck", ![w].id = id]
        PROVE  /\ payment'[p].status = payment[p].status /\ ~payment'[p].delivered
               /\ task'[w].pc = "recheck" /\ task'[w].verdict = task[w].verdict
    <3>1. task'[w] = [[task[w] EXCEPT !.pc = "recheck"] EXCEPT !.id = id]
      BY <1>1, <2>2
    <3>2. payment'[p] = Locked(payment[p], id)
      BY <1>1, <2>2, RowWritten
    <3> QED
      BY <1>1, <1>3, <2>1, <3>1, <3>2 DEF Task
  <2>3. CASE End(w, "failed") /\ payment' = payment
    <3>1. task'[w].pc = "failed"
      BY <1>1, <2>3 DEF End, At
    <3> QED
      BY <1>1, <1>2, <2>1, <2>3, <3>1, LoneMoves
  <2>4. CASE /\ payment'[p].status = payment[p].status /\ ~payment'[p].delivered
             /\ task'[w].pc = "recheck" /\ task'[w].verdict = task[w].verdict
    BY <1>1, <2>1, <2>4, LoneMoves DEF InLease
  <2> QED
    BY <1>7, <2>2, <2>3, <2>4 DEF Acquire
<1>8. CASE Recheck(w)
  <2>1. /\ heard' = heard /\ charges' = charges /\ task[w].pc = "recheck"
        /\ ~payment[p].delivered /\ task[w].verdict = payment[p].status
        /\ ~task[w].seen
    BY <1>1, <1>8 DEF Recheck, LoneCallOK, CallOK, InLease, history
  <2>2. payment' = payment /\ task' = [task EXCEPT ![w].pc = "send", ![w].attempt = 1]
    BY <1>8, <2>1 DEF Recheck
  <2>3. task'[w] = [[task[w] EXCEPT !.pc = "send"] EXCEPT !.attempt = 1]
    BY <1>1, <2>2
  <2>4. task'[w].pc = "send" /\ task'[w].verdict = task[w].verdict
    BY <1>1, <2>3 DEF Task
  <2> QED
    BY <1>1, <2>1, <2>2, <2>4, LoneMoves DEF InLease
<1>9. CASE PostAccepted(w) \/ Retry(w) \/ SendFails(w) \/ SendBreaks(w)
  <2>1. /\ payment' = payment /\ charges' = charges /\ task[w].pc = "send"
        /\ ~payment[p].delivered /\ task[w].verdict = payment[p].status
    BY <1>1, <1>9
    DEF PostAccepted, Retry, SendFails, SendBreaks, PostRaised, LoneCallOK, InLease
  <2>2. heard' \in {heard, [heard EXCEPT ![p] = @ \cup {payment[p].status}]}
    BY <1>9, <2>1 DEF PostAccepted, Retry, SendFails, SendBreaks, PostRaised
  <2>3. heard'[p] \subseteq heard[p] \cup {payment[p].status}
    BY <2>2 DEF ProcessorInv, TypeOK
  <2>4. \/ task'[w].pc \in {"cleanup", "giveup"}
        \/ task'[w].pc \in {"send", "record"} /\ task'[w].verdict = task[w].verdict
    BY <1>1, <1>9, <2>1
    DEF PostAccepted, Retry, SendFails, SendBreaks, PostRaised, Goto, Abandon, At, Task
  <2> QED
    BY <1>1, <2>1, <2>3, <2>4, LoneMoves DEF InLease
<1>10. CASE RecordDelivered(w) \/ RecordFails(w)
  <2>1. /\ heard' = heard /\ charges' = charges /\ task[w].pc = "record"
    BY <1>10 DEF RecordDelivered, RecordFails, DbRaises, history
  <2>2. task'[w].pc \in {"done", "cleanup"}
    BY <1>1, <1>10 DEF RecordDelivered, RecordFails, End, Abandon, At
  <2>3. payment' = payment \/ payment'[p] = Released(Delivered(payment[p]), task[w].id)
    BY <1>1, <1>10, RowWritten DEF RecordDelivered, RecordFails
  <2>4. /\ payment'[p].status = payment[p].status
        /\ payment'[p].delivered => ~payment'[p].error
    BY <1>2, <1>3, <2>3
  <2> QED
    BY <1>1, <2>1, <2>2, <2>4, LoneMoves
<1>11. CASE GiveUp(w) \/ CleanUp(w)
  <2>1. /\ heard' = heard /\ charges' = charges /\ task[w].pc \in {"giveup", "cleanup"}
        /\ task[w].pc = "giveup" => ~payment[p].delivered
    BY <1>1, <1>11 DEF GiveUp, CleanUp, LoneCallOK, history
  <2>2. task'[w].pc = "failed"
    BY <1>1, <1>11 DEF GiveUp, CleanUp, End, At
  <2>3. \/ /\ payment'[p] = Released(Undelivered(payment[p]), task[w].id)
           /\ ~payment[p].delivered
        \/ payment'[p] = Released(payment[p], task[w].id)
    BY <1>1, <1>11, <2>1, RowWritten DEF GiveUp, CleanUp
  <2>4. /\ payment'[p].status = payment[p].status
        /\ payment'[p].delivered => ~payment'[p].error
    BY <1>2, <1>3, <2>3
  <2> QED
    BY <1>1, <2>1, <2>2, <2>4, LoneMoves
<1>12. CASE DbError(w)
  <2>1. /\ heard' = heard /\ p \in dbFailed'
        /\ task[w].pc = "giveup" => ~payment[p].delivered
        /\ task[w].pc = "mark" => payment[p].status = "pending" /\ ~payment[p].delivered
    BY <1>1, <1>12 DEF DbError, DbRaises, LoneCallOK
  <2>2. task'[w].pc = "failed"
    BY <1>1, <1>12 DEF DbError, End, At
  <2>3. LoneCallOK(w)'
    BY <2>2 DEF LoneCallOK, InLease
  <2>4. \/ payment' = payment
        \/ /\ payment'[p] = Processed(payment[p], task[w].verdict)
           /\ payment[p].status = "pending" /\ ~payment[p].delivered
        \/ \E id \in FreshIds : payment'[p] = Locked(payment[p], id)
        \/ /\ payment'[p] = Released(Undelivered(payment[p]), task[w].id)
           /\ ~payment[p].delivered
        \/ payment'[p] = Released(payment[p], task[w].id)
    BY <1>1, <1>12, <2>1, RowWritten DEF DbError
  <2>5. CASE /\ payment'[p] = Processed(payment[p], task[w].verdict)
             /\ payment[p].status = "pending" /\ ~payment[p].delivered
    <3>1. payment'[p] = [payment[p] EXCEPT !.status = task[w].verdict]
      BY <2>5 DEF Processed
    <3>2. ~payment'[p].delivered /\ heard[p] = {}
      BY <1>1, <1>2, <2>5, <3>1 DEF Row
    <3> QED
      BY <2>1, <2>3, <3>2 DEF RowTrue
  <2>6. CASE \/ payment' = payment
             \/ \E id \in FreshIds : payment'[p] = Locked(payment[p], id)
             \/ /\ payment'[p] = Released(Undelivered(payment[p]), task[w].id)
                /\ ~payment[p].delivered
             \/ payment'[p] = Released(payment[p], task[w].id)
    <3>1. /\ payment'[p].status = payment[p].status
          /\ payment'[p].delivered => ~payment'[p].error
      BY <1>2, <1>3, <2>6
    <3> QED
      BY <2>1, <2>3, <3>1 DEF RowTrue
  <2> QED
    BY <2>4, <2>5, <2>6
<1> QED
  BY <1>4, <1>5, <1>6, <1>7, <1>8, <1>9, <1>10, <1>11, <1>12 DEF Step

(* The history of the other payments is left alone as well. *)
LEMMA StepOwnHistory ==
  ASSUME ProcessorInv, NEW w \in Workers, Step(w), NEW q \in Payments, q # Pay(w)
  PROVE  heard'[q] = heard[q] /\ charges'[q] = charges[q]
BY DEF Step, Load, Gateway, Mark, Acquire, Recheck, PostAccepted, Retry, SendFails,
       SendBreaks, PostRaised, RecordDelivered, RecordFails, GiveUp, CleanUp, DbError,
       DbRaises, history, ProcessorInv, TypeOK

-----------------------------------------------------------------------------
(* LoneInv, part by part. *)
OneAt(q) == \A c, d \in Live(q) : Pending(c) /\ Pending(d) => c = d
LoneCalls ==
  \A w \in Workers :
    task[w].pc # "idle" /\ Pay(w) \notin duplicated => Owns(w) /\ LoneCallOK(w)
NoWaste ==
  mishaps = 0 =>
    \A p \in Payments \ (dbFailed \cup duplicated) :
      charges[p] = IF Charged(p) THEN 1 ELSE 0

LEMMA LoneParts ==
  /\ LoneInv <=> /\ \A p \in Payments \ duplicated : OneAt(p) /\ RowTrue(p)
                 /\ LoneCalls /\ NoWaste
  /\ LoneInv' <=> /\ \A p \in Payments \ duplicated' : OneAt(p)' /\ RowTrue(p)'
                  /\ LoneCalls' /\ NoWaste'
<1>1. LoneInv <=> /\ \A p \in Payments \ duplicated : OneAt(p) /\ RowTrue(p)
                  /\ LoneCalls /\ NoWaste
  BY DEF LoneInv, OneAt, RowTrue, LoneCalls, NoWaste, TruthUnlessDuplicated,
         ErrorMeansUndelivered
<1>2. LoneInv' <=> /\ \A p \in Payments \ duplicated' : OneAt(p)' /\ RowTrue(p)'
                   /\ LoneCalls' /\ NoWaste'
  BY DEF LoneInv, OneAt, RowTrue, LoneCalls, NoWaste, TruthUnlessDuplicated,
         ErrorMeansUndelivered
<1> QED
  BY <1>1, <1>2

(* The delivery of a call that is under way is a message that will be      *)
(* handled.                                                                *)
LEMMA OwnedPending ==
  ASSUME ConsumerInv, NEW w \in Workers, task[w].pc # "idle", Owns(w)
  PROVE  job[w].copy \in Live(Pay(w)) /\ Pending(job[w].copy)
<1>1. /\ job[w].stage = "handle" /\ job[w].copy \in Copies
      /\ message[job[w].copy].at = "unacked" /\ message[job[w].copy].pay = Pay(w)
  BY Deliveries DEF JobOK
<1>2. \A u \in Workers : job[u].copy = job[w].copy => u = w
  BY DEF ConsumerInv
<1> QED
  BY <1>1, <1>2 DEF Live, Pending

(* So no other call is made for the payment of a lone one. *)
LEMMA OneCall ==
  ASSUME ConsumerInv, LoneInv, NEW v \in Workers, NEW w \in Workers, v # w,
         task[v].pc # "idle", task[w].pc # "idle", Pay(v) \notin duplicated
  PROVE  Pay(w) # Pay(v)
<1> SUFFICES ASSUME Pay(w) = Pay(v) PROVE FALSE
  OBVIOUS
<1>1. Owns(v) /\ Owns(w)
  BY DEF LoneInv
<1>2. Pay(v) \in Payments
  BY AtWork DEF ConsumerInv
<1>3. job[v].copy = job[w].copy
  BY <1>1, <1>2, OwnedPending DEF LoneInv
<1> QED
  BY <1>1, <1>3 DEF ConsumerInv

(* The messages of payment q that will be handled were there before. *)
FewerAt(q) ==
  \A c \in Copies :
    message'[c].at # "free" /\ message'[c].pay = q /\ Pending(c)'
    => message[c].at # "free" /\ message[c].pay = q /\ Pending(c)

LEMMA FewerIsOne ==
  ASSUME LoneInv, NEW q \in Payments \ duplicated, FewerAt(q)
  PROVE  OneAt(q)'
BY DEF LoneInv, FewerAt, OneAt, Live

(* A call that ends, begins or goes on as before. *)
CallKept(v) ==
  \/ task'[v].pc = "idle"
  \/ task'[v].pc = "load" /\ Owns(v)'
  \/ task'[v] = task[v] /\ (Pay(v) \in duplicated' \/ (Owns(v) => Owns(v)'))

(* A step of the handler or the broker that is not one of process().       *)
LEMMA LoneKept ==
  ASSUME LoneInv, UNCHANGED <<payment, history>>,
         duplicated \subseteq duplicated',
         \A q \in Payments \ duplicated' : OneAt(q)',
         \A v \in Workers : CallKept(v),
         mishaps' = 0 =>
           /\ mishaps = 0
           /\ \A v \in Workers :
                task'[v] # task[v] => task[v].pc # "mark" /\ task'[v].pc # "mark"
  PROVE  LoneInv'
<1>1. /\ payment' = payment /\ heard' = heard
      /\ charges' = charges /\ dbFailed' = dbFailed
  BY DEF history
<1>2. \A q \in Payments \ duplicated' : RowTrue(q)'
  BY <1>1, LoneParts DEF RowTrue
<1>3. LoneCalls'
  <2> SUFFICES ASSUME NEW v \in Workers, task'[v].pc # "idle", Pay(v)' \notin duplicated'
               PROVE  Owns(v)' /\ LoneCallOK(v)'
    BY DEF LoneCalls
  <2>1. CASE task'[v].pc = "load" /\ Owns(v)'
    BY <2>1 DEF LoneCallOK, InLease
  <2>2. CASE task'[v] = task[v]
    <3>1. Owns(v) /\ LoneCallOK(v)
      BY <2>2, LoneParts DEF LoneCalls, Pay
    <3>2. Owns(v)'
      BY <2>2, <3>1 DEF CallKept, Pay, LoneCallOK, InLease
    <3> QED
      BY <1>1, <2>2, <3>1, <3>2 DEF LoneCallOK, RowOf, Pay
  <2> QED
    BY <2>1, <2>2 DEF CallKept
<1>4. NoWaste'
  <2> SUFFICES ASSUME mishaps' = 0, NEW p \in Payments \ (dbFailed' \cup duplicated')
               PROVE  charges'[p] = IF Charged(p)' THEN 1 ELSE 0
    BY DEF NoWaste
  <2>1. NoWaste
    BY LoneParts
  <2>2. Charged(p)' <=> Charged(p)
    BY <1>1 DEF Charged, Pay
  <2>3. mishaps = 0 /\ p \in Payments \ (dbFailed \cup duplicated)
    BY <1>1
  <2> QED
    BY <1>1, <2>1, <2>2, <2>3 DEF NoWaste
<1> QED
  BY <1>2, <1>3, <1>4, LoneParts

LEMMA LoneArrives ==
  ASSUME ConsumerInv, OnlyPublishedHandled, LoneInv, NEW p \in Payments, Arrive(p),
         mishaps' = 0 => mishaps = 0
  PROVE  LoneInv'
<1>1. PICK c \in Copies : /\ message[c].at = "free"
                          /\ message' = [message EXCEPT ![c] = InQueue(p)]
  BY DEF Arrive
<1>2. /\ message'[c].pay = p
      /\ \A d \in Copies : d # c => message'[d] = message[d]
  BY <1>1 DEF ConsumerInv, ConsumerTypeOK, InQueue
<1>3. /\ job' = job /\ task' = task /\ UNCHANGED <<payment, history>>
      /\ duplicated' = duplicated \cup ({p} \cap published)
  BY DEF Arrive, processorVars, history
<1>4. ASSUME NEW q \in Payments \ duplicated'
      PROVE  OneAt(q)'
  <2>1. CASE q = p
    <3>1. \A d \in Copies : message[d].at # "free" => message[d].pay # p
      BY <1>3, <2>1 DEF OnlyPublishedHandled
    <3> QED
      BY <1>2, <2>1, <3>1 DEF OneAt, Live
  <2>2. CASE q # p
    <3>1. FewerAt(q)
      BY <1>2, <1>3, <2>2 DEF FewerAt, Pending
    <3> QED
      BY <1>3, <3>1, FewerIsOne
  <2> QED
    BY <2>1, <2>2
<1>5. \A v \in Workers : CallKept(v)
  BY <1>3 DEF CallKept, Owns
<1> QED
  BY <1>3, <1>4, <1>5, LoneKept

LEMMA LoneTaken ==
  ASSUME ConsumerInv, LoneInv, NEW w \in Workers, NEW c \in Copies, Take(w, c)
  PROVE  LoneInv'
<1>1. /\ task' = [task EXCEPT ![w] = At("load", message[c].pay)]
      /\ job' = [job EXCEPT ![w] = [stage |-> "handle", copy |-> c,
                                    retry |-> message[c].retry]]
      /\ job[w].stage = "none" /\ task[w].pc = "idle"
      /\ message[c].at = "queue"
      /\ message' = [message EXCEPT ![c].at = "unacked"]
      /\ UNCHANGED <<payment, history, mishaps, duplicated>>
  BY DEF Take, Begin
<1>2. /\ task'[w].pc = "load"
      /\ job'[w].copy = c /\ job'[w].stage = "handle"
      /\ \A v \in Workers : v # w => task'[v] = task[v] /\ job'[v] = job[v]
      /\ \A d \in Copies : /\ message'[d].pay = message[d].pay
                           /\ message'[d].at # "free" => message[d].at # "free"
  BY <1>1 DEF At, ConsumerInv, ConsumerTypeOK, TypeOK, Message
<1>3. ASSUME NEW q \in Payments \ duplicated'
      PROVE  OneAt(q)'
  <2>1. FewerAt(q)
    BY <1>1, <1>2 DEF FewerAt, Pending
  <2> QED
    BY <1>1, <2>1, FewerIsOne
<1>4. \A v \in Workers : CallKept(v)
  BY <1>2, ConsumerAssumption DEF CallKept, Owns
<1>5. \A v \in Workers : task'[v] # task[v] => task[v].pc # "mark" /\ task'[v].pc # "mark"
  BY <1>1, <1>2
<1> QED
  BY <1>1, <1>3, <1>4, <1>5, LoneKept

(* A delivery that its worker settles, or the broker takes back, except    *)
(* when the message was republished before.                                *)
LEMMA SettledFewer ==
  ASSUME ConsumerInv, NEW w \in Workers, NEW at \in {"free", "queue"}, Settled(w, at),
         \A v \in Workers : v # w => job'[v] = job[v],
         NEW q,
         \/ job[w].stage # "settle"
         \/ at = "free"
         \/ q \notin Subject(w)
  PROVE  FewerAt(q)
<1>1. /\ \A d \in Copies : d # job[w].copy => message'[d] = message[d]
      /\ Owns(w) => message'[job[w].copy].at = at
  BY SettledMessages
<1>2. CASE Owns(w)
  <2>1. /\ job[w].copy \in Copies /\ message[job[w].copy].at = "unacked"
        /\ at = "queue" => message'[job[w].copy].pay = message[job[w].copy].pay
    BY <1>2, Deliveries, SettledMessages DEF JobOK
  <2>2. Subject(w) = {message[job[w].copy].pay}
    BY <1>2 DEF Subject
  <2>3. \A u \in Workers : u # w => job[u].copy # job[w].copy
    BY <1>2 DEF ConsumerInv
  <2> QED
    BY <1>1, <1>2, <2>1, <2>2, <2>3 DEF FewerAt, Pending
<1>3. CASE ~Owns(w)
  <2>1. message' = message /\ job[w].copy \notin Copies
    BY <1>3, ConsumerAssumption DEF Settled, Owns
  <2> QED
    BY <2>1 DEF FewerAt, Pending
<1> QED
  BY <1>2, <1>3

LEMMA LoneSettled ==
  ASSUME ConsumerInv, LoneInv, NEW w \in Workers,
         Ack(w) \/ Settle(w) \/ Die(w) \/ Drop(w)
  PROVE  LoneInv'
<1>1. /\ UNCHANGED <<payment, history>>
      /\ duplicated \subseteq duplicated'
      /\ \A v \in Workers : v # w => job'[v] = job[v] /\ task'[v] = task[v]
  BY IdleAfter DEF Ack, Settle, Die, Drop, Finish, Crash, processorVars, history,
                   ConsumerInv, ConsumerTypeOK
<1>2. ASSUME NEW q \in Payments \ duplicated'
      PROVE  OneAt(q)'
  <2>1. \/ Settled(w, "free")
        \/ Settled(w, "queue") /\ (job[w].stage # "settle" \/ q \notin Subject(w))
    BY <1>2 DEF Ack, Settle, Die, Drop
  <2>2. FewerAt(q)
    BY <1>1, <2>1, SettledFewer
  <2> QED
    BY <1>1, <2>2, FewerIsOne
<1>3. ASSUME NEW v \in Workers
      PROVE  CallKept(v)
  <2>1. CASE v # w
    BY <1>1, <2>1 DEF CallKept, Owns
  <2>2. CASE v = w /\ (Ack(w) \/ Die(w))
    BY <2>2, IdleAfter DEF CallKept, Ack, Die, ConsumerInv
  <2>3. CASE v = w /\ Settle(w)
    <3>1. task'[w].pc = "idle"
      BY <2>3, Deliveries DEF Settle, processorVars, JobOK
    <3> QED
      BY <2>3, <3>1 DEF CallKept
  <2>4. CASE v = w /\ Drop(w)
    <3>1. task' = task /\ Owns(w) /\ Subject(w) \subseteq duplicated'
      BY <2>4 DEF Drop, processorVars
    <3>2. task[w].pc = "idle" \/ Pay(w) \in duplicated'
      BY <3>1, Deliveries DEF Subject, JobOK
    <3> QED
      BY <2>4, <3>1, <3>2 DEF CallKept
  <2> QED
    BY <2>1, <2>2, <2>3, <2>4
<1>4. mishaps' = 0 =>
        /\ mishaps = 0
        /\ \A v \in Workers :
             task'[v] # task[v] => task[v].pc # "mark" /\ task'[v].pc # "mark"
  <2>1. mishaps \in 0..MaxMishaps
    BY DEF ConsumerInv, ConsumerTypeOK
  <2>2. CASE Ack(w)
    <3>1. task[w].pc = "done" /\ task'[w].pc = "idle"
      BY <2>2, IdleAfter DEF Ack, ConsumerInv
    <3> QED
      BY <1>1, <2>2, <3>1 DEF Ack
  <2>3. CASE Settle(w)
    BY <2>3 DEF Settle, processorVars
  <2>4. CASE Die(w) \/ Drop(w)
    BY <2>1, <2>4 DEF Die, Drop, Mishap
  <2> QED
    BY <2>2, <2>3, <2>4
<1> QED
  BY <1>1, <1>2, <1>3, <1>4, LoneKept

(* A republication puts at most one message there, of the same payment. *)
LEMMA RepublishedOne ==
  ASSUME ConsumerInv, NEW w \in Workers, Republished(w)
  PROVE  \E N \in SUBSET Copies :
           /\ \A c, d \in N : c = d
           /\ \A d \in Copies : /\ d \notin N => message'[d] = message[d]
                                /\ d \in N => message'[d].pay = Pay(w)
<1>1. CASE UNCHANGED message
  <2> WITNESS {} \in SUBSET Copies
  <2> QED
    BY <1>1
<1>2. ASSUME NEW c \in Copies,
             message' = [message EXCEPT ![c] = InRetryQueue(Pay(w), job[w].retry + 1)]
      PROVE  /\ message'[c].pay = Pay(w)
             /\ \A d \in Copies : d \notin {c} => message'[d] = message[d]
  BY <1>2 DEF ConsumerInv, ConsumerTypeOK, InRetryQueue
<1>3. ASSUME NEW c \in Copies, message'[c].pay = Pay(w),
             \A d \in Copies : d \notin {c} => message'[d] = message[d]
      PROVE  \E N \in SUBSET Copies :
               /\ \A e, d \in N : e = d
               /\ \A d \in Copies : /\ d \notin N => message'[d] = message[d]
                                    /\ d \in N => message'[d].pay = Pay(w)
  <2> WITNESS {c} \in SUBSET Copies
  <2> QED
    BY <1>3
<1> QED
  BY <1>1, <1>2, <1>3 DEF Republished

LEMMA LoneDisposed ==
  ASSUME ConsumerInv, LoneInv, NEW w \in Workers, Dispose(w) \/ DisposeFails(w)
  PROVE  LoneInv'
<1>1. /\ UNCHANGED <<payment, history>>
      /\ duplicated \subseteq duplicated'
      /\ \A v \in Workers : v # w => job'[v] = job[v] /\ task'[v] = task[v]
      /\ task'[w].pc = "idle"
      /\ job[w].stage = "handle" /\ task[w].pc \in {"failed", "done"}
  BY IdleAfter DEF Dispose, DisposeFails, Failed, Duplicates, Finish,
                   ConsumerInv, ConsumerTypeOK
<1>2. ASSUME NEW q \in Payments \ duplicated', NEW N \in SUBSET Copies,
             \A d \in Copies : /\ d \notin N => message'[d] = message[d]
                               /\ d \in N => message'[d].pay = Pay(w),
             q # Pay(w)
      PROVE  FewerAt(q)
  BY <1>1, <1>2 DEF FewerAt, Pending
<1>3. ASSUME NEW q \in Payments \ duplicated', Republished(w),
             Dispose(w) \/ duplicated' = duplicated \cup {Pay(w)}
      PROVE  OneAt(q)'
  <2>1. PICK N \in SUBSET Copies :
          /\ \A c, d \in N : c = d
          /\ \A d \in Copies : /\ d \notin N => message'[d] = message[d]
                               /\ d \in N => message'[d].pay = Pay(w)
    BY <1>3, RepublishedOne
  <2>2. CASE q # Pay(w)
    BY <1>1, <1>2, <2>1, <2>2, FewerIsOne
  <2>3. CASE q = Pay(w)
    <3>1. Dispose(w) /\ Owns(w)
      BY <1>3, <2>3 DEF Dispose, DisposeFails, Duplicates
    <3>2. job'[w].stage = "settle" /\ job'[w].copy = job[w].copy
      BY <3>1 DEF Dispose, ConsumerInv, ConsumerTypeOK, Job
    <3>3. job[w].copy \in Live(q) /\ Pending(job[w].copy)
      BY <1>1, <2>3, <3>1, OwnedPending
    <3>4. ASSUME NEW d \in Copies, d \notin N, message'[d].at # "free",
                 message'[d].pay = q, Pending(d)'
          PROVE  FALSE
      <4>1. d # job[w].copy
        BY <3>2, <3>4 DEF Pending
      <4>2. d \in Live(q) /\ Pending(d)
        BY <1>1, <2>1, <3>4 DEF Live, Pending
      <4> QED
        BY <1>1, <1>3, <3>3, <4>1, <4>2 DEF LoneInv
    <3> QED
      BY <2>1, <3>4 DEF OneAt, Live
  <2> QED
    BY <2>2, <2>3
<1>4. ASSUME NEW q \in Payments \ duplicated', UNCHANGED message
      PROVE  OneAt(q)'
  <2>1. FewerAt(q)
    BY <1>1, <1>4 DEF FewerAt, Pending
  <2> QED
    BY <1>1, <2>1, FewerIsOne
<1>5. \A q \in Payments \ duplicated' : OneAt(q)'
  BY <1>3, <1>4 DEF Dispose, DisposeFails
<1>6. \A v \in Workers : CallKept(v)
  BY <1>1 DEF CallKept, Owns
<1>7. mishaps' = 0 => mishaps = 0
  <2>1. mishaps \in 0..MaxMishaps
    BY DEF ConsumerInv, ConsumerTypeOK
  <2> QED
    BY <2>1 DEF Dispose, DisposeFails, Mishap
<1> QED
  BY <1>1, <1>5, <1>6, <1>7, LoneKept

(* A message the broker delivers in vain, takes back, or moves. *)
LEMMA LoneQueued ==
  ASSUME ConsumerInv, LoneInv, NEW c \in Copies, SetupFails(c) \/ Requeue(c) \/ Expire(c)
  PROVE  LoneInv'
<1>1. /\ message[c].at # "free"
      /\ \/ message' = [message EXCEPT ![c].at = "queue"]
         \/ message' = [message EXCEPT ![c].at = "unacked"]
      /\ UNCHANGED <<payment, task, history, job, duplicated>>
      /\ mishaps' = 0 => mishaps = 0
  BY DEF SetupFails, Requeue, Expire, Orphan, Mishap, ConsumerInv, ConsumerTypeOK,
         processorVars, history
<1>2. \A d \in Copies : /\ message'[d].pay = message[d].pay
                        /\ message'[d].at # "free" => message[d].at # "free"
  BY <1>1 DEF ConsumerInv, ConsumerTypeOK, Message
<1>3. \A q \in Payments \ duplicated' : FewerAt(q)
  BY <1>1, <1>2 DEF FewerAt, Pending
<1>4. \A q \in Payments \ duplicated' : OneAt(q)'
  BY <1>1, <1>3, FewerIsOne
<1>5. \A v \in Workers : CallKept(v)
  BY <1>1 DEF CallKept, Owns
<1> QED
  BY <1>1, <1>4, <1>5, LoneKept

(* The only call for a payment takes a step of process().                  *)
LEMMA LoneProcess ==
  ASSUME ConsumerInv, LoneInv, NEW w \in Workers, Process(w)
  PROVE  LoneInv'
<1>1. /\ Step(w) /\ ProcessorInv /\ UNCHANGED brokerVars
      /\ task[w].pc # "idle" /\ task'[w].pc # "idle" /\ task'[w].pay = Pay(w)
      /\ \A v \in Workers : v # w => task'[v] = task[v]
      /\ Pay(w) \in Payments
      /\ \A q \in Payments : q # Pay(w) => payment'[q] = payment[q]
  BY StepStays, StepOwnRow DEF Process, ConsumerInv, Pay, OwnRow
<1>2. /\ \A q \in Payments \ duplicated : OneAt(q) /\ RowTrue(q)
      /\ LoneCalls /\ NoWaste
  BY LoneParts
<1>3. Pay(w) \notin duplicated =>
        /\ Owns(w)
        /\ LoneCallOK(w)' /\ RowTrue(Pay(w))'
        /\ LoneCharge(w) => LoneCharge(w)' \/ Pay(w) \in dbFailed'
  <2>1. PICK p \in Payments : p = Pay(w)
    BY <1>1
  <2>2. p \notin duplicated => Owns(w) /\ LoneCallOK(w) /\ RowTrue(p)
    BY <1>1, <1>2, <2>1 DEF LoneCalls
  <2>3. p \notin duplicated =>
          /\ LoneCallOK(w)' /\ RowTrue(p)'
          /\ LoneCharge(w) => LoneCharge(w)' \/ p \in dbFailed'
    BY <1>1, <2>1, <2>2, LoneStep
  <2>4. RowTrue(p)' => RowTrue(Pay(w))'
    BY <1>1, <2>1 DEF RowTrue, Pay
  <2> QED
    BY <2>1, <2>2, <2>3, <2>4
<1>4. \A q \in Payments \ duplicated' : OneAt(q)' /\ RowTrue(q)'
  <2> SUFFICES ASSUME NEW q \in Payments \ duplicated'
               PROVE  OneAt(q)' /\ RowTrue(q)'
    OBVIOUS
  <2>1. q \notin duplicated /\ message' = message /\ job' = job
    BY <1>1 DEF brokerVars
  <2>2. OneAt(q)'
    BY <1>2, <2>1 DEF OneAt, Live, Pending
  <2>3. CASE q = Pay(w)
    BY <1>1, <1>3, <2>1, <2>2, <2>3 DEF RowTrue, Pay
  <2>4. CASE q # Pay(w)
    BY <1>1, <1>2, <2>1, <2>2, <2>4, StepOwnHistory DEF RowTrue
  <2> QED
    BY <2>3, <2>4
<1>5. LoneCalls'
  <2> SUFFICES ASSUME NEW v \in Workers, task'[v].pc # "idle", Pay(v)' \notin duplicated'
               PROVE  Owns(v)' /\ LoneCallOK(v)'
    BY DEF LoneCalls
  <2>1. CASE v = w
    BY <1>1, <1>3, <2>1 DEF brokerVars, Owns, Pay
  <2>2. CASE v # w
    <3>1. /\ task'[v] = task[v] /\ job' = job /\ duplicated' = duplicated
          /\ Pay(v) \notin duplicated /\ task[v].pc # "idle"
      BY <1>1, <2>2 DEF brokerVars, Pay
    <3>2. Pay(w) # Pay(v) /\ Pay(v) \in Payments
      BY <1>1, <2>2, <3>1, OneCall, AtWork
    <3>3. Owns(v) /\ LoneCallOK(v)
      BY <1>2, <3>1 DEF LoneCalls
    <3> QED
      BY <1>1, <3>1, <3>2, <3>3 DEF LoneCallOK, RowOf, Pay, Owns
  <2> QED
    BY <2>1, <2>2
<1>6. NoWaste'
  <2> SUFFICES ASSUME mishaps' = 0, NEW q \in Payments \ (dbFailed' \cup duplicated')
               PROVE  charges'[q] = IF Charged(q)' THEN 1 ELSE 0
    BY DEF NoWaste
  <2>1. /\ mishaps = 0 /\ duplicated' = duplicated
        /\ dbFailed \subseteq dbFailed'
    <3>1. dbFailed \subseteq dbFailed'
      BY <1>1 DEF Step, Load, Gateway, Mark, Acquire, Recheck, PostAccepted, Retry,
           SendFails, SendBreaks, PostRaised, RecordDelivered, RecordFails, GiveUp,
           CleanUp, DbError, DbRaises, history
    <3> QED
      BY <1>1, <3>1 DEF brokerVars
  <2>2. charges[q] = IF Charged(q) THEN 1 ELSE 0
    BY <1>2, <2>1 DEF NoWaste
  <2>3. CASE q # Pay(w)
    <3>1. Charged(q)' <=> Charged(q)
      BY <1>1, <2>3 DEF Charged, Pay
    <3> QED
      BY <1>1, <2>1, <2>2, <2>3, <3>1, StepOwnHistory
  <2>4. CASE q = Pay(w)
    <3>1. \A v \in Workers : v # w /\ task[v].pc # "idle" => Pay(v) # q
      BY <1>1, <2>1, <2>4, OneCall
    <3>2. Charged(q) <=> ChargedBy(w)
      BY <2>4, <3>1 DEF Charged, ChargedBy, RowOf
    <3>3. Charged(q)' <=> ChargedBy(w)'
      BY <1>1, <2>4, <3>1 DEF Charged, ChargedBy, RowOf, Pay
    <3>4. LoneCharge(w)
      BY <2>2, <2>4, <3>2 DEF LoneCharge
    <3>5. LoneCharge(w)'
      BY <1>3, <2>1, <2>4, <3>4
    <3> QED
      BY <1>1, <2>1, <2>4, <3>3, <3>5 DEF LoneCharge, Pay
  <2> QED
    BY <2>3, <2>4
<1> QED
  BY <1>4, <1>5, <1>6, LoneParts

(* Time changes none of what a call knows. *)
LEMMA LoneElapses ==
  ASSUME ConsumerInv, LoneInv, Elapse
  PROVE  LoneInv'
<1>0. /\ ConsumerTypeOK /\ TypeOK
      /\ Tick /\ UNCHANGED <<history, job, mishaps, duplicated>>
      /\ \A q \in Payments \ duplicated : OneAt(q) /\ RowTrue(q)
      /\ LoneCalls /\ NoWaste
  BY LoneParts DEF ConsumerInv, ConsumerTypeOK, Elapse, Tick
<1>1. \A d \in Copies : message'[d].at = message[d].at /\ message'[d].pay = message[d].pay
  BY <1>0 DEF ConsumerTypeOK, Elapse, Message
<1>2. ASSUME NEW p \in Payments
      PROVE  /\ payment'[p].status = payment[p].status
             /\ payment'[p].delivered = payment[p].delivered
             /\ payment'[p].error = payment[p].error
  <2>1. payment[p] \in Row
    BY <1>0 DEF TypeOK
  <2> QED
    BY <1>0, <2>1 DEF Tick, Row
<1>3. ASSUME NEW v \in Workers
      PROVE  /\ task'[v].pc = task[v].pc /\ task'[v].pay = task[v].pay
             /\ task'[v].verdict = task[v].verdict
  <2>1. task[v] \in Task
    BY <1>0 DEF TypeOK
  <2> QED
    BY <1>0, <2>1 DEF Tick, Task
<1>4. \A q \in Payments \ duplicated' : OneAt(q)' /\ RowTrue(q)'
  <2> SUFFICES ASSUME NEW q \in Payments \ duplicated
               PROVE  OneAt(q)' /\ RowTrue(q)'
    BY <1>0
  <2>1. OneAt(q)'
    BY <1>0, <1>1 DEF OneAt, Live, Pending
  <2>2. RowTrue(q)'
    BY <1>0, <1>2 DEF RowTrue, history
  <2> QED
    BY <2>1, <2>2
<1>5. LoneCalls'
  <2> SUFFICES ASSUME NEW v \in Workers, task'[v].pc # "idle", Pay(v)' \notin duplicated'
               PROVE  Owns(v)' /\ LoneCallOK(v)'
    BY DEF LoneCalls
  <2>1. /\ Owns(v) /\ LoneCallOK(v) /\ Pay(v)' = Pay(v) /\ Pay(v) \in Payments
        /\ Owns(v)'
    BY <1>0, <1>3, AtWork DEF LoneCalls, Pay, Owns, ConsumerInv
  <2> QED
    BY <1>2, <1>3, <2>1 DEF LoneCallOK, RowOf
<1>6. NoWaste'
  <2>1. \A p \in Payments : Charged(p)' <=> Charged(p)
    BY <1>2, <1>3 DEF Charged, Pay
  <2> QED
    BY <1>0, <2>1 DEF NoWaste, history
<1> QED
  BY <1>4, <1>5, <1>6, LoneParts

LEMMA LoneIdle ==
  ASSUME LoneInv, UNCHANGED <<message, job, duplicated, payment, task, history>>,
         mishaps' = 0 => mishaps = 0
  PROVE  LoneInv'
<1>1. \A q \in Payments \ duplicated' : FewerAt(q)
  BY DEF FewerAt, Pending
<1>2. \A q \in Payments \ duplicated' : OneAt(q)'
  BY <1>1, FewerIsOne
<1>3. \A v \in Workers : CallKept(v)
  BY DEF CallKept, Owns
<1> QED
  BY <1>2, <1>3, LoneKept

LEMMA LoneNextKeeps ==
  ASSUME ConsumerInv, OnlyPublishedHandled, LoneInv, [ConsumerNext]_consumerVars
  PROVE  LoneInv'
<1>1. CASE UNCHANGED consumerVars
  BY <1>1, LoneIdle DEF consumerVars, processorVars, brokerVars, history
<1>2. ASSUME NEW p \in Payments, RelayPublish(p)
      PROVE  LoneInv'
  <2>1. mishaps' = 0 => mishaps = 0
    BY <1>2 DEF RelayPublish, Mishap, ConsumerInv, ConsumerTypeOK
  <2> QED
    BY <1>2, <2>1, LoneArrives DEF RelayPublish
<1> QED
  BY <1>1, <1>2, LoneTaken, LoneSettled, LoneDisposed, LoneQueued, LoneProcess,
     LoneElapses DEF ConsumerNext, Consume

LEMMA LoneInitially == ConsumerInit => LoneInv
<1> SUFFICES ASSUME ConsumerInit PROVE LoneInv
  OBVIOUS
<1>1. \A c \in Copies : message[c].at = "free"
  BY DEF ConsumerInit, NoMessage
<1>2. \A w \in Workers : task[w].pc = "idle"
  BY DEF ConsumerInit, Init, Idle, At
<1>3. \A p \in Payments : /\ heard[p] = {} /\ charges[p] = 0
                          /\ payment[p].status = "pending" /\ ~payment[p].delivered
  BY DEF ConsumerInit, Init, NewRow
<1>4. duplicated = {}
  BY DEF ConsumerInit
<1>5. \A p \in Payments : OneAt(p) /\ RowTrue(p)
  BY <1>1, <1>3 DEF OneAt, Live, RowTrue
<1>6. LoneCalls /\ NoWaste
  BY <1>2, <1>3, <1>4 DEF LoneCalls, NoWaste, Charged
<1> QED
  BY <1>5, <1>6, LoneParts

(* Mishaps are counted for good. *)
LEMMA MishapsCounted ==
  ASSUME ConsumerTypeOK, Consume, mishaps' = 0
  PROVE  mishaps = 0
<1>1. mishaps \in 0..MaxMishaps /\ ~Mishap
  BY DEF ConsumerTypeOK, Mishap
<1> QED
  BY <1>1 DEF Consume, Take, Process, Ack, Dispose, DisposeFails, Settle, Die, Drop,
     SetupFails, Requeue, Expire, brokerVars

(* Without a mishap the consumer and the broker make no second message:    *)
(* only a call that lost its delivery republishes what the broker has.     *)
LEMMA NoSecondMessage ==
  ASSUME ConsumerInv, LoneInv, Consume, duplicated = {}, mishaps' = 0
  PROVE  duplicated' = {}
<1>1. ~Mishap
  BY DEF ConsumerInv, ConsumerTypeOK, Mishap
<1>2. ASSUME NEW w \in Workers, Dispose(w)
      PROVE  duplicated' = {}
  <2>1. task[w].pc # "idle"
    BY <1>2 DEF Dispose, Failed
  <2>2. Owns(w)
    BY <2>1 DEF LoneInv
  <2> QED
    BY <1>2, <2>2 DEF Dispose, Duplicates
<1> QED
  BY <1>1, <1>2 DEF Consume, Take, Process, Ack, DisposeFails, Settle, Die, Drop,
     SetupFails, Requeue, Expire, brokerVars

-----------------------------------------------------------------------------
LEMMA ConsumerInitHolds == ConsumerInit => ConsumerInv
<1> SUFFICES ASSUME ConsumerInit PROVE ConsumerInv
  OBVIOUS
<1>1. ProcessorInv
  BY InitHolds DEF ConsumerInit
<1>2. NoMessage \in Message /\ NoJob \in Job
  BY DEF NoMessage, Message, NoJob, Job
<1>3. ConsumerTypeOK
  BY <1>1, <1>2, ConsumerAssumption DEF ConsumerInit, ConsumerTypeOK, ProcessorInv
<1>4. \A w \in Workers : JobOK(w) /\ ~Owns(w)
  BY DEF ConsumerInit, JobOK, Owns, NoJob, Init, Idle, At
<1>5. \A c \in Copies : message[c].at = "free"
  BY DEF ConsumerInit, NoMessage
<1> QED
  BY <1>1, <1>3, <1>4, <1>5 DEF ConsumerInv, NothingLost, ConsumerInit

LEMMA ConsumerNextKeeps ==
  ASSUME ConsumerInv, [ConsumerNext]_consumerVars
  PROVE  ConsumerInv'
<1>1. [Next]_processorVars
  BY ProcessorStep
<1>2. ProcessorInv'
  BY <1>1, NextKeeps DEF ConsumerInv
<1>3. ConsumerTypeOK' /\ Rest'
  <2>1. CASE UNCHANGED consumerVars
    <3>1. UNCHANGED <<brokerVars, payment, task>>
      BY <2>1 DEF consumerVars, processorVars
    <3>2. TypeOK'
      BY <1>2 DEF ProcessorInv
    <3>3. ConsumerTypeOK'
      BY <3>1, <3>2 DEF brokerVars, ConsumerInv, ConsumerTypeOK
    <3>4. Paid' /\ OneOwner' /\ Jobs' /\ NothingLost'
      BY <3>1 DEF brokerVars, ConsumerInv, Paid, OneOwner, Jobs, JobOK, Owns, Pay,
                  NothingLost, Live, Pending
    <3> QED
      BY <3>3, <3>4 DEF Rest
  <2>2. CASE ConsumerNext
    BY <1>1, <2>2, RelayPublishKeeps, TakeKeeps, ProcessKeeps, AckKeeps, DisposeKeeps,
       DisposeFailsKeeps, SettleKeeps, DieKeeps, DropKeeps, SetupFailsKeeps,
       RequeueKeeps, ExpireKeeps, ElapseKeeps DEF ConsumerNext, Consume
  <2> QED
    BY <2>1, <2>2
<1> QED
  BY <1>2, <1>3 DEF ConsumerInv, Rest, Paid, Jobs, OneOwner

(* For every number of payments, workers, messages, retries and mishaps:   *)
(* the consumer's and the processor's view of a delivery agree, and what   *)
(* _handle_retryable_error needs for NothingLost holds.                    *)
THEOREM ConsumerInvariant == ConsumerSpec => []ConsumerInv
<1>1. ConsumerInit => ConsumerInv
  BY ConsumerInitHolds
<1>2. ConsumerInv /\ [ConsumerNext]_consumerVars => ConsumerInv'
  BY ConsumerNextKeeps
<1> QED
  BY <1>1, <1>2, PTL DEF ConsumerSpec

(* A published payment is recorded as delivered, or dead-lettered, or has  *)
(* a message that is not about to be acknowledged (app/consumer.py,        *)
(* lines 54-56 and 87-117).                                                *)
THEOREM NoPaymentLost == ConsumerSpec => []NothingLost
<1>1. ConsumerInv => NothingLost
  BY DEF ConsumerInv
<1> QED
  BY <1>1, ConsumerInvariant, PTL

(* The consumer with its broker is one of the callers PaymentProcessor     *)
(* allows.                                                                 *)
THEOREM ConsumerImplementsProcessor == ConsumerSpec => Spec
<1>1. ConsumerInit => Init
  BY DEF ConsumerInit
<1>2. ConsumerInv /\ [ConsumerNext]_consumerVars => [Next]_processorVars
  BY ProcessorStep
<1> QED
  BY <1>1, <1>2, ConsumerInvariant, PTL DEF ConsumerSpec, Spec

(* So the lease, and the life of a payment, are as proved there when the   *)
(* calls of process() are made by consumers.                               *)
THEOREM ConsumerKeepsLease ==
  ConsumerSpec => []LeaseExclusion /\ ImplementsLifecycle
BY ConsumerImplementsProcessor, LeasesExclude, ProcessorImplementsLifecycle
(* Nothing is queued or handled that was not published. *)
LEMMA HandledInvariant == ConsumerSpec => []OnlyPublishedHandled
<1>1. ConsumerInv /\ OnlyPublishedHandled /\ [ConsumerNext]_consumerVars
        => OnlyPublishedHandled'
  BY HandledKept
<1> QED
  BY <1>1, HandledInitially, ConsumerInvariant, PTL DEF ConsumerSpec

(* A payment that never had a second message has one call at a time that   *)
(* knows its row, and without a mishap the gateway is asked once.          *)
THEOREM LoneInvariant == ConsumerSpec => []LoneInv
<1>1. ConsumerInv /\ OnlyPublishedHandled /\ LoneInv /\ [ConsumerNext]_consumerVars
        => LoneInv'
  BY LoneNextKeeps
<1> QED
  BY <1>1, LoneInitially, HandledInvariant, ConsumerInvariant, PTL DEF ConsumerSpec

(* Only a second message can make the merchant hear a status the payment   *)
(* does not have (processor.py:70-92 with the stale copy of the row).      *)
THEOREM TruthTold == ConsumerSpec => []TruthUnlessDuplicated
<1>1. LoneInv => TruthUnlessDuplicated
  BY DEF LoneInv
<1> QED
  BY <1>1, LoneInvariant, PTL

(* Only a second message can leave webhook_last_error on a row whose       *)
(* delivery is recorded (update_webhook_result).                           *)
THEOREM ErrorsExplained == ConsumerSpec => []ErrorMeansUndelivered
<1>1. LoneInv => ErrorMeansUndelivered
  BY DEF LoneInv
<1> QED
  BY <1>1, LoneInvariant, PTL

NoSecond == mishaps = 0 => duplicated = {}

(* Without a mishap no payment has a second message. *)
LEMMA NeverSecond == ConsumerSpec => []NoSecond
<1>1. ConsumerInit => NoSecond
  BY DEF ConsumerInit, NoSecond
<1>2. ASSUME ConsumerInv, LoneInv, NoSecond, [ConsumerNext]_consumerVars, mishaps' = 0
      PROVE  duplicated' = {}
  <2>1. mishaps \in 0..MaxMishaps /\ ~Mishap
    BY <1>2 DEF ConsumerInv, ConsumerTypeOK, Mishap
  <2>2. CASE Consume
    <3>1. mishaps = 0
      BY <1>2, <2>2, MishapsCounted DEF ConsumerInv
    <3> QED
      BY <1>2, <2>2, <3>1, NoSecondMessage DEF NoSecond
  <2>3. ASSUME NEW p \in Payments, RelayPublish(p)
        PROVE  duplicated' = {}
    BY <1>2, <2>1, <2>3 DEF RelayPublish, Arrive, NoSecond
  <2>4. CASE Elapse \/ UNCHANGED consumerVars
    BY <1>2, <2>4 DEF Elapse, consumerVars, brokerVars, NoSecond
  <2> QED
    BY <1>2, <2>2, <2>3, <2>4 DEF ConsumerNext
<1>3. ConsumerInv /\ LoneInv /\ NoSecond /\ [ConsumerNext]_consumerVars => NoSecond'
  BY <1>2 DEF NoSecond
<1> QED
  BY <1>1, <1>3, LoneInvariant, ConsumerInvariant, PTL DEF ConsumerSpec

(* Without a mishap and a failed transaction, retries never charge twice   *)
(* or for nothing (processor.py:62-92).                                    *)
THEOREM ChargesMatch == ConsumerSpec => []ChargeMatchesRow
<1>1. ConsumerInv /\ LoneInv /\ NoSecond => ChargeMatchesRow
  <2> SUFFICES ASSUME ConsumerInv, LoneInv, NoSecond, NEW p \in Payments \ dbFailed,
                      mishaps = 0, payment[p].status # "pending"
               PROVE  charges[p] = IF payment[p].status = "succeeded" THEN 1 ELSE 0
    BY DEF ChargeMatchesRow
  <2>1. charges[p] = IF Charged(p) THEN 1 ELSE 0
    BY DEF LoneInv, NoSecond
  <2>2. ASSUME NEW w \in Workers, Pay(w) = p, task[w].pc = "mark"
        PROVE  FALSE
    BY <2>2 DEF LoneInv, LoneCallOK, RowOf, NoSecond
  <2> QED
    BY <2>1, <2>2 DEF Charged
<1> QED
  BY <1>1, LoneInvariant, NeverSecond, ConsumerInvariant, PTL

(* The broker's, the handlers' and the calls' state keeps its types. *)
THEOREM ConsumerTypes == ConsumerSpec => []ConsumerTypeOK
<1>1. ConsumerInv => ConsumerTypeOK
  BY DEF ConsumerInv
<1> QED
  BY <1>1, ConsumerInvariant, PTL
=============================================================================
