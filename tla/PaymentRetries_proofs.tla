------------------------ MODULE PaymentRetries_proofs ------------------------
(***************************************************************************)
(* What the webhook lock of a dead call costs a payment: theorems about    *)
(* PatienceInv of PaymentConsumer.                                         *)
(***************************************************************************)
EXTENDS PaymentConsumer_proofs

(* PatienceInv, part by part. *)
Waits == \A c \in Copies : message[c].at # "retry" => message[c].wait = 0
Known(w) == Owns(w) => job[w].retry = message[job[w].copy].retry
Blamed(w) == task[w].pc \in {"giveup", "cleanup"} => Pay(w) \in refused \cup dbFailed
Untouched == \A p \in Payments \ published : payment[p].lock = None
Lasting == DelaysOutlastLock \/ mishaps = 0
MatchedAt(p) ==
  Blameless(p) =>
    /\ p \in dlq => mishaps > MaxRetries
    /\ \A c \in Live(p) : Pending(c) => FailuresMatched(c)

LEMMA PatienceParts ==
  /\ PatienceInv <=> /\ Waits /\ Untouched
                     /\ \A w \in Workers : Known(w) /\ Blamed(w)
                     /\ Lasting => \A p \in Payments : MatchedAt(p)
  /\ PatienceInv' <=> /\ Waits' /\ Untouched'
                      /\ \A w \in Workers : Known(w)' /\ Blamed(w)'
                      /\ Lasting' => \A p \in Payments : MatchedAt(p)'
BY DEF PatienceInv, Waits, Known, Blamed, Untouched, Lasting, MatchedAt

(* The message is as it was, and unless there was a mishap so is its call  *)
(* as far as the lock is concerned.                                        *)
Carried(c) ==
  /\ message[c].at # "free" /\ Pending(c)
  /\ message'[c].pay = message[c].pay
  /\ message'[c].retry = message[c].retry
  /\ message'[c].wait = message[c].wait
  /\ \/ mishaps' = mishaps + 1
     \/ /\ mishaps' = mishaps
        /\ \A w \in Workers :
             /\ job[w].copy = c => job'[w].copy = c /\ task'[w].id = task[w].id
             /\ job'[w].copy = c /\ task'[w].pc = "failed"
                  => job[w].copy = c /\ task[w].pc = "failed"

LEMMA CarriedMatched ==
  ASSUME ConsumerInv, payment' = payment, NEW c \in Copies, Carried(c),
         FailuresMatched(c)
  PROVE  FailuresMatched(c)'
<1>1. mishaps \in Nat /\ message[c].retry \in Nat
  BY ConsumerAssumption DEF ConsumerInv, ConsumerTypeOK, Message
<1>2. CASE mishaps' = mishaps + 1
  BY <1>1, <1>2 DEF Carried, FailuresMatched
<1>3. CASE mishaps' = mishaps
  <2>1. WayFree(c) => WayFree(c)'
    BY <1>1, <1>3 DEF Carried, WayFree
  <2> QED
    BY <1>1, <1>3, <2>1 DEF Carried, FailuresMatched
<1> QED
  BY <1>2, <1>3 DEF Carried

(* A step of the handler or the broker that is not one of process().       *)
LEMMA PatienceKept ==
  ASSUME ConsumerInv, PatienceInv, UNCHANGED <<payment, history>>,
         published \subseteq published', duplicated \subseteq duplicated',
         mishaps' = mishaps \/ mishaps' = mishaps + 1,
         Waits', \A v \in Workers : Known(v)',
         \A v \in Workers : task'[v].pc \in {"giveup", "cleanup"} => task'[v] = task[v],
         \A p \in Payments : Blameless(p)' => \A c \in Live(p)' : Pending(c)'
           => Carried(c) \/ (Lasting' => FailuresMatched(c)'),
         \A p \in Payments : p \in dlq' /\ Blameless(p)' => p \in dlq \/ (Lasting' => mishaps' > MaxRetries)
  PROVE  PatienceInv'
<1>1. mishaps \in Nat /\ MaxRetries \in Nat /\ message \in [Copies -> Message]
  BY ConsumerAssumption DEF ConsumerInv, ConsumerTypeOK
<1>2. payment' = payment /\ refused' = refused /\ dbFailed' = dbFailed
  BY DEF history
<1>3. Untouched'
  BY <1>2, PatienceParts DEF Untouched
<1>4. \A v \in Workers : Blamed(v)'
  BY <1>2, PatienceParts DEF Blamed, Pay
<1>5. ASSUME Lasting', NEW p \in Payments
      PROVE  MatchedAt(p)'
  <2> SUFFICES ASSUME Blameless(p)'
               PROVE  /\ p \in dlq' => mishaps' > MaxRetries
                      /\ \A c \in Live(p)' : Pending(c)' => FailuresMatched(c)'
    BY DEF MatchedAt
  <2>1. Lasting
    BY <1>1, <1>5 DEF Lasting, DelaysOutlastLock
  <2>2. Blameless(p) /\ MatchedAt(p)
    BY <1>2, <2>1, PatienceParts DEF Blameless
  <2>3. p \in dlq' => mishaps' > MaxRetries
    BY <1>1, <1>5, <2>2 DEF MatchedAt
  <2>4. ASSUME NEW c \in Live(p)', Pending(c)'
        PROVE  FailuresMatched(c)'
    <3>1. c \in Copies /\ message'[c].at # "free" /\ message'[c].pay = p
      BY <2>4 DEF Live
    <3>2. CASE Carried(c)
      <4>1. c \in Live(p) /\ Pending(c)
        BY <3>1, <3>2 DEF Carried, Live
      <4> QED
        BY <1>2, <2>2, <3>1, <3>2, <4>1, CarriedMatched DEF MatchedAt
    <3> QED
      BY <1>5, <2>4, <3>1, <3>2
  <2> QED
    BY <2>3, <2>4
<1> QED
  BY <1>3, <1>4, <1>5, PatienceParts

-----------------------------------------------------------------------------
(* What the steps of the broker and the handler do to waits and retries.   *)
LEMMA PatienceArrives ==
  ASSUME ConsumerInv, OnlyPublishedHandled, PatienceInv, NEW p \in Payments, Arrive(p),
         mishaps' = mishaps \/ mishaps' = mishaps + 1
  PROVE  PatienceInv'
<1>1. PICK c \in Copies : /\ message[c].at = "free"
                          /\ message' = [message EXCEPT ![c] = InQueue(p)]
  BY DEF Arrive
<1>2. /\ message'[c] = InQueue(p)
      /\ \A d \in Copies : d # c => message'[d] = message[d]
      /\ \A v \in Workers : job[v].copy # c
  <2>1. \A v \in Workers : job[v].copy # c
    BY <1>1, Deliveries, ConsumerAssumption DEF JobOK, Owns
  <2> QED
    BY <1>1, <2>1 DEF ConsumerInv, ConsumerTypeOK
<1>3. /\ message'[c].at = "queue" /\ message'[c].pay = p
      /\ message'[c].retry = 0 /\ message'[c].wait = 0
  BY <1>2 DEF InQueue
<1>4. /\ job' = job /\ task' = task /\ UNCHANGED <<payment, history>> /\ dlq' = dlq
      /\ duplicated' = duplicated \cup ({p} \cap published)
      /\ published' = published \cup {p}
  BY DEF Arrive, processorVars, history
<1>5. Waits' /\ \A v \in Workers : Known(v)'
  <2>1. Waits /\ \A v \in Workers : Known(v)
    BY PatienceParts
  <2>2. Waits'
    BY <1>2, <1>3, <2>1 DEF Waits
  <2>3. ASSUME NEW v \in Workers
        PROVE  Known(v)'
    <3>1. Owns(v) => job[v].copy \in Copies /\ job[v].copy # c
      BY <1>2, Deliveries
    <3> QED
      BY <1>2, <1>4, <2>1, <3>1 DEF Known, Owns
  <2> QED
    BY <2>2, <2>3
<1>6. ASSUME NEW q \in Payments, Blameless(q)', NEW d \in Live(q)', Pending(d)'
      PROVE  Carried(d) \/ (Lasting' => FailuresMatched(d)')
  <2>1. CASE d # c
    BY <1>2, <1>4, <1>6, <2>1 DEF Carried, Live, Pending
  <2>2. CASE d = c
    <3>1. q = p /\ payment[p].lock = None
      BY <1>3, <1>4, <1>6, <2>2, PatienceParts DEF Live, Blameless, Untouched
    <3>2. WayFree(d)'
      BY <1>3, <1>4, <2>2, <3>1 DEF WayFree
    <3>3. \A v \in Workers : job'[v].copy # d
      BY <1>2, <1>4, <2>2
    <3>4. mishaps' \in Nat
      BY ConsumerAssumption DEF ConsumerInv, ConsumerTypeOK
    <3> QED
      BY <1>3, <2>2, <3>2, <3>3, <3>4 DEF FailuresMatched
  <2> QED
    BY <2>1, <2>2
<1> QED
  BY <1>4, <1>5, <1>6, PatienceKept

LEMMA PatienceTaken ==
  ASSUME ConsumerInv, PatienceInv, NEW w \in Workers, NEW c \in Copies, Take(w, c)
  PROVE  PatienceInv'
<1>1. /\ task' = [task EXCEPT ![w] = At("load", message[c].pay)]
      /\ job' = [job EXCEPT ![w] = [stage |-> "handle", copy |-> c,
                                    retry |-> message[c].retry]]
      /\ job[w].stage = "none" /\ message[c].at = "queue"
      /\ message' = [message EXCEPT ![c].at = "unacked"]
      /\ UNCHANGED <<payment, history, mishaps, duplicated, published, dlq>>
  BY DEF Take, Begin
<1>2. /\ task'[w].pc = "load"
      /\ job'[w].copy = c /\ job'[w].stage = "handle" /\ job'[w].retry = message[c].retry
      /\ \A v \in Workers : v # w => task'[v] = task[v] /\ job'[v] = job[v]
      /\ \A d \in Copies : /\ message'[d].pay = message[d].pay
                           /\ message'[d].retry = message[d].retry
                           /\ message'[d].wait = message[d].wait
                           /\ d # c => message'[d].at = message[d].at
  BY <1>1 DEF At, ConsumerInv, ConsumerTypeOK, TypeOK, Message
<1>3. /\ \A v \in Workers : job[v].copy # c
      /\ job[w].copy = None
  BY <1>1, Deliveries, ConsumerAssumption DEF JobOK, Owns
<1>4. Waits' /\ \A v \in Workers : Known(v)'
  <2>1. Waits /\ \A v \in Workers : Known(v)
    BY PatienceParts
  <2>2. Waits'
    BY <1>1, <1>2, <2>1 DEF Waits
  <2>3. ASSUME NEW v \in Workers
        PROVE  Known(v)'
    <3>1. Owns(v) => job[v].copy \in Copies
      BY Deliveries
    <3> QED
      BY <1>2, <2>1, <3>1 DEF Known, Owns
  <2> QED
    BY <2>2, <2>3
<1>5. ASSUME NEW q \in Payments, Blameless(q)', NEW d \in Live(q)', Pending(d)'
      PROVE  Carried(d)
  <2>1. d \in Copies /\ message[d].at # "free" /\ Pending(d) /\ d # None
    BY <1>1, <1>2, <1>3, <1>5, ConsumerAssumption DEF Live, Pending
  <2> QED
    BY <1>1, <1>2, <1>3, <2>1 DEF Carried
<1> QED
  BY <1>1, <1>2, <1>4, <1>5, PatienceKept

(* The fields of a delivery that its worker settles or the broker takes    *)
(* back.                                                                   *)
LEMMA SettledFields ==
  ASSUME ConsumerInv, NEW w \in Workers, NEW at \in {"free", "queue"}, Settled(w, at),
         PatienceInv, \A v \in Workers : v # w => job'[v] = job[v],
         job'[w].copy = None
  PROVE  /\ Waits' /\ \A v \in Workers : Known(v)'
         /\ \A d \in Copies : message'[d].at # "free" =>
              /\ message[d].at # "free" /\ message'[d].pay = message[d].pay
              /\ message'[d].retry = message[d].retry
              /\ message'[d].wait = message[d].wait
<1>0. /\ message \in [Copies -> Message]
      /\ Waits /\ \A v \in Workers : Known(v)
  BY PatienceParts DEF ConsumerInv, ConsumerTypeOK
<1>1. \A d \in Copies : d # job[w].copy => message'[d] = message[d]
  BY SettledMessages
<1>2. ASSUME Owns(w)
      PROVE  /\ job[w].copy \in Copies /\ message[job[w].copy].at = "unacked"
             /\ \/ at = "free" /\ message'[job[w].copy] = NoMessage
                \/ /\ at = "queue"
                   /\ message'[job[w].copy] = [message[job[w].copy] EXCEPT !.at = "queue"]
  BY <1>0, <1>2, Deliveries DEF Settled, JobOK
<1>3. ASSUME NEW d \in Copies, message'[d].at # "free"
      PROVE  /\ message[d].at # "free" /\ message'[d].pay = message[d].pay
             /\ message'[d].retry = message[d].retry
             /\ message'[d].wait = message[d].wait
             /\ message'[d].at = "queue" \/ message'[d] = message[d]
             /\ message'[d].at = "queue" => message[d].at # "retry" \/ message'[d] = message[d]
  <2>1. message[d] \in Message
    BY <1>0
  <2>2. CASE d = job[w].copy
    <3>1. Owns(w)
      BY <2>2, ConsumerAssumption DEF Owns
    <3> QED
      BY <1>2, <1>3, <2>1, <2>2, <3>1 DEF Message, NoMessage
  <2>3. CASE d # job[w].copy
    BY <1>1, <1>3, <2>3
  <2> QED
    BY <2>2, <2>3
<1>4. Waits'
  <2> SUFFICES ASSUME NEW d \in Copies, message'[d].at # "retry"
               PROVE  message'[d].wait = 0
    BY DEF Waits
  <2>1. CASE message'[d].at # "free"
    BY <1>0, <1>3, <2>1 DEF Waits
  <2>2. CASE message'[d] = message[d]
    BY <1>0, <2>2 DEF Waits
  <2>3. CASE message'[d].at = "free" /\ d = job[w].copy
    <3>1. Owns(w)
      BY <2>3, ConsumerAssumption DEF Owns
    <3>2. message'[d] = NoMessage
      <4>1. message[d] \in Message
        BY <1>0
      <4> QED
        BY <1>2, <2>3, <3>1, <4>1 DEF Message
    <3> QED
      BY <3>2 DEF NoMessage
  <2> QED
    BY <1>1, <2>1, <2>2, <2>3
<1>5. ASSUME NEW v \in Workers
      PROVE  Known(v)'
  <2>1. CASE v = w
    BY <2>1 DEF Known, Owns
  <2>2. CASE v # w
    <3>1. Owns(v) => job[v].copy \in Copies /\ job[v].copy # job[w].copy
      BY <2>2, OthersDeliveries
    <3> QED
      BY <1>0, <1>1, <2>2, <3>1 DEF Known, Owns
  <2> QED
    BY <2>1, <2>2
<1> QED
  BY <1>3, <1>4, <1>5

(* A delivery that is settled, or lost: the message is gone, or comes back *)
(* as it was and a mishap more is counted.                                 *)
LEMMA PatienceSettled ==
  ASSUME ConsumerInv, PatienceInv, NEW w \in Workers,
         Ack(w) \/ Settle(w) \/ Die(w)
  PROVE  PatienceInv'
<1>1. /\ UNCHANGED <<payment, history, published, dlq>>
      /\ duplicated \subseteq duplicated'
      /\ \A v \in Workers : v # w => job'[v] = job[v] /\ task'[v] = task[v]
      /\ job'[w] = NoJob
      /\ mishaps' = mishaps \/ mishaps' = mishaps + 1
  BY IdleAfter DEF Ack, Settle, Die, Mishap, Finish, Crash, processorVars, history,
                   ConsumerInv, ConsumerTypeOK
<1>2. job'[w].copy = None /\ job'[w].stage = "none"
  BY <1>1 DEF NoJob
<1>3. task'[w].pc = "idle"
  <2>1. Settle(w) => task'[w] = task[w] /\ job[w].stage = "settle"
    BY DEF Settle, processorVars
  <2>2. task[w].pc = "idle" \/ job[w].stage = "handle"
    BY Deliveries DEF JobOK
  <2> QED
    BY <2>1, <2>2, IdleAfter DEF Ack, Die, ConsumerInv
<1>4. PICK at \in {"free", "queue"} :
        /\ Settled(w, at)
        /\ at = "queue" =>
             /\ mishaps' = mishaps + 1
             /\ job[w].stage = "settle" => Subject(w) \subseteq duplicated'
        /\ mishaps' = mishaps \/ at = "queue"
  BY DEF Ack, Settle, Die, Mishap
<1>5. /\ Waits' /\ \A v \in Workers : Known(v)'
      /\ \A d \in Copies : message'[d].at # "free" =>
           /\ message[d].at # "free" /\ message'[d].pay = message[d].pay
           /\ message'[d].retry = message[d].retry
           /\ message'[d].wait = message[d].wait
  BY <1>1, <1>2, <1>4, SettledFields
<1>6. ASSUME NEW q \in Payments, Blameless(q)', NEW d \in Live(q)', Pending(d)'
      PROVE  Carried(d)
  <2>1. /\ d \in Copies /\ message'[d].at # "free" /\ message'[d].pay = q
        /\ q \notin duplicated'
    BY <1>6 DEF Live, Blameless
  <2>2. d = job[w].copy => Owns(w) /\ at = "queue" /\ job[w].stage # "settle"
    <3> SUFFICES ASSUME d = job[w].copy
                 PROVE  Owns(w) /\ at = "queue" /\ job[w].stage # "settle"
      OBVIOUS
    <3>1. Owns(w)
      BY <2>1, ConsumerAssumption DEF Owns
    <3>2. at = "queue"
      BY <1>4, <2>1, <3>1, SettledMessages
    <3>3. Subject(w) = {q}
      BY <1>5, <2>1, <3>1 DEF Subject
    <3> QED
      BY <1>4, <2>1, <3>1, <3>2, <3>3
  <2>3. Pending(d)
    BY <1>1, <1>5, <1>6, <2>1, <2>2 DEF Pending
  <2>4. CASE mishaps' = mishaps + 1
    BY <1>5, <2>1, <2>3, <2>4 DEF Carried
  <2>5. CASE mishaps' = mishaps
    <3>1. d # job[w].copy
      BY <1>4, <2>2, <2>5 DEF ConsumerInv, ConsumerTypeOK
    <3> QED
      BY <1>1, <1>2, <1>5, <2>1, <2>3, <2>5, <3>1, ConsumerAssumption DEF Carried
  <2> QED
    BY <1>1, <2>4, <2>5
<1> QED
  BY <1>1, <1>3, <1>5, <1>6, PatienceKept

LEMMA PatienceDropped ==
  ASSUME ConsumerInv, PatienceInv, NEW w \in Workers, Drop(w)
  PROVE  PatienceInv'
<1>1. /\ UNCHANGED <<payment, history, published, dlq, task>>
      /\ duplicated' = duplicated \cup Subject(w)
      /\ job' = [job EXCEPT ![w].copy = None]
      /\ mishaps' = mishaps + 1 /\ Settled(w, "queue") /\ Owns(w)
  BY DEF Drop, Mishap, processorVars, history
<1>2. /\ \A v \in Workers : v # w => job'[v] = job[v]
      /\ job'[w].copy = None /\ job'[w].stage = job[w].stage
  BY <1>1 DEF ConsumerInv, ConsumerTypeOK, Job
<1>3. /\ Waits' /\ \A v \in Workers : Known(v)'
      /\ \A d \in Copies : message'[d].at # "free" =>
           /\ message[d].at # "free" /\ message'[d].pay = message[d].pay
           /\ message'[d].retry = message[d].retry
           /\ message'[d].wait = message[d].wait
  BY <1>1, <1>2, SettledFields
<1>4. ASSUME NEW q \in Payments, Blameless(q)', NEW d \in Live(q)', Pending(d)'
      PROVE  Carried(d)
  <2>1. /\ d \in Copies /\ message'[d].at # "free" /\ message'[d].pay = q
        /\ q \notin duplicated'
    BY <1>4 DEF Live, Blameless
  <2>2. d # job[w].copy
    BY <1>1, <1>3, <2>1 DEF Subject
  <2>3. Pending(d)
    BY <1>2, <1>3, <1>4, <2>1, <2>2 DEF Pending
  <2> QED
    BY <1>1, <1>3, <2>1, <2>3 DEF Carried
<1> QED
  BY <1>1, <1>3, <1>4, PatienceKept

(* What the broker does with a message leaves its wait and retry alone.    *)
LEMMA PatienceQueued ==
  ASSUME ConsumerInv, PatienceInv, NEW c \in Copies,
         SetupFails(c) \/ Requeue(c) \/ Expire(c)
  PROVE  PatienceInv'
<1>1. /\ message[c].at # "free"
      /\ \/ message' = [message EXCEPT ![c].at = "queue"]
         \/ message' = [message EXCEPT ![c].at = "unacked"]
      /\ message[c].at = "retry" => message[c].wait = 0
      /\ UNCHANGED <<payment, task, history, job, duplicated, published, dlq>>
      /\ mishaps' = mishaps \/ mishaps' = mishaps + 1
  BY DEF SetupFails, Requeue, Expire, Orphan, Mishap, processorVars, history
<1>2. \A d \in Copies : /\ message'[d].pay = message[d].pay
                        /\ message'[d].retry = message[d].retry
                        /\ message'[d].wait = message[d].wait
                        /\ message'[d].at = message[d].at \/ d = c
  BY <1>1 DEF ConsumerInv, ConsumerTypeOK, Message
<1>3. Waits' /\ \A v \in Workers : Known(v)'
  <2>1. Waits /\ \A v \in Workers : Known(v)
    BY PatienceParts
  <2>2. Waits'
    BY <1>1, <1>2, <2>1 DEF Waits
  <2>3. \A v \in Workers : Owns(v) => job[v].copy \in Copies
    BY Deliveries
  <2> QED
    BY <1>1, <1>2, <2>1, <2>2, <2>3 DEF Known, Owns
<1>4. ASSUME NEW q \in Payments, Blameless(q)', NEW d \in Live(q)', Pending(d)'
      PROVE  Carried(d)
  BY <1>1, <1>2, <1>4 DEF Carried, Live, Pending
<1> QED
  BY <1>1, <1>3, <1>4, PatienceKept

-----------------------------------------------------------------------------
(* The republication of a failed delivery. *)
LEMMA RetriedFields ==
  ASSUME ConsumerInv, PatienceInv, NEW w \in Workers, Republished(w), NEW d \in Copies
  PROVE  \/ message'[d] = message[d]
         \/ /\ message[d].at = "free" /\ job[w].retry < MaxRetries
            /\ message'[d].at = "retry" /\ message'[d].pay = Pay(w)
            /\ message'[d].retry = job[w].retry + 1
            /\ message'[d].wait = Expiration(job[w].retry + 1)
<1>1. \/ message'[d] = message[d]
      \/ /\ message[d].at = "free" /\ job[w].retry < MaxRetries
         /\ message'[d] = InRetryQueue(Pay(w), job[w].retry + 1)
  BY DEF Republished, ConsumerInv, ConsumerTypeOK
<1> QED
  BY <1>1 DEF InRetryQueue

LEMMA PatienceDisposed ==
  ASSUME ConsumerInv, LoneInv, PatienceInv, NEW w \in Workers, Dispose(w)
  PROVE  PatienceInv'
<1>1. /\ UNCHANGED <<payment, history, published, mishaps>>
      /\ duplicated' = IF Owns(w) THEN duplicated ELSE duplicated \cup {Pay(w)}
      /\ \A v \in Workers : v # w => job'[v] = job[v] /\ task'[v] = task[v]
      /\ job' = [job EXCEPT ![w].stage = "settle"]
      /\ task'[w].pc = "idle"
      /\ Failed(w) /\ Republished(w)
      /\ job[w].stage = "handle" /\ task[w].pc \in {"failed", "done"}
  BY IdleAfter DEF Dispose, Failed, Duplicates, Finish, ConsumerInv, ConsumerTypeOK
<1>2. /\ job'[w].stage = "settle" /\ job'[w].copy = job[w].copy
      /\ job'[w].retry = job[w].retry
      /\ job[w].retry \in Nat /\ mishaps \in Nat /\ MaxRetries \in Nat
      /\ Pay(w) \in Payments
  BY <1>1, ConsumerAssumption, AtWork DEF ConsumerInv, ConsumerTypeOK, Job
<1>3. ASSUME NEW d \in Copies
      PROVE  \/ message'[d] = message[d]
             \/ /\ message[d].at = "free" /\ job[w].retry < MaxRetries
                /\ message'[d].at = "retry" /\ message'[d].pay = Pay(w)
                /\ message'[d].retry = job[w].retry + 1
                /\ message'[d].wait = Expiration(job[w].retry + 1)
  BY <1>1, <1>3, RetriedFields
<1>4. Waits' /\ \A v \in Workers : Known(v)'
  <2>1. Waits /\ \A v \in Workers : Known(v)
    BY PatienceParts
  <2>2. Waits'
    BY <1>3, <2>1 DEF Waits
  <2>3. ASSUME NEW v \in Workers
        PROVE  Known(v)'
    <3>1. Owns(v) => job[v].copy \in Copies /\ message[job[v].copy].at = "unacked"
      BY Deliveries DEF JobOK
    <3>2. job'[v].copy = job[v].copy /\ job'[v].retry = job[v].retry
      BY <1>1, <1>2
    <3>3. Owns(v) => message'[job[v].copy] = message[job[v].copy]
      BY <1>3, <3>1
    <3> QED
      BY <2>1, <3>2, <3>3 DEF Known, Owns
  <2> QED
    BY <2>2, <2>3
(* Why the call failed: a mishap has left its lock behind. *)
<1>5. ASSUME NEW p \in Payments, p = Pay(w), Blameless(p)', Lasting'
      PROVE  job[w].retry < mishaps
  <2>1. Owns(w) /\ Pay(w) \notin duplicated
    BY <1>1, <1>5 DEF Blameless
  <2>2. job[w].copy \in Live(Pay(w)) /\ Pending(job[w].copy)
    BY <1>1, <2>1, OwnedPending
  <2>3. Blameless(p) /\ Lasting
    BY <1>1, <1>5 DEF Blameless, history, Lasting, DelaysOutlastLock
  <2>4. FailuresMatched(job[w].copy) /\ Known(w)
    BY <1>5, <2>2, <2>3, PatienceParts DEF MatchedAt
  <2>5. task[w].pc = "failed"
    BY <1>1, <2>1 DEF Failed
  <2> QED
    BY <1>2, <2>1, <2>3, <2>4, <2>5 DEF FailuresMatched, Known
<1>6. ASSUME NEW q \in Payments, Blameless(q)', NEW d \in Live(q)', Pending(d)', Lasting'
      PROVE  Carried(d) \/ FailuresMatched(d)'
  <2>1. d \in Copies /\ message'[d].at # "free" /\ message'[d].pay = q /\ d # job[w].copy
    BY <1>2, <1>6 DEF Live, Pending
  <2>2. CASE message'[d] = message[d]
    BY <1>1, <1>2, <1>6, <2>1, <2>2 DEF Carried, Pending
  <2>3. CASE /\ message[d].at = "free" /\ job[w].retry < MaxRetries
             /\ message'[d].at = "retry" /\ message'[d].pay = Pay(w)
             /\ message'[d].retry = job[w].retry + 1
             /\ message'[d].wait = Expiration(job[w].retry + 1)
    <3>1. /\ job[w].retry < mishaps /\ q = Pay(w)
      BY <1>5, <1>6, <2>1, <2>3
    <3>2. DelaysOutlastLock
      BY <1>1, <1>2, <1>6, <3>1 DEF Lasting, DelaysOutlastLock
    <3>3. job[w].retry + 1 \in 1..MaxRetries
      BY <1>2, <2>3
    <3>4. message'[d].wait > LockTTL /\ message'[d].wait \in Nat
      BY <2>3, <3>2, <3>3, ExpirationIsNat DEF DelaysOutlastLock
    <3>5. payment'[q].age \in Nat /\ LockTTL \in Nat
      BY <1>1, ProcessorAssumption DEF ConsumerInv, ConsumerTypeOK, TypeOK, Row
    <3>6. WayFree(d)'
      BY <2>1, <3>4, <3>5 DEF WayFree
    <3>7. \A v \in Workers : job'[v].copy # d
      <4> SUFFICES ASSUME NEW v \in Workers PROVE job'[v].copy # d
        OBVIOUS
      <4>1. job'[v].copy = job[v].copy
        BY <1>1, <1>2
      <4> QED
        BY <2>1, <2>3, <4>1, Deliveries, ConsumerAssumption DEF JobOK, Owns
    <3> QED
      BY <1>1, <1>2, <2>3, <3>1, <3>6, <3>7 DEF FailuresMatched
  <2> QED
    BY <1>3, <2>1, <2>2, <2>3
<1>7. ASSUME NEW q \in Payments, q \in dlq', Blameless(q)', Lasting'
      PROVE  q \in dlq \/ mishaps' > MaxRetries
  <2>1. q \in dlq \/ (q = Pay(w) /\ job[w].retry >= MaxRetries)
    BY <1>1, <1>7 DEF Republished
  <2> QED
    BY <1>1, <1>2, <1>5, <1>7, <2>1
<1>8. duplicated \subseteq duplicated' /\ mishaps' = mishaps /\ published' = published
  BY <1>1
<1> QED
  BY <1>1, <1>4, <1>6, <1>7, <1>8, PatienceKept

LEMMA PatienceDisposeFailed ==
  ASSUME ConsumerInv, PatienceInv, NEW w \in Workers, DisposeFails(w)
  PROVE  PatienceInv'
<1>1. /\ UNCHANGED <<payment, history, published>>
      /\ mishaps' = mishaps + 1
      /\ \A v \in Workers : v # w => job'[v] = job[v] /\ task'[v] = task[v]
      /\ job'[w] = NoJob /\ task'[w].pc = "idle" /\ job[w].stage = "handle"
      /\ \/ Republished(w) /\ duplicated' = duplicated \cup {Pay(w)}
         \/ UNCHANGED <<message, dlq, duplicated>>
  BY IdleAfter DEF DisposeFails, Mishap, Failed, Finish, ConsumerInv, ConsumerTypeOK
<1>2. job'[w].copy = None /\ job'[w].stage = "none" /\ duplicated \subseteq duplicated'
  BY <1>1 DEF NoJob
<1>3. ASSUME NEW d \in Copies
      PROVE  \/ message'[d] = message[d]
             \/ /\ message[d].at = "free" /\ message'[d].at = "retry"
                /\ message'[d].pay = Pay(w) /\ Pay(w) \in duplicated'
  <2>1. CASE Republished(w) /\ duplicated' = duplicated \cup {Pay(w)}
    BY <1>3, <2>1, RetriedFields
  <2>2. CASE message' = message
    BY <2>2
  <2> QED
    BY <1>1, <2>1, <2>2
<1>4. Waits' /\ \A v \in Workers : Known(v)'
  <2>1. Waits /\ \A v \in Workers : Known(v)
    BY PatienceParts
  <2>2. Waits'
    BY <1>3, <2>1 DEF Waits
  <2>3. ASSUME NEW v \in Workers
        PROVE  Known(v)'
    <3>1. Owns(v) => job[v].copy \in Copies /\ message[job[v].copy].at = "unacked"
      BY Deliveries DEF JobOK
    <3>2. Owns(v) => message'[job[v].copy] = message[job[v].copy]
      BY <1>3, <3>1
    <3> QED
      BY <1>1, <1>2, <2>1, <3>2 DEF Known, Owns
  <2> QED
    BY <2>2, <2>3
<1>5. ASSUME NEW q \in Payments, Blameless(q)', NEW d \in Live(q)', Pending(d)'
      PROVE  Carried(d)
  <2>1. /\ d \in Copies /\ message'[d].at # "free" /\ message'[d].pay = q
        /\ q \notin duplicated'
    BY <1>5 DEF Live, Blameless
  <2>2. message'[d] = message[d]
    BY <1>3, <2>1
  <2>3. Pending(d)
    BY <1>1, <1>5, <2>1, <2>2 DEF Pending
  <2> QED
    BY <1>1, <2>1, <2>2, <2>3 DEF Carried
<1>6. \A q \in Payments : q \in dlq' /\ Blameless(q)' => q \in dlq
  BY <1>1 DEF Republished, Blameless
<1> QED
  BY <1>1, <1>2, <1>4, <1>5, <1>6, PatienceKept

-----------------------------------------------------------------------------
(* No lock of another call is in w's way. *)
Unhindered(w) ==
  RowOf(w).lock = None \/ RowOf(w).age > LockTTL \/ task[w].id = RowOf(w).lock

(* A step of process() that leaves the row's lock as it is. *)
LEMMA UnhinderedMoves ==
  ASSUME NEW w \in Workers, task'[w].pay = Pay(w), CallOK(w),
         RowOf(w)'.lock = RowOf(w).lock, RowOf(w)'.age = RowOf(w).age,
         task'[w].id = task[w].id \/ task[w].id = None
  PROVE  Unhindered(w) => Unhindered(w)'
BY DEF Unhindered

(* A step of process() that releases the lock. *)
LEMMA UnhinderedReleases ==
  ASSUME NEW w \in Workers, NEW row \in Row,
         RowOf(w)' = Released(row, task[w].id),
         row.lock = RowOf(w).lock, row.age = RowOf(w).age
  PROVE  Unhindered(w) => Unhindered(w)'
BY DEF Unhindered, Released, Row

(* Its own step brings a call into a failure only if something accounts    *)
(* for it, or a lock was in its way.                                       *)
LEMMA FailureAccounted ==
  ASSUME ProcessorInv, NEW w \in Workers, Step(w), Blamed(w)
  PROVE  /\ refused \subseteq refused' /\ dbFailed \subseteq dbFailed'
         /\ Blamed(w)'
         /\ Unhindered(w) /\ Pay(w) \notin refused' \cup dbFailed'
              => Unhindered(w)' /\ task'[w].pc # "failed"
<1>1. /\ task'[w].pay = Pay(w) /\ Pay(w)' = Pay(w) /\ Pay(w) \in Payments
      /\ task \in [Workers -> Task] /\ task[w] \in Task
      /\ payment \in [Payments -> Row] /\ RowOf(w) \in Row /\ RowOf(w) = payment[Pay(w)]
      /\ RowOf(w)' = payment'[Pay(w)] /\ CallOK(w)
  BY StepStays, AtWork DEF Pay, RowOf, ProcessorInv, TypeOK
<1>2. CASE Load(w)
  <2>1. /\ payment' = payment /\ refused' = refused /\ dbFailed' = dbFailed
        /\ task[w].id = None
    BY <1>1, <1>2 DEF Load, history, CallOK, InLease
  <2>2. task'[w].pc \in {"done", "acquire", "gateway"}
    BY <1>1, <1>2 DEF Load, End, At, Task
  <2> QED
    BY <1>1, <2>1, <2>2, UnhinderedMoves DEF Blamed
<1>3. CASE Gateway(w)
  <2>1. /\ payment' = payment /\ refused' = refused /\ dbFailed' = dbFailed
        /\ task[w].id = None
    BY <1>1, <1>3 DEF Gateway, CallOK, InLease
  <2>2. task'[w].pc = "mark"
    BY <1>1, <1>3 DEF Gateway, Task
  <2> QED
    BY <1>1, <2>1, <2>2, UnhinderedMoves DEF Blamed
<1>4. CASE Mark(w)
  <2>1. /\ refused' = refused /\ dbFailed' = dbFailed /\ task[w].id = None
        /\ task[w].verdict \in Outcomes
    BY <1>1, <1>4 DEF Mark, history, CallOK, InLease
  <2>2. task'[w].pc \in {"done", "acquire"}
    BY <1>1, <1>4 DEF Mark, End, Goto, At, Task
  <2>3. payment'[Pay(w)] = Processed(RowOf(w), task[w].verdict)
    BY <1>1, <1>4, RowWritten DEF Mark
  <2>4. RowOf(w)'.lock = RowOf(w).lock /\ RowOf(w)'.age = RowOf(w).age
    BY <1>1, <2>3 DEF Processed, Row
  <2> QED
    BY <1>1, <2>1, <2>2, <2>4, UnhinderedMoves DEF Blamed
<1>5. CASE Acquire(w)
  <2>1. /\ refused' = refused /\ dbFailed' = dbFailed /\ task[w].id = None
    BY <1>1, <1>5 DEF Acquire, history, CallOK, InLease
  <2>2. ASSUME NEW id \in FreshIds, CanLock(RowOf(w), id),
               Update(w, Locked(RowOf(w), id)),
               task' = [task EXCEPT ![w].pc = "recheck", ![w].id = id]
        PROVE  Unhindered(w)' /\ task'[w].pc = "recheck"
    <3>1. payment'[Pay(w)] = Locked(RowOf(w), id)
      BY <1>1, <2>2, RowWritten
    <3>2. RowOf(w)'.lock = id
      BY <1>1, <3>1 DEF Locked, Row
    <3>3. task'[w] = [[task[w] EXCEPT !.pc = "recheck"] EXCEPT !.id = id]
      BY <1>1, <2>2
    <3>4. task'[w].pc = "recheck" /\ task'[w].id = id
      BY <1>1, <3>3 DEF Task
    <3> QED
      BY <3>2, <3>4 DEF Unhindered
  <2>3. ASSUME NEW id \in FreshIds, ~CanLock(RowOf(w), id), End(w, "failed")
        PROVE  ~Unhindered(w) /\ task'[w].pc = "failed"
    <3>1. task'[w].pc = "failed"
      BY <1>1, <2>3 DEF End, At
    <3>2. RowOf(w).lock # None /\ ~(RowOf(w).age > LockTTL)
      BY <2>3 DEF CanLock
    <3> QED
      BY <2>1, <3>1, <3>2 DEF Unhindered
  <2>4. \/ Unhindered(w)' /\ task'[w].pc = "recheck"
        \/ ~Unhindered(w) /\ task'[w].pc = "failed"
    BY <1>5, <2>2, <2>3 DEF Acquire
  <2> QED
    BY <2>1, <2>4 DEF Blamed
<1>6. CASE Recheck(w)
  <2>1. refused' = refused /\ dbFailed' = dbFailed
    BY <1>6 DEF Recheck, history
  <2>2. CASE Update(w, Released(RowOf(w), task[w].id)) /\ End(w, "done")
    <3>1. RowOf(w)' = Released(RowOf(w), task[w].id)
      BY <1>1, <2>2, RowWritten
    <3>2. task'[w].pc = "done"
      BY <1>1, <2>2 DEF End, At
    <3> QED
      BY <1>1, <2>1, <3>1, <3>2, UnhinderedReleases DEF Blamed
  <2>3. CASE /\ task' = [task EXCEPT ![w].pc = "send", ![w].attempt = 1]
             /\ payment' = payment
    <3>1. task'[w] = [[task[w] EXCEPT !.pc = "send"] EXCEPT !.attempt = 1]
      BY <1>1, <2>3
    <3>2. task'[w].pc = "send" /\ task'[w].id = task[w].id
      BY <1>1, <3>1 DEF Task
    <3> QED
      BY <1>1, <2>1, <2>3, <3>2, UnhinderedMoves DEF Blamed
  <2> QED
    BY <1>6, <2>2, <2>3 DEF Recheck
<1>7. CASE PostAccepted(w)
  <2>1. /\ payment' = payment /\ refused' = refused /\ dbFailed' = dbFailed
        /\ task'[w] = [task[w] EXCEPT !.pc = "record"]
    BY <1>1, <1>7 DEF PostAccepted, Goto
  <2>2. task'[w].pc = "record" /\ task'[w].id = task[w].id
    BY <1>1, <2>1 DEF Task
  <2> QED
    BY <1>1, <2>1, <2>2, UnhinderedMoves DEF Blamed
<1>8. CASE Retry(w) \/ SendFails(w) \/ SendBreaks(w)
  BY <1>1, <1>8 DEF Retry, SendFails, SendBreaks, PostRaised, Blamed
<1>9. CASE RecordFails(w) \/ DbError(w)
  BY <1>1, <1>9 DEF RecordFails, DbError, DbRaises, Blamed
<1>10. CASE RecordDelivered(w)
  <2>1. refused' = refused /\ dbFailed' = dbFailed
    BY <1>10 DEF RecordDelivered, history
  <2>2. task'[w].pc = "done"
    BY <1>1, <1>10 DEF RecordDelivered, End, At
  <2>3. RowOf(w)' = Released(Delivered(RowOf(w)), task[w].id)
    BY <1>1, <1>10, RowWritten DEF RecordDelivered
  <2>4. /\ Delivered(RowOf(w)) \in Row
        /\ Delivered(RowOf(w)).lock = RowOf(w).lock
        /\ Delivered(RowOf(w)).age = RowOf(w).age
    BY <1>1 DEF Delivered, Row
  <2> QED
    BY <2>1, <2>2, <2>3, <2>4, UnhinderedReleases DEF Blamed
<1>11. CASE GiveUp(w) \/ CleanUp(w)
  <2>1. refused' = refused /\ dbFailed' = dbFailed /\ Pay(w) \in refused \cup dbFailed
    BY <1>11 DEF GiveUp, CleanUp, history, Blamed
  <2> QED
    BY <1>1, <2>1 DEF Blamed
<1> QED
  BY <1>2, <1>3, <1>4, <1>5, <1>6, <1>7, <1>8, <1>9, <1>10, <1>11 DEF Step

(* A step of a call leaves what other calls' messages meet alone, and its  *)
(* own message meets no lock it met before.                                *)
LEMMA PatienceProcess ==
  ASSUME ConsumerInv, OnlyPublishedHandled, LoneInv, PatienceInv,
         NEW w \in Workers, Process(w)
  PROVE  PatienceInv'
<1>1. /\ Step(w) /\ ProcessorInv
      /\ UNCHANGED <<message, job, dlq, published, mishaps, duplicated>>
      /\ task[w].pc # "idle" /\ task'[w].pay = Pay(w)
      /\ \A v \in Workers : v # w => task'[v] = task[v]
      /\ Pay(w) \in Payments
      /\ \A q \in Payments : q # Pay(w) => payment'[q] = payment[q]
  BY StepStays, StepOwnRow DEF Process, ConsumerInv, Pay, OwnRow, brokerVars
<1>2. Waits /\ Untouched /\ \A v \in Workers : Known(v) /\ Blamed(v)
  BY PatienceParts
<1>3. /\ refused \subseteq refused' /\ dbFailed \subseteq dbFailed'
      /\ Blamed(w)'
      /\ Unhindered(w) /\ Pay(w) \notin refused' \cup dbFailed'
           => Unhindered(w)' /\ task'[w].pc # "failed"
  BY <1>1, <1>2, FailureAccounted
<1>4. Waits' /\ \A v \in Workers : Known(v)' /\ Blamed(v)'
  <2>1. Waits' /\ \A v \in Workers : Known(v)'
    BY <1>1, <1>2 DEF Waits, Known, Owns
  <2>2. \A v \in Workers : v # w => Blamed(v)'
    BY <1>1, <1>2, <1>3 DEF Blamed, Pay
  <2> QED
    BY <1>3, <2>1, <2>2
<1>5. Untouched'
  <2>1. Pay(w) \in published
    BY <1>1, ProcessorAssumption DEF OnlyPublishedHandled
  <2> QED
    BY <1>1, <1>2, <2>1 DEF Untouched
<1>6. ASSUME Lasting', NEW q \in Payments, Blameless(q)'
      PROVE  /\ Blameless(q)
             /\ q \in dlq' => mishaps' > MaxRetries
             /\ \A c \in Live(q) : Pending(c) => FailuresMatched(c)
  <2>1. Lasting /\ Blameless(q)
    BY <1>1, <1>3, <1>6 DEF Lasting, DelaysOutlastLock, Blameless
  <2> QED
    BY <1>1, <2>1, PatienceParts DEF MatchedAt
<1>7. ASSUME Lasting', NEW q \in Payments, Blameless(q)', NEW c \in Live(q), Pending(c)
      PROVE  FailuresMatched(c)'
  <2>1. /\ c \in Copies /\ message[c].at # "free" /\ message[c].pay = q
        /\ FailuresMatched(c)
    BY <1>6, <1>7 DEF Live
  <2>2. CASE q # Pay(w)
    <3>1. job[w].copy # c
      BY <1>1, <2>1, <2>2, Deliveries, ConsumerAssumption DEF JobOK, Owns
    <3>2. /\ payment'[q] = payment[q]
          /\ \A v \in Workers : job[v].copy = c => task'[v] = task[v]
      BY <1>1, <2>2, <3>1
    <3>3. WayFree(c) => WayFree(c)'
      BY <1>1, <2>1, <3>2 DEF WayFree
    <3> QED
      BY <1>1, <2>1, <3>2, <3>3 DEF FailuresMatched
  <2>3. CASE q = Pay(w)
    <3>1. /\ q \notin duplicated /\ q \notin refused' \cup dbFailed'
      BY <1>1, <1>7 DEF Blameless
    <3>2. Owns(w)
      BY <1>1, <2>3, <3>1 DEF LoneInv
    <3>3. job[w].copy \in Live(q) /\ Pending(job[w].copy)
      BY <1>1, <2>3, <3>2, OwnedPending
    <3>4. c = job[w].copy
      BY <1>7, <3>1, <3>3 DEF LoneInv
    <3>5. /\ message[c].wait = 0
          /\ \A v \in Workers : job[v].copy = c => v = w
      BY <1>2, <2>1, <3>2, <3>4, Deliveries DEF Waits, JobOK, ConsumerInv
    <3>6. /\ payment[q].age \in Nat /\ payment'[q].age \in Nat
      <4>1. TypeOK /\ TypeOK'
        BY <1>1, StepKeeps DEF ProcessorInv
      <4> QED
        BY <4>1, ProcessorAssumption DEF TypeOK, Row
    <3>7. WayFree(c) => Unhindered(w)
      BY <2>1, <2>3, <3>5, <3>6 DEF WayFree, Unhindered, RowOf
    <3>8. Unhindered(w)' => WayFree(c)'
      BY <1>1, <2>1, <2>3, <3>4, <3>5, <3>6 DEF WayFree, Unhindered, RowOf, Pay
    <3> QED
      BY <1>1, <1>3, <2>1, <2>3, <3>1, <3>5, <3>7, <3>8 DEF FailuresMatched
  <2> QED
    BY <2>2, <2>3
<1>8. ASSUME Lasting', NEW q \in Payments
      PROVE  MatchedAt(q)'
  BY <1>1, <1>6, <1>7, <1>8 DEF MatchedAt, Live, Pending
<1> QED
  BY <1>4, <1>5, <1>8, PatienceParts

(* Time lets a lock grow old as fast as it lets a retry come back. *)
LEMMA PatienceElapses ==
  ASSUME ConsumerInv, PatienceInv, Elapse
  PROVE  PatienceInv'
<1>1. /\ TypeOK /\ message \in [Copies -> Message]
      /\ Tick /\ UNCHANGED <<history, job, dlq, published, mishaps, duplicated>>
      /\ Waits /\ Untouched /\ \A v \in Workers : Known(v) /\ Blamed(v)
  BY PatienceParts DEF ConsumerInv, ConsumerTypeOK, Elapse, Tick
<1>2. ASSUME NEW c \in Copies
      PROVE  /\ message'[c].at = message[c].at /\ message'[c].pay = message[c].pay
             /\ message'[c].retry = message[c].retry
             /\ message[c].wait = 0 => message'[c].wait = 0
             /\ message[c].wait # 0 => message'[c].wait = message[c].wait - 1
             /\ message[c].wait \in Nat
  <2>1. message[c] \in Message
    BY <1>1
  <2> QED
    BY <2>1 DEF Elapse, Message
<1>3. ASSUME NEW p \in Payments
      PROVE  /\ payment'[p].lock = payment[p].lock
             /\ payment[p].lock # None => payment'[p].age = Older(payment[p].age)
             /\ payment[p].age \in Nat
  <2>1. payment[p] \in Row
    BY <1>1 DEF TypeOK
  <2> QED
    BY <1>1, <2>1, ProcessorAssumption DEF Tick, Row
<1>4. ASSUME NEW v \in Workers
      PROVE  /\ task'[v].pc = task[v].pc /\ task'[v].pay = task[v].pay
             /\ task'[v].id = task[v].id
  <2>1. task[v] \in Task
    BY <1>1 DEF TypeOK
  <2> QED
    BY <1>1, <2>1 DEF Tick, Task
<1>5. Waits' /\ Untouched' /\ \A v \in Workers : Known(v)' /\ Blamed(v)'
  <2>1. Waits' /\ Untouched'
    BY <1>1, <1>2, <1>3 DEF Waits, Untouched
  <2>2. ASSUME NEW v \in Workers
        PROVE  Known(v)' /\ Blamed(v)'
    BY <1>1, <1>2, <1>4, Deliveries DEF Known, Owns, Blamed, Pay, history
  <2> QED
    BY <2>1, <2>2
<1>6. ASSUME NEW p \in Payments, NEW c \in Live(p), FailuresMatched(c)
      PROVE  FailuresMatched(c)'
  <2>1. c \in Copies /\ message[c].pay = p
    BY <1>6 DEF Live
  <2>2. WayFree(c) => WayFree(c)'
    <3>1. CASE payment[p].lock = None
      BY <1>2, <1>3, <2>1, <3>1 DEF WayFree
    <3>2. CASE payment[p].lock # None /\ payment[p].age + message[c].wait > LockTTL
      <4>1. payment'[p].age = Older(payment[p].age)
        BY <1>3, <3>2
      <4>2. payment'[p].age + message'[c].wait > LockTTL
        BY <1>2, <1>3, <2>1, <3>2, <4>1, ProcessorAssumption DEF Older, MinOf
      <4> QED
        BY <1>2, <2>1, <4>2 DEF WayFree
    <3>3. CASE \E v \in Workers : job[v].copy = c /\ task[v].id = payment[p].lock
      BY <1>1, <1>2, <1>3, <1>4, <2>1, <3>3 DEF WayFree
    <3> QED
      BY <2>1, <3>1, <3>2, <3>3 DEF WayFree
  <2> QED
    BY <1>1, <1>2, <1>4, <1>6, <2>1, <2>2 DEF FailuresMatched
<1>7. ASSUME Lasting', NEW p \in Payments
      PROVE  MatchedAt(p)'
  <2>1. Lasting /\ MatchedAt(p)
    BY <1>1, <1>7, PatienceParts DEF Lasting, DelaysOutlastLock
  <2>2. Blameless(p)' <=> Blameless(p)
    BY <1>1 DEF Blameless, history
  <2>3. \A c \in Copies : /\ c \in Live(p)' <=> c \in Live(p)
                          /\ Pending(c)' <=> Pending(c)
    BY <1>1, <1>2 DEF Live, Pending
  <2>4. Live(p)' \subseteq Copies
    BY DEF Live
  <2> QED
    BY <1>1, <1>6, <2>1, <2>2, <2>3, <2>4 DEF MatchedAt
<1> QED
  BY <1>5, <1>7, PatienceParts

LEMMA PatienceIdle ==
  ASSUME ConsumerInv, PatienceInv,
         UNCHANGED <<message, job, dlq, published, duplicated, payment, task, history>>,
         mishaps' = mishaps \/ mishaps' = mishaps + 1
  PROVE  PatienceInv'
<1>1. Waits' /\ \A v \in Workers : Known(v)'
  BY PatienceParts DEF Waits, Known, Owns
<1>2. \A q \in Payments : \A c \in Live(q)' : Pending(c)' => Carried(c)
  BY DEF Carried, Live, Pending
<1> QED
  BY <1>1, <1>2, PatienceKept

LEMMA PatienceConsume ==
  ASSUME ConsumerInv, OnlyPublishedHandled, LoneInv, PatienceInv, Consume
  PROVE  PatienceInv'
BY PatienceTaken, PatienceProcess, PatienceSettled, PatienceDropped, PatienceDisposed,
   PatienceDisposeFailed, PatienceQueued DEF Consume

LEMMA PatienceNextKeeps ==
  ASSUME ConsumerInv, OnlyPublishedHandled, LoneInv, PatienceInv,
         [ConsumerNext]_consumerVars
  PROVE  PatienceInv'
<1>1. CASE UNCHANGED consumerVars
  BY <1>1, PatienceIdle DEF consumerVars, processorVars, brokerVars, history
<1>2. ASSUME NEW p \in Payments, RelayPublish(p)
      PROVE  PatienceInv'
  BY <1>2, PatienceArrives DEF RelayPublish, Mishap
<1> QED
  BY <1>1, <1>2, PatienceConsume, PatienceElapses DEF ConsumerNext

LEMMA PatienceInitially == ConsumerInit => PatienceInv
<1> SUFFICES ASSUME ConsumerInit PROVE PatienceInv
  OBVIOUS
<1>1. \A c \in Copies : message[c].at = "free" /\ message[c].wait = 0
  BY DEF ConsumerInit, NoMessage
<1>2. \A w \in Workers : ~Owns(w) /\ task[w].pc = "idle"
  BY DEF ConsumerInit, Owns, NoJob, Init, Idle, At
<1>3. \A p \in Payments : payment[p].lock = None
  BY DEF ConsumerInit, Init, NewRow
<1>4. dlq = {} /\ \A p \in Payments : Live(p) = {}
  BY <1>1 DEF ConsumerInit, Live
<1> QED
  BY <1>1, <1>2, <1>3, <1>4 DEF PatienceInv

-----------------------------------------------------------------------------
(* Each failed delivery of a payment for which no webhook, transaction or  *)
(* second message accounts has a mishap of its own, as long as the delays  *)
(* outlast the lock (retry.py, config.py:36-46), or there was no mishap.   *)
THEOREM PatienceInvariant == ConsumerSpec => []PatienceInv
<1>1. ConsumerInv /\ OnlyPublishedHandled /\ LoneInv /\ PatienceInv
        /\ [ConsumerNext]_consumerVars => PatienceInv'
  BY PatienceNextKeeps
<1> QED
  BY <1>1, PatienceInitially, LoneInvariant, HandledInvariant, ConsumerInvariant, PTL
  DEF ConsumerSpec

(* So a consumer with delays longer than webhook_lock_ttl_seconds survives *)
(* consumer_retry_attempts crashes and lost connections without giving up  *)
(* a payment that could be delivered, unless its message is duplicated.    *)
THEOREM RetriesOutlastMishaps ==
  ConsumerSpec =>
    [](DelaysOutlastLock /\ mishaps <= MaxRetries
         => dlq \subseteq refused \cup dbFailed \cup duplicated)
<1>1. ConsumerInv /\ PatienceInv =>
        (DelaysOutlastLock /\ mishaps <= MaxRetries
           => dlq \subseteq refused \cup dbFailed \cup duplicated)
  BY ConsumerAssumption DEF ConsumerInv, ConsumerTypeOK, PatienceInv, Blameless
<1> QED
  BY <1>1, PatienceInvariant, ConsumerInvariant, PTL

(* And whatever the settings: where nothing crashes and no connection is   *)
(* lost, what is dead-lettered could not be delivered (README, line 68).   *)
THEOREM DeadLettersExplained == ConsumerSpec => [](mishaps = 0 => DeadLetterHasCause)
<1>1. ConsumerInv /\ PatienceInv /\ NoSecond => (mishaps = 0 => DeadLetterHasCause)
  BY ConsumerAssumption
  DEF ConsumerInv, ConsumerTypeOK, PatienceInv, Blameless, NoSecond, DeadLetterHasCause
<1> QED
  BY <1>1, PatienceInvariant, NeverSecond, ConsumerInvariant, PTL
=============================================================================
