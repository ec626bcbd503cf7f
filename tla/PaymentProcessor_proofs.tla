----------------------- MODULE PaymentProcessor_proofs -----------------------
(***************************************************************************)
(* ProcessorInv is inductive, and what follows from it, for every number   *)
(* of payments and workers and every LockTTL.                              *)
(***************************************************************************)
EXTENDS PaymentProcessor, TLAPS

(* What a step of worker w, with lock id "id", may do to its row: the      *)
(* status and the delivery are never taken back, the lock changes only if  *)
(* it is free, the worker's own or stale.                                  *)
RowAdvances(old, new, id) ==
  /\ old.status # "pending" => new.status = old.status
  /\ old.delivered => new.delivered
  /\ \/ new.lock = old.lock /\ new.age = old.age
     \/ old.lock \in {None, id}
     \/ old.age > LockTTL

(* A step of worker w on payment p leaves the others alone. *)
Concerns(w, p) ==
  /\ payment' \in [Payments -> Row]
  /\ task' \in [Workers -> Task]
  /\ \A q \in Payments : q # p => payment'[q] = payment[q]
  /\ \A v \in Workers : v # w => task'[v] = task[v]
  /\ RowAdvances(payment[p], payment'[p], task[w].id)
  /\ task'[w].id \in {None, task[w].id} \cup FreshIds

HistoryOK ==
  /\ charges' \in [Payments -> 0..2]
  /\ heard' \in [Payments -> SUBSET Statuses]
  /\ refused' \subseteq Payments
  /\ dbFailed' \subseteq Payments

(* Whoever takes a step: if its own task, its row and the history are in   *)
(* order afterwards, so is everything else.                                *)
LEMMA OthersUndisturbed ==
  ASSUME ProcessorInv, NEW w \in Workers, NEW p \in Payments,
         Concerns(w, p), HistoryOK,
         \A q \in Payments : heard[q] \subseteq heard'[q],
         CallOK(w)', LeaseOK(w)', ToldOnlySettled',
         task'[w].pc = "done" => payment'[Pay(w)'].delivered /\ Pay(w)' \in Payments
  PROVE  ProcessorInv'
<1>1. TypeOK'
  BY DEF Concerns, HistoryOK, TypeOK
<1>2. ASSUME NEW v \in Workers, v # w
      PROVE  CallOK(v)' /\ LeaseOK(v)'
  <2>1. task'[v] = task[v] /\ task[v] \in Task /\ CallOK(v) /\ LeaseOK(v)
    BY <1>2 DEF Concerns, ProcessorInv, TypeOK
  <2>2. CASE Pay(v) \notin Payments
    <3>1. task[v].pc = "idle"
      BY <2>1, <2>2 DEF CallOK, Pay, Task
    <3> QED
      BY <2>1, <3>1 DEF CallOK, LeaseOK, Pay, RowOf, InLease
  <2>3. CASE Pay(v) \in Payments /\ Pay(v) # p
    <3>1. payment'[Pay(v)] = payment[Pay(v)]
      BY <2>3 DEF Concerns
    <3>2. heard[Pay(v)] \subseteq heard'[Pay(v)]
      BY <2>3
    <3> QED
      BY <2>1, <3>1, <3>2 DEF CallOK, LeaseOK, Pay, RowOf
  <2>4. CASE Pay(v) = p
    <3>1. CallOK(v)'
      BY <2>1, <2>4 DEF Concerns, RowAdvances, CallOK, Pay, RowOf
    <3>2. ASSUME task[v].pc \in InLease, task[v].held <= LockTTL
          PROVE  payment'[p].lock = task[v].id /\ payment'[p].age = task[v].held
      <4>1. payment[p].lock = task[v].id /\ payment[p].age = task[v].held
        BY <2>1, <2>4, <3>2 DEF LeaseOK, Pay, RowOf
      <4>2. task[v].id # None /\ task[v].id # task[w].id
        BY <1>2, <2>1, <3>2 DEF CallOK, ProcessorInv, IdsDistinct
      <4>3. ~(payment[p].age > LockTTL)
        BY <3>2, <4>1, <2>1, ProcessorAssumption DEF Task
      <4> QED
        BY <4>1, <4>2, <4>3 DEF Concerns, RowAdvances
    <3> QED
      BY <2>1, <2>4, <3>1, <3>2 DEF LeaseOK, Pay, RowOf
  <2> QED
    BY <2>2, <2>3, <2>4
<1>3. \A v \in Workers : CallOK(v)' /\ LeaseOK(v)'
  BY <1>2
<1>4. IdsDistinct'
  <2>1. \A v \in Workers : v # w => task'[v].id = task[v].id
    BY DEF Concerns
  <2>2. \A v \in Workers : v # w /\ task[v].id # None => task'[w].id # task[v].id
    BY DEF Concerns, FreshIds, ProcessorInv, IdsDistinct
  <2> QED
    BY <2>1, <2>2 DEF ProcessorInv, IdsDistinct
<1>5. DoneMeansDelivered'
  <2>1. ASSUME NEW v \in Workers, task'[v].pc = "done"
        PROVE  payment'[Pay(v)'].delivered /\ Pay(v)' \in Payments
    <3>1. CASE v = w
      BY <2>1, <3>1
    <3>2. CASE v # w
      <4>1. task'[v] = task[v] /\ task[v] \in Task /\ CallOK(v) /\ payment[Pay(v)].delivered
        BY <2>1, <3>2 DEF Concerns, ProcessorInv, TypeOK, DoneMeansDelivered, RowOf
      <4>2. Pay(v) \in Payments
        BY <2>1, <4>1 DEF CallOK, Pay, Task
      <4> QED
        BY <4>1, <4>2 DEF Concerns, RowAdvances, Pay
    <3> QED
      BY <3>1, <3>2
  <2> QED
    BY <2>1 DEF DoneMeansDelivered, ToldOnlySettled, RowOf
<1> QED
  BY <1>1, <1>3, <1>4, <1>5 DEF ProcessorInv

-----------------------------------------------------------------------------
(* One lemma per step of process(): each makes its own part true again.    *)

(* The row and the task a step of process() starts from. *)
LEMMA AtWork ==
  ASSUME ProcessorInv, NEW w \in Workers, task[w].pc # "idle"
  PROVE  /\ Pay(w) \in Payments
         /\ RowOf(w) \in Row
         /\ task[w] \in Task
         /\ heard[Pay(w)] \subseteq Statuses
         /\ CallOK(w) /\ LeaseOK(w)
<1>1. task[w] \in Task /\ CallOK(w) /\ LeaseOK(w)
  BY DEF ProcessorInv, TypeOK
<1>2. Pay(w) \in Payments
  BY <1>1 DEF CallOK, Pay, Task
<1> QED
  BY <1>1, <1>2 DEF ProcessorInv, TypeOK, RowOf

LEMMA BeginKeeps ==
  ASSUME ProcessorInv, NEW w \in Workers, NEW p \in Payments, Begin(w, p)
  PROVE  ProcessorInv'
<1>1. At("load", p) \in Task
  BY ProcessorAssumption DEF At, Task, Running, InLease, Statuses, Outcomes
<1>2. task'[w] = At("load", p)
  BY DEF Begin, ProcessorInv, TypeOK
<1>3. Concerns(w, p)
  BY <1>1 DEF Begin, ProcessorInv, TypeOK, Concerns, RowAdvances, history, At
<1>4. HistoryOK /\ heard' = heard
  BY DEF Begin, ProcessorInv, TypeOK, HistoryOK, history
<1>5. CallOK(w)' /\ LeaseOK(w)' /\ task'[w].pc # "done"
  BY <1>2, ProcessorAssumption DEF CallOK, LeaseOK, Pay, RowOf, At, InLease
<1>6. ToldOnlySettled'
  BY DEF Begin, ProcessorInv, ToldOnlySettled, history
<1> QED
  BY <1>3, <1>4, <1>5, <1>6, OthersUndisturbed

LEMMA LoadKeeps ==
  ASSUME ProcessorInv, NEW w \in Workers, Load(w)
  PROVE  ProcessorInv'
<1> DEFINE p == Pay(w)
<1>1. /\ task[w].pc = "load" /\ p \in Payments /\ RowOf(w) \in Row
      /\ task[w] \in Task /\ CallOK(w)
  BY AtWork DEF Load
<1>2. /\ task'[w] \in Task
      /\ task'[w].pay = p
      /\ task'[w].id = None /\ task'[w].held = 0
      /\ task'[w].pc \in {"acquire", "gateway", "done"}
      /\ task'[w].pc \in {"acquire", "done"} => RowOf(w).status # "pending"
      /\ task'[w].pc = "done" => RowOf(w).delivered
      /\ task'[w].seen => RowOf(w).delivered
  <2>1. ASSUME NEW pc \in {"acquire", "gateway"},
               task' = [task EXCEPT ![w].pc = pc, ![w].verdict = RowOf(w).status,
                                    ![w].seen = RowOf(w).delivered]
        PROVE  /\ task'[w] \in Task /\ task'[w].pc = pc /\ task'[w].pay = p
               /\ task'[w].id = None /\ task'[w].held = 0
               /\ task'[w].seen = RowOf(w).delivered
    <3>1. task'[w] = [task[w] EXCEPT !.pc = pc, !.verdict = RowOf(w).status,
                                     !.seen = RowOf(w).delivered]
      BY <2>1 DEF ProcessorInv, TypeOK
    <3>2. task[w].id = None /\ task[w].held = 0
      BY <1>1 DEF CallOK, InLease
    <3> QED
      BY <1>1, <3>1, <3>2 DEF Pay, Task, Row, Running
  <2>2. ASSUME End(w, "done")
        PROVE  task'[w] = At("done", p) /\ At("done", p) \in Task
    BY <1>1, <2>2, ProcessorAssumption
    DEF End, At, Task, Ended, Statuses, ProcessorInv, TypeOK
  <2>3. task'[w].pc = "done" => task'[w] = At("done", p)
    BY <2>1, <2>2 DEF Load
  <2> QED
    BY <1>1, <2>1, <2>2, <2>3 DEF Load, At
<1>3. payment' = payment /\ heard' = heard
  BY DEF Load, history
<1>4. Concerns(w, p)
  BY <1>1, <1>2, <1>3
  DEF Load, End, ProcessorInv, TypeOK, Concerns, RowAdvances
<1>5. HistoryOK
  BY DEF Load, ProcessorInv, TypeOK, HistoryOK, history
<1>6. CallOK(w)' /\ LeaseOK(w)'
  BY <1>1, <1>2, <1>3, ProcessorAssumption DEF CallOK, LeaseOK, Pay, RowOf, InLease
<1>7. ToldOnlySettled'
  BY <1>3 DEF ProcessorInv, ToldOnlySettled
<1> QED
  BY <1>1, <1>2, <1>3, <1>4, <1>5, <1>6, <1>7, OthersUndisturbed DEF Pay, RowOf

LEMMA GatewayKeeps ==
  ASSUME ProcessorInv, NEW w \in Workers, Gateway(w)
  PROVE  ProcessorInv'
<1> DEFINE p == Pay(w)
<1>1. /\ task[w].pc = "gateway" /\ p \in Payments /\ RowOf(w) \in Row
      /\ task[w] \in Task /\ CallOK(w)
  BY AtWork DEF Gateway
<1>2. /\ task'[w] \in Task
      /\ task'[w].pay = p
      /\ task'[w].id = None /\ task'[w].held = 0
      /\ task'[w].pc = "mark"
      /\ task'[w].verdict \in Outcomes
      /\ task'[w].seen = task[w].seen
  <2>1. PICK s \in Outcomes : task' = [task EXCEPT ![w].pc = "mark", ![w].verdict = s]
    BY DEF Gateway
  <2>2. task'[w] = [task[w] EXCEPT !.pc = "mark", !.verdict = s]
    BY <2>1 DEF ProcessorInv, TypeOK
  <2>3. task[w].id = None /\ task[w].held = 0
    BY <1>1 DEF CallOK, InLease
  <2> QED
    BY <1>1, <2>2, <2>3 DEF Pay, Task, Running, Statuses
<1>3. payment' = payment /\ heard' = heard
  BY DEF Gateway
<1>4. Concerns(w, p)
  BY <1>1, <1>2, <1>3 DEF Gateway, ProcessorInv, TypeOK, Concerns, RowAdvances
<1>5. HistoryOK
  BY <1>1 DEF Gateway, MinOf, ProcessorInv, TypeOK, HistoryOK
<1>6. CallOK(w)' /\ LeaseOK(w)'
  BY <1>1, <1>2, <1>3, ProcessorAssumption DEF CallOK, LeaseOK, Pay, RowOf, InLease
<1>7. ToldOnlySettled'
  BY <1>3 DEF ProcessorInv, ToldOnlySettled
<1> QED
  BY <1>1, <1>2, <1>3, <1>4, <1>5, <1>6, <1>7, OthersUndisturbed DEF Pay, RowOf

LEMMA MarkKeeps ==
  ASSUME ProcessorInv, NEW w \in Workers, Mark(w)
  PROVE  ProcessorInv'
<1> DEFINE p == Pay(w)
<1>1. /\ task[w].pc = "mark" /\ p \in Payments /\ RowOf(w) \in Row
      /\ task[w] \in Task /\ CallOK(w)
  BY AtWork DEF Mark
<1>2. /\ task'[w] \in Task
      /\ task'[w].pay = p
      /\ task'[w].id = None /\ task'[w].held = 0
      /\ task'[w].pc \in {"acquire", "done"}
      /\ task'[w].pc = "done" => RowOf(w).delivered
      /\ task'[w].seen => task[w].seen
  <2>1. task[w].id = None /\ task[w].held = 0
    BY <1>1 DEF CallOK, InLease
  <2>2. CASE Goto(w, "acquire")
    <3>1. task'[w] = [task[w] EXCEPT !.pc = "acquire"]
      BY <2>2 DEF Goto, ProcessorInv, TypeOK
    <3> QED
      BY <1>1, <2>1, <3>1 DEF Pay, Task, Running
  <2>3. CASE task[w].seen /\ End(w, "done")
    <3>1. task'[w] = At("done", p)
      BY <2>3 DEF End, ProcessorInv, TypeOK
    <3> QED
      BY <1>1, <2>3, <3>1, ProcessorAssumption DEF At, Task, Ended, Statuses, CallOK
  <2> QED
    BY <2>2, <2>3 DEF Mark
<1>3. /\ payment' = [payment EXCEPT ![p] = Processed(payment[p], task[w].verdict)]
      /\ heard' = heard
  BY DEF Mark, Update, RowOf, Pay, history
<1>4. Processed(payment[p], task[w].verdict) \in Row
  BY <1>1 DEF Processed, Row, RowOf, CallOK, Statuses, Outcomes
<1>5. /\ payment'[p].status # "pending"
      /\ payment'[p].delivered = payment[p].delivered
      /\ RowAdvances(payment[p], payment'[p], task[w].id)
  BY <1>1, <1>3 DEF Processed, Row, RowOf, RowAdvances, CallOK, Outcomes,
                    ProcessorInv, TypeOK
<1>6. Concerns(w, p)
  BY <1>1, <1>2, <1>3, <1>4, <1>5 DEF Mark, Goto, End, ProcessorInv, TypeOK, Concerns
<1>7. HistoryOK
  BY DEF Mark, ProcessorInv, TypeOK, HistoryOK, history
<1>8. CallOK(w)' /\ LeaseOK(w)'
  BY <1>1, <1>2, <1>3, <1>5, ProcessorAssumption
  DEF CallOK, LeaseOK, Pay, RowOf, InLease
<1>9. ToldOnlySettled'
  BY <1>3, <1>5, <1>6 DEF ProcessorInv, ToldOnlySettled, Concerns
<1> QED
  BY <1>1, <1>2, <1>3, <1>5, <1>6, <1>7, <1>8, <1>9, OthersUndisturbed
  DEF Pay, RowOf

(* What the repository methods make of a row. *)
LEMMA RowSteps ==
  ASSUME NEW row \in Row, NEW id \in LockIds \cup {None}, NEW s \in Outcomes
  PROVE  /\ RowAdvances(row, row, id)
         /\ Processed(row, s) \in Row
         /\ RowAdvances(row, Processed(row, s), id)
         /\ Processed(row, s).delivered = row.delivered
         /\ Released(row, id) \in Row
         /\ RowAdvances(row, Released(row, id), id)
         /\ Released(row, id).delivered = row.delivered
         /\ Released(Delivered(row), id) \in Row
         /\ RowAdvances(row, Released(Delivered(row), id), id)
         /\ Released(Delivered(row), id).delivered
         /\ Released(Undelivered(row), id) \in Row
         /\ RowAdvances(row, Released(Undelivered(row), id), id)
         /\ Released(Undelivered(row), id).delivered = row.delivered
<1>1. /\ Processed(row, s) \in Row /\ RowAdvances(row, Processed(row, s), id)
      /\ Processed(row, s).delivered = row.delivered
  <2>1. CASE row.status = "pending"
    <3>1. Processed(row, s) = [row EXCEPT !.status = s]
      BY <2>1 DEF Processed
    <3> QED
      BY <2>1, <3>1 DEF Row, Statuses, RowAdvances
  <2>2. CASE row.status # "pending"
    BY <2>2 DEF Processed, RowAdvances
  <2> QED
    BY <2>1, <2>2
<1>2. ASSUME NEW r \in Row, r.lock = row.lock, r.age = row.age,
             r.status = row.status, row.delivered => r.delivered
      PROVE  /\ Released(r, id) \in Row
             /\ RowAdvances(row, Released(r, id), id)
             /\ Released(r, id).delivered = r.delivered
  <2>1. CASE r.lock = id
    <3>1. Released(r, id) = [r EXCEPT !.lock = None, !.age = 0]
      BY <2>1 DEF Released
    <3>2. Released(r, id) \in Row
      <4>1. 0 \in 0..(LockTTL + 1)
        BY ProcessorAssumption
      <4> QED
        BY <3>1, <4>1 DEF Row
    <3>3. /\ Released(r, id).status = r.status
          /\ Released(r, id).delivered = r.delivered
      BY <3>1 DEF Row
    <3> QED
      BY <1>2, <2>1, <3>2, <3>3 DEF RowAdvances
  <2>2. CASE r.lock # id
    BY <1>2, <2>2 DEF Released, RowAdvances
  <2> QED
    BY <2>1, <2>2
<1>3. /\ Delivered(row) \in Row /\ Delivered(row).delivered
      /\ Delivered(row).lock = row.lock /\ Delivered(row).age = row.age
      /\ Delivered(row).status = row.status
  BY DEF Delivered, Row
<1>4. /\ Undelivered(row) \in Row /\ Undelivered(row).delivered = row.delivered
      /\ Undelivered(row).lock = row.lock /\ Undelivered(row).age = row.age
      /\ Undelivered(row).status = row.status
  BY DEF Undelivered, Row
<1> QED
  BY <1>1, <1>2, <1>3, <1>4 DEF RowAdvances

LEMMA LockSteps ==
  ASSUME ProcessorInv, NEW p \in Payments, NEW id \in FreshIds, NEW own,
         CanLock(payment[p], id)
  PROVE  /\ Locked(payment[p], id) \in Row
         /\ RowAdvances(payment[p], Locked(payment[p], id), own)
         /\ Locked(payment[p], id).lock = id
         /\ Locked(payment[p], id).age = 0
         /\ Locked(payment[p], id).status = payment[p].status
         /\ Locked(payment[p], id).delivered = payment[p].delivered
<1>1. payment[p] \in Row /\ id \in LockIds /\ payment[p].lock # id
  BY DEF ProcessorInv, TypeOK, FreshIds
<1>2. Locked(payment[p], id) = [payment[p] EXCEPT !.lock = id, !.age = 0]
  BY DEF Locked
<1>3. payment[p].lock = None \/ payment[p].age > LockTTL
  BY <1>1 DEF CanLock
<1>4. Locked(payment[p], id) \in Row
  <2>1. 0 \in 0..(LockTTL + 1)
    BY ProcessorAssumption
  <2> QED
    BY <1>1, <1>2, <2>1 DEF Row
<1>5. /\ Locked(payment[p], id).lock = id
      /\ Locked(payment[p], id).age = 0
      /\ Locked(payment[p], id).status = payment[p].status
      /\ Locked(payment[p], id).delivered = payment[p].delivered
  BY <1>1, <1>2 DEF Row
<1> QED
  BY <1>3, <1>4, <1>5 DEF RowAdvances

(* A call that raises, having changed its row as it may, keeps the         *)
(* invariant: it holds no lease any more.                                  *)
LEMMA FailureKeeps ==
  ASSUME ProcessorInv, NEW w \in Workers, task[w].pc # "idle",
         End(w, "failed"),
         payment' \in [Payments -> Row],
         \A q \in Payments : q # Pay(w) => payment'[q] = payment[q],
         RowAdvances(payment[Pay(w)], payment'[Pay(w)], task[w].id),
         payment'[Pay(w)].delivered = payment[Pay(w)].delivered,
         HistoryOK, heard' = heard
  PROVE  ProcessorInv'
<1>1. Pay(w) \in Payments /\ task[w] \in Task
  BY AtWork
<1>2. At("failed", Pay(w)) \in Task
  BY <1>1, ProcessorAssumption DEF At, Task, Ended, Statuses
<1>3. task'[w] = At("failed", Pay(w))
  BY DEF End, ProcessorInv, TypeOK
<1>4. Concerns(w, Pay(w))
  BY <1>2, <1>3 DEF Concerns, End, ProcessorInv, TypeOK, At
<1>5. CallOK(w)' /\ LeaseOK(w)' /\ task'[w].pc # "done"
  BY <1>1, <1>3, ProcessorAssumption DEF CallOK, LeaseOK, At, Pay, InLease
<1>6. ToldOnlySettled'
  BY <1>1, <1>4 DEF Concerns, RowAdvances, ProcessorInv, ToldOnlySettled
<1> QED
  BY <1>1, <1>4, <1>5, <1>6, OthersUndisturbed

LEMMA AcquireKeeps ==
  ASSUME ProcessorInv, NEW w \in Workers, Acquire(w)
  PROVE  ProcessorInv'
<1> DEFINE p == Pay(w)
<1>1. /\ task[w].pc = "acquire" /\ p \in Payments /\ payment[p] \in Row
      /\ task[w] \in Task /\ CallOK(w)
  BY AtWork DEF Acquire, RowOf
<1>2. HistoryOK /\ heard' = heard
  BY DEF Acquire, ProcessorInv, TypeOK, HistoryOK, history
<1>3. CASE End(w, "failed") /\ payment' = payment
  BY <1>1, <1>2, <1>3, FailureKeeps DEF ProcessorInv, TypeOK, RowAdvances
<1>4. ASSUME NEW id \in FreshIds,
             CanLock(RowOf(w), id),
             Update(w, Locked(RowOf(w), id)),
             task' = [task EXCEPT ![w].pc = "recheck", ![w].id = id]
      PROVE  ProcessorInv'
  <2>1. task'[w] = [task[w] EXCEPT !.pc = "recheck", !.id = id]
    BY <1>4 DEF ProcessorInv, TypeOK
  <2>2. id \in LockIds /\ id # None
    BY ProcessorAssumption DEF FreshIds
  <2>3. /\ task'[w] \in Task
        /\ task'[w].pc = "recheck" /\ task'[w].pay = p /\ task'[w].id = id
        /\ task'[w].held = task[w].held /\ task'[w].seen = task[w].seen
    BY <1>1, <2>1, <2>2 DEF Pay, Task, Running, InLease
  <2>4. task[w].held = 0 /\ (task[w].seen => payment[p].delivered)
        /\ payment[p].status # "pending"
    BY <1>1 DEF CallOK, InLease, RowOf
  <2>5. payment' = [payment EXCEPT ![p] = Locked(payment[p], id)]
    BY <1>4 DEF Update, RowOf
  <2>6. /\ payment'[p] \in Row /\ RowAdvances(payment[p], payment'[p], task[w].id)
        /\ payment'[p].lock = id /\ payment'[p].age = 0
        /\ payment'[p].status = payment[p].status
        /\ payment'[p].delivered = payment[p].delivered
    BY <1>1, <1>4, <2>5, LockSteps DEF RowOf, ProcessorInv, TypeOK
  <2>7. Concerns(w, p)
    BY <1>1, <1>4, <2>3, <2>5, <2>6 DEF Concerns, ProcessorInv, TypeOK
  <2>8. CallOK(w)' /\ LeaseOK(w)'
    BY <1>1, <2>2, <2>3, <2>4, <2>6, ProcessorAssumption
    DEF CallOK, LeaseOK, Pay, RowOf, InLease
  <2>9. ToldOnlySettled'
    BY <1>2, <2>6, <2>7 DEF Concerns, ProcessorInv, ToldOnlySettled
  <2> QED
    BY <1>1, <1>2, <2>3, <2>7, <2>8, <2>9, OthersUndisturbed
<1> QED
  BY <1>3, <1>4 DEF Acquire

(* The call stays in its lease, or leaves it for the except blocks. *)
LEMMA Abandoned ==
  ASSUME ProcessorInv, NEW w \in Workers, task[w].pc \in InLease,
         NEW pc \in {"giveup", "cleanup"}, Abandon(w, pc)
  PROVE  /\ task'[w] \in Task
         /\ task'[w].pc = pc /\ task'[w].pay = Pay(w)
         /\ task'[w].id = task[w].id /\ task'[w].id # None
         /\ task'[w].held = 0 /\ ~task'[w].seen
<1>1. /\ Pay(w) \in Payments /\ task[w] \in Task /\ task[w].id # None
  BY AtWork DEF InLease, CallOK
<1>2. At(pc, Pay(w)) \in Task
  BY <1>1, ProcessorAssumption DEF At, Task, Running, Statuses
<1>3. task'[w] = [At(pc, Pay(w)) EXCEPT !.id = task[w].id]
  BY DEF Abandon, ProcessorInv, TypeOK
<1> QED
  BY <1>1, <1>2, <1>3 DEF Task, At

LEMMA RecheckKeeps ==
  ASSUME ProcessorInv, NEW w \in Workers, Recheck(w)
  PROVE  ProcessorInv'
<1> DEFINE p == Pay(w)
<1>1. /\ task[w].pc = "recheck" /\ p \in Payments /\ payment[p] \in Row
      /\ task[w] \in Task /\ CallOK(w) /\ LeaseOK(w)
  BY AtWork DEF Recheck, RowOf
<1>2. HistoryOK /\ heard' = heard
  BY DEF Recheck, ProcessorInv, TypeOK, HistoryOK, history
<1>3. CASE /\ task[w].seen
           /\ Update(w, Released(RowOf(w), task[w].id))
           /\ End(w, "done")
  <2>1. At("done", p) \in Task /\ task'[w] = At("done", p)
    BY <1>1, <1>3, ProcessorAssumption
    DEF At, Task, Ended, Statuses, End, ProcessorInv, TypeOK
  <2>2. payment' = [payment EXCEPT ![p] = Released(payment[p], task[w].id)]
    BY <1>3 DEF Update, RowOf
  <2>3. task[w].id \in LockIds \cup {None} /\ "failed" \in Outcomes
    BY <1>1 DEF Task, Outcomes
  <2>4. /\ payment'[p] \in Row /\ RowAdvances(payment[p], payment'[p], task[w].id)
        /\ payment'[p].delivered = payment[p].delivered
    BY <1>1, <2>2, <2>3, RowSteps DEF ProcessorInv, TypeOK
  <2>5. Concerns(w, p)
    BY <1>1, <1>3, <2>1, <2>2, <2>4 DEF Concerns, End, At, ProcessorInv, TypeOK
  <2>6. CallOK(w)' /\ LeaseOK(w)'
    BY <1>1, <2>1, ProcessorAssumption DEF CallOK, LeaseOK, Pay, At, InLease
  <2>7. ToldOnlySettled'
    BY <1>1, <1>2, <2>4, <2>5 DEF Concerns, RowAdvances, ProcessorInv, ToldOnlySettled
  <2>8. payment'[Pay(w)'].delivered /\ Pay(w)' \in Payments
    BY <1>1, <1>3, <2>1, <2>4 DEF CallOK, RowOf, At, Pay
  <2> QED
    BY <1>1, <1>2, <2>5, <2>6, <2>7, <2>8, OthersUndisturbed
<1>4. CASE /\ task' = [task EXCEPT ![w].pc = "send", ![w].attempt = 1]
           /\ payment' = payment
  <2>1. task'[w] = [task[w] EXCEPT !.pc = "send", !.attempt = 1]
    BY <1>4 DEF ProcessorInv, TypeOK
  <2>2. 1 \in 0..WebhookAttempts
    BY ProcessorAssumption
  <2>3. /\ task'[w] \in Task
        /\ task'[w].pc = "send" /\ task'[w].pay = p /\ task'[w].id = task[w].id
        /\ task'[w].held = task[w].held /\ task'[w].seen = task[w].seen
    BY <1>1, <2>1, <2>2 DEF Pay, Task, Running, InLease
  <2>4. Concerns(w, p)
    BY <1>1, <1>4, <2>3 DEF Concerns, RowAdvances, ProcessorInv, TypeOK
  <2>5. CallOK(w)' /\ LeaseOK(w)'
    BY <1>1, <1>2, <1>4, <2>3 DEF CallOK, LeaseOK, Pay, RowOf, InLease
  <2>6. ToldOnlySettled'
    BY <1>2, <1>4 DEF ProcessorInv, ToldOnlySettled
  <2> QED
    BY <1>1, <1>2, <2>3, <2>4, <2>5, <2>6, OthersUndisturbed
<1> QED
  BY <1>3, <1>4 DEF Recheck

(* A webhook attempt, whatever comes of it: the merchant may hear of a     *)
(* payment whose outcome is committed.                                     *)
LEMMA AttemptKeeps ==
  ASSUME ProcessorInv, NEW w \in Workers, task[w].pc = "send",
         payment' = payment, charges' = charges, dbFailed' = dbFailed,
         refused' \subseteq Payments,
         heard' \in {heard, [heard EXCEPT ![Pay(w)] = @ \cup {task[w].verdict}]},
         task' \in [Workers -> Task],
         \A v \in Workers : v # w => task'[v] = task[v],
         task'[w].pc \in {"send", "record", "giveup", "cleanup"},
         task'[w].pay = Pay(w), task'[w].id = task[w].id,
         task'[w].seen => task[w].seen,
         IF task'[w].pc \in {"giveup", "cleanup"} THEN task'[w].held = 0
                                   ELSE task'[w].held = task[w].held,
         task'[w].pc = "record" => heard'[Pay(w)] # {}
  PROVE  ProcessorInv'
<1> DEFINE p == Pay(w)
<1>1. /\ p \in Payments /\ payment[p] \in Row /\ payment[p].status # "pending"
      /\ task[w] \in Task /\ CallOK(w) /\ LeaseOK(w)
  BY AtWork DEF RowOf, CallOK, InLease
<1>2. /\ heard' \in [Payments -> SUBSET Statuses]
      /\ \A q \in Payments : heard[q] \subseteq heard'[q]
      /\ \A q \in Payments : q # p => heard'[q] = heard[q]
  BY <1>1 DEF Task, ProcessorInv, TypeOK
<1>3. HistoryOK
  BY <1>2 DEF HistoryOK, ProcessorInv, TypeOK
<1>4. Concerns(w, p)
  BY DEF Concerns, RowAdvances, ProcessorInv, TypeOK
<1>5. CallOK(w)' /\ LeaseOK(w)'
  BY <1>1 DEF CallOK, LeaseOK, Pay, RowOf, InLease
<1>6. ToldOnlySettled'
  BY <1>1, <1>2 DEF ProcessorInv, ToldOnlySettled
<1> QED
  BY <1>1, <1>2, <1>3, <1>4, <1>5, <1>6, OthersUndisturbed

LEMMA PostAcceptedKeeps ==
  ASSUME ProcessorInv, NEW w \in Workers, PostAccepted(w)
  PROVE  ProcessorInv'
<1>1. /\ task[w].pc = "send" /\ Pay(w) \in Payments /\ task[w] \in Task
  BY AtWork DEF PostAccepted
<1>2. task'[w] = [task[w] EXCEPT !.pc = "record"]
  BY DEF PostAccepted, Goto, ProcessorInv, TypeOK
<1>3. /\ task'[w] \in Task
      /\ task'[w].pc = "record" /\ task'[w].pay = Pay(w)
      /\ task'[w].id = task[w].id /\ task'[w].seen = task[w].seen
      /\ task'[w].held = task[w].held
  BY <1>1, <1>2 DEF Task, Running, InLease, Pay
<1>4. /\ task' \in [Workers -> Task]
      /\ \A v \in Workers : v # w => task'[v] = task[v]
  BY <1>3 DEF PostAccepted, Goto, ProcessorInv, TypeOK
<1>5. heard'[Pay(w)] # {}
  BY <1>1 DEF PostAccepted, ProcessorInv, TypeOK
<1> QED
  BY <1>1, <1>3, <1>4, <1>5, AttemptKeeps DEF PostAccepted, ProcessorInv, TypeOK

LEMMA RetryKeeps ==
  ASSUME ProcessorInv, NEW w \in Workers, Retry(w)
  PROVE  ProcessorInv'
<1>1. /\ task[w].pc = "send" /\ Pay(w) \in Payments /\ task[w] \in Task
  BY AtWork DEF Retry, PostRaised
<1>2. task'[w] = [task[w] EXCEPT !.attempt = @ + 1]
  BY DEF Retry, ProcessorInv, TypeOK
<1>3. task[w].attempt + 1 \in 0..WebhookAttempts
  BY <1>1, ProcessorAssumption DEF Retry, Task
<1>4. /\ task'[w] \in Task
      /\ task'[w].pc = "send" /\ task'[w].pay = Pay(w)
      /\ task'[w].id = task[w].id /\ task'[w].seen = task[w].seen
      /\ task'[w].held = task[w].held
  BY <1>1, <1>2, <1>3 DEF Task, Pay
<1>5. /\ task' \in [Workers -> Task]
      /\ \A v \in Workers : v # w => task'[v] = task[v]
  BY <1>4 DEF Retry, ProcessorInv, TypeOK
<1>6. refused' \subseteq Payments
  BY <1>1 DEF Retry, PostRaised, ProcessorInv, TypeOK
<1> QED
  BY <1>1, <1>4, <1>5, <1>6, AttemptKeeps DEF Retry, PostRaised

LEMMA SendFailsKeeps ==
  ASSUME ProcessorInv, NEW w \in Workers, SendFails(w)
  PROVE  ProcessorInv'
<1>1. /\ task[w].pc = "send" /\ Pay(w) \in Payments /\ task[w] \in Task
  BY AtWork DEF SendFails, PostRaised
<1>2. /\ task'[w] \in Task
      /\ task'[w].pc = "giveup" /\ task'[w].pay = Pay(w)
      /\ task'[w].id = task[w].id /\ task'[w].held = 0 /\ ~task'[w].seen
  BY <1>1, Abandoned DEF SendFails, InLease
<1>3. /\ task' \in [Workers -> Task]
      /\ \A v \in Workers : v # w => task'[v] = task[v]
  BY <1>2 DEF SendFails, Abandon, ProcessorInv, TypeOK
<1>4. refused' \subseteq Payments
  BY <1>1 DEF SendFails, PostRaised, ProcessorInv, TypeOK
<1> QED
  BY <1>1, <1>2, <1>3, <1>4, AttemptKeeps DEF SendFails, PostRaised

LEMMA SendBreaksKeeps ==
  ASSUME ProcessorInv, NEW w \in Workers, SendBreaks(w)
  PROVE  ProcessorInv'
<1>1. /\ task[w].pc = "send" /\ Pay(w) \in Payments /\ task[w] \in Task
  BY AtWork DEF SendBreaks, PostRaised
<1>2. /\ task'[w] \in Task
      /\ task'[w].pc = "cleanup" /\ task'[w].pay = Pay(w)
      /\ task'[w].id = task[w].id /\ task'[w].held = 0 /\ ~task'[w].seen
  BY <1>1, Abandoned DEF SendBreaks, InLease
<1>3. /\ task' \in [Workers -> Task]
      /\ \A v \in Workers : v # w => task'[v] = task[v]
  BY <1>2 DEF SendBreaks, Abandon, ProcessorInv, TypeOK
<1>4. refused' \subseteq Payments
  BY <1>1 DEF SendBreaks, PostRaised, ProcessorInv, TypeOK
<1> QED
  BY <1>1, <1>2, <1>3, <1>4, AttemptKeeps DEF SendBreaks, PostRaised

LEMMA RecordDeliveredKeeps ==
  ASSUME ProcessorInv, NEW w \in Workers, RecordDelivered(w)
  PROVE  ProcessorInv'
<1> DEFINE p == Pay(w)
<1>1. /\ task[w].pc = "record" /\ p \in Payments /\ payment[p] \in Row
      /\ task[w] \in Task /\ CallOK(w) /\ LeaseOK(w)
  BY AtWork DEF RecordDelivered, RowOf
<1>2. HistoryOK /\ heard' = heard
  BY DEF RecordDelivered, ProcessorInv, TypeOK, HistoryOK, history
<1>3. At("done", p) \in Task /\ task'[w] = At("done", p)
  BY <1>1, ProcessorAssumption
  DEF RecordDelivered, At, Task, Ended, Statuses, End, ProcessorInv, TypeOK
<1>4. payment' = [payment EXCEPT ![p] = Released(Delivered(payment[p]), task[w].id)]
  BY DEF RecordDelivered, Update, RowOf
<1>5. task[w].id \in LockIds \cup {None} /\ "failed" \in Outcomes
  BY <1>1 DEF Task, Outcomes
<1>6. /\ payment'[p] \in Row /\ RowAdvances(payment[p], payment'[p], task[w].id)
      /\ payment'[p].delivered
  BY <1>1, <1>4, <1>5, RowSteps DEF ProcessorInv, TypeOK
<1>7. Concerns(w, p)
  BY <1>1, <1>3, <1>4, <1>6
  DEF RecordDelivered, Concerns, End, At, ProcessorInv, TypeOK
<1>8. CallOK(w)' /\ LeaseOK(w)'
  BY <1>1, <1>3, ProcessorAssumption DEF CallOK, LeaseOK, Pay, At, InLease
<1>9. ToldOnlySettled'
  BY <1>1, <1>2, <1>7
  DEF Concerns, RowAdvances, ProcessorInv, ToldOnlySettled, CallOK, RowOf, InLease
<1>10. payment'[Pay(w)'].delivered /\ Pay(w)' \in Payments
  BY <1>1, <1>3, <1>6 DEF At, Pay
<1> QED
  BY <1>1, <1>2, <1>7, <1>8, <1>9, <1>10, OthersUndisturbed

LEMMA RecordFailsKeeps ==
  ASSUME ProcessorInv, NEW w \in Workers, RecordFails(w)
  PROVE  ProcessorInv'
<1> DEFINE p == Pay(w)
<1>1. /\ task[w].pc = "record" /\ p \in Payments /\ payment[p] \in Row
      /\ task[w] \in Task /\ CallOK(w) /\ LeaseOK(w)
  BY AtWork DEF RecordFails, RowOf
<1>2. HistoryOK /\ heard' = heard
  BY <1>1 DEF RecordFails, DbRaises, ProcessorInv, TypeOK, HistoryOK
<1>3. /\ task'[w] \in Task
      /\ task'[w].pc = "cleanup" /\ task'[w].pay = p
      /\ task'[w].id = task[w].id /\ task'[w].id # None
      /\ task'[w].held = 0 /\ ~task'[w].seen
  BY <1>1, Abandoned DEF RecordFails, InLease
<1>4. \/ payment' = payment
      \/ payment' = [payment EXCEPT ![p] = Released(Delivered(payment[p]), task[w].id)]
  BY DEF RecordFails, Update, RowOf
<1>5. task[w].id \in LockIds \cup {None} /\ "failed" \in Outcomes
  BY <1>1 DEF Task, Outcomes
<1>6. payment'[p] \in Row /\ RowAdvances(payment[p], payment'[p], task[w].id)
  BY <1>1, <1>4, <1>5, RowSteps DEF ProcessorInv, TypeOK
<1>7. Concerns(w, p)
  BY <1>1, <1>3, <1>4, <1>6
  DEF RecordFails, Concerns, Abandon, ProcessorInv, TypeOK
<1>8. CallOK(w)' /\ LeaseOK(w)'
  BY <1>1, <1>3, ProcessorAssumption DEF CallOK, LeaseOK, Pay, InLease
<1>9. ToldOnlySettled'
  BY <1>1, <1>2, <1>7
  DEF Concerns, RowAdvances, ProcessorInv, ToldOnlySettled, CallOK, RowOf, InLease
<1> QED
  BY <1>1, <1>2, <1>3, <1>7, <1>8, <1>9, OthersUndisturbed

LEMMA GiveUpKeeps ==
  ASSUME ProcessorInv, NEW w \in Workers, GiveUp(w)
  PROVE  ProcessorInv'
<1> DEFINE p == Pay(w)
<1>1. /\ task[w].pc = "giveup" /\ p \in Payments /\ payment[p] \in Row
      /\ task[w] \in Task /\ CallOK(w) /\ LeaseOK(w)
  BY AtWork DEF GiveUp, RowOf
<1>2. HistoryOK /\ heard' = heard
  BY DEF GiveUp, ProcessorInv, TypeOK, HistoryOK, history
<1>3. payment' = [payment EXCEPT ![p] = Released(Undelivered(payment[p]), task[w].id)]
  BY DEF GiveUp, Update, RowOf
<1>4. task[w].id \in LockIds \cup {None} /\ "failed" \in Outcomes
  BY <1>1 DEF Task, Outcomes
<1>5. /\ payment'[p] \in Row /\ RowAdvances(payment[p], payment'[p], task[w].id)
      /\ payment'[p].delivered = payment[p].delivered
  BY <1>1, <1>3, <1>4, RowSteps DEF ProcessorInv, TypeOK
<1>6. /\ payment' \in [Payments -> Row]
      /\ \A q \in Payments : q # p => payment'[q] = payment[q]
  BY <1>3, <1>5 DEF ProcessorInv, TypeOK
<1> QED
  BY <1>1, <1>2, <1>5, <1>6, FailureKeeps DEF GiveUp

LEMMA CleanUpKeeps ==
  ASSUME ProcessorInv, NEW w \in Workers, CleanUp(w)
  PROVE  ProcessorInv'
<1> DEFINE p == Pay(w)
<1>1. /\ task[w].pc = "cleanup" /\ p \in Payments /\ payment[p] \in Row
      /\ task[w] \in Task /\ CallOK(w) /\ LeaseOK(w)
  BY AtWork DEF CleanUp, RowOf
<1>2. HistoryOK /\ heard' = heard
  BY DEF CleanUp, ProcessorInv, TypeOK, HistoryOK, history
<1>3. payment' = [payment EXCEPT ![p] = Released(payment[p], task[w].id)]
  BY DEF CleanUp, Update, RowOf
<1>4. task[w].id \in LockIds \cup {None} /\ "failed" \in Outcomes
  BY <1>1 DEF Task, Outcomes
<1>5. /\ payment'[p] \in Row /\ RowAdvances(payment[p], payment'[p], task[w].id)
      /\ payment'[p].delivered = payment[p].delivered
  BY <1>1, <1>3, <1>4, RowSteps DEF ProcessorInv, TypeOK
<1>6. /\ payment' \in [Payments -> Row]
      /\ \A q \in Payments : q # p => payment'[q] = payment[q]
  BY <1>3, <1>5 DEF ProcessorInv, TypeOK
<1> QED
  BY <1>1, <1>2, <1>5, <1>6, FailureKeeps DEF CleanUp

LEMMA DbErrorKeeps ==
  ASSUME ProcessorInv, NEW w \in Workers, DbError(w)
  PROVE  ProcessorInv'
<1> DEFINE p == Pay(w)
<1>1. /\ task[w].pc \in {"load", "mark", "acquire", "recheck", "giveup", "cleanup"}
      /\ p \in Payments /\ payment[p] \in Row
      /\ task[w] \in Task /\ CallOK(w) /\ LeaseOK(w)
  BY AtWork DEF DbError, RowOf
<1>2. HistoryOK /\ heard' = heard
  BY <1>1 DEF DbError, DbRaises, ProcessorInv, TypeOK, HistoryOK
<1>3. task[w].id \in LockIds \cup {None} /\ "failed" \in Outcomes
  BY <1>1 DEF Task, Outcomes
<1>4. ASSUME NEW row \in Row, Update(w, row),
             RowAdvances(payment[p], row, task[w].id),
             row.delivered = payment[p].delivered
      PROVE  ProcessorInv'
  <2>1. /\ payment' \in [Payments -> Row] /\ payment'[p] = row
        /\ \A q \in Payments : q # p => payment'[q] = payment[q]
    BY <1>1, <1>4 DEF Update, ProcessorInv, TypeOK
  <2> QED
    BY <1>1, <1>2, <1>4, <2>1, FailureKeeps DEF DbError
<1>5. CASE payment' = payment
  BY <1>1, <1>2, <1>5, FailureKeeps DEF DbError, RowAdvances, ProcessorInv, TypeOK
<1>6. CASE task[w].pc = "mark" /\ Update(w, Processed(RowOf(w), task[w].verdict))
  BY <1>1, <1>3, <1>4, <1>6, RowSteps DEF CallOK, RowOf
<1>7. CASE \E id \in FreshIds :
             CanLock(RowOf(w), id) /\ Update(w, Locked(RowOf(w), id))
  BY <1>1, <1>4, <1>7, LockSteps DEF RowOf
<1>8. CASE Update(w, Released(RowOf(w), task[w].id))
  BY <1>1, <1>3, <1>4, <1>8, RowSteps DEF RowOf
<1>9. CASE Update(w, Released(Undelivered(RowOf(w)), task[w].id))
  BY <1>1, <1>3, <1>4, <1>9, RowSteps DEF RowOf
<1> QED
  BY <1>5, <1>6, <1>7, <1>8, <1>9 DEF DbError

(* The caller takes the result, or the process dies: the worker is idle,   *)
(* the row is as it was.                                                   *)
LEMMA IdleKeeps ==
  ASSUME ProcessorInv, NEW w \in Workers,
         task' = [task EXCEPT ![w] = Idle], UNCHANGED <<payment, history>>
  PROVE  ProcessorInv'
<1>1. Idle \in Task /\ task'[w] = Idle
  BY ProcessorAssumption DEF Idle, At, Task, Statuses, ProcessorInv, TypeOK
<1>2. HistoryOK /\ heard' = heard /\ payment' = payment
  BY DEF ProcessorInv, TypeOK, HistoryOK, history
<1>3. CallOK(w)' /\ LeaseOK(w)' /\ task'[w].pc # "done"
  BY <1>1 DEF CallOK, LeaseOK, Idle, At, InLease
<1>4. ToldOnlySettled'
  BY <1>2 DEF ProcessorInv, ToldOnlySettled
<1>5. ASSUME NEW p \in Payments
      PROVE  Concerns(w, p)
  BY <1>1, <1>2 DEF Concerns, RowAdvances, ProcessorInv, TypeOK, Idle, At
<1>6. CASE Payments # {}
  BY <1>2, <1>3, <1>4, <1>5, <1>6, OthersUndisturbed
<1>7. CASE Payments = {}
  <2>1. ASSUME NEW v \in Workers
        PROVE  /\ task'[v].pc = "idle" /\ task'[v].id = None
               /\ task'[v].held = 0 /\ ~task'[v].seen
    <3>1. task[v].pc = "idle" /\ CallOK(v)
      BY <1>7, AtWork DEF ProcessorInv
    <3>2. task'[v] \in {task[v], Idle}
      BY <1>1 DEF ProcessorInv, TypeOK
    <3> QED
      BY <3>1, <3>2 DEF CallOK, InLease, Idle, At
  <2>2. TypeOK'
    BY <1>1, <1>2 DEF ProcessorInv, TypeOK, HistoryOK
  <2>3. \A v \in Workers : CallOK(v)' /\ LeaseOK(v)'
    BY <2>1 DEF CallOK, LeaseOK, InLease
  <2>4. IdsDistinct' /\ DoneMeansDelivered'
    BY <2>1 DEF IdsDistinct, DoneMeansDelivered
  <2> QED
    BY <1>4, <2>2, <2>3, <2>4 DEF ProcessorInv
<1> QED
  BY <1>6, <1>7

LEMMA TickKeeps ==
  ASSUME ProcessorInv, Tick
  PROVE  ProcessorInv'
<1>1. \A n \in 0..(LockTTL + 1) :
        /\ Older(n) \in 0..(LockTTL + 1)
        /\ Older(n) <= LockTTL => n <= LockTTL /\ Older(n) = n + 1
        /\ n <= LockTTL => Older(n) = n + 1
  BY ProcessorAssumption DEF Older, MinOf
<1>2. ASSUME NEW p \in Payments
      PROVE  /\ payment'[p] \in Row
             /\ payment'[p].status = payment[p].status
             /\ payment'[p].delivered = payment[p].delivered
             /\ payment'[p].lock = payment[p].lock
             /\ payment[p].lock # None => payment'[p].age = Older(payment[p].age)
  <2>1. payment[p] \in Row
    BY DEF ProcessorInv, TypeOK
  <2>2. CASE payment[p].lock = None
    BY <2>1, <2>2 DEF Tick
  <2>3. CASE payment[p].lock # None
    <3>1. payment'[p] = [payment[p] EXCEPT !.age = Older(@)]
      BY <2>3 DEF Tick
    <3> QED
      BY <1>1, <2>1, <3>1 DEF Row
  <2> QED
    BY <2>2, <2>3
<1>3. ASSUME NEW w \in Workers
      PROVE  /\ task'[w] \in Task
             /\ task'[w].pc = task[w].pc /\ task'[w].pay = task[w].pay
             /\ task'[w].id = task[w].id /\ task'[w].seen = task[w].seen
             /\ task'[w].verdict = task[w].verdict
             /\ task'[w].held = IF task[w].pc \in InLease THEN Older(task[w].held)
                                                         ELSE task[w].held
  <2>1. task[w] \in Task
    BY DEF ProcessorInv, TypeOK
  <2>2. CASE task[w].pc \notin InLease
    BY <2>1, <2>2 DEF Tick
  <2>3. CASE task[w].pc \in InLease
    <3>1. task'[w] = [task[w] EXCEPT !.held = Older(@)]
      BY <2>3 DEF Tick
    <3> QED
      BY <1>1, <2>1, <2>3, <3>1 DEF Task
  <2> QED
    BY <2>2, <2>3
<1>4. TypeOK'
  <2>1. payment' \in [Payments -> Row] /\ task' \in [Workers -> Task]
    BY <1>2, <1>3 DEF Tick
  <2> QED
    BY <2>1 DEF Tick, history, ProcessorInv, TypeOK
<1>5. ASSUME NEW w \in Workers
      PROVE  CallOK(w)' /\ LeaseOK(w)'
  <2>1. /\ CallOK(w) /\ LeaseOK(w) /\ task[w] \in Task /\ heard' = heard
    BY DEF ProcessorInv, TypeOK, Tick, history
  <2>2. CASE task[w].pc = "idle"
    BY <1>3, <2>1, <2>2 DEF CallOK, LeaseOK, InLease, Pay
  <2>3. CASE task[w].pc # "idle"
    <3>1. Pay(w) \in Payments
      BY <2>3, AtWork
    <3>2. CallOK(w)'
      BY <1>2, <1>3, <2>1, <3>1 DEF CallOK, RowOf, Pay
    <3>3. LeaseOK(w)'
      <4>1. SUFFICES ASSUME task[w].pc \in InLease, task'[w].held <= LockTTL
                     PROVE  /\ payment'[Pay(w)].lock = task[w].id
                            /\ payment'[Pay(w)].age = task'[w].held
        BY <1>3 DEF LeaseOK, RowOf, Pay
      <4>2. task'[w].held = Older(task[w].held) /\ task[w].held \in 0..(LockTTL + 1)
        BY <1>3, <2>1, <4>1 DEF Task
      <4>3. task[w].held <= LockTTL
        BY <1>1, <4>1, <4>2
      <4>4. payment[Pay(w)].lock = task[w].id /\ payment[Pay(w)].age = task[w].held
        BY <2>1, <4>1, <4>3 DEF LeaseOK, RowOf
      <4>5. task[w].id # None
        BY <2>1, <4>1 DEF CallOK
      <4> QED
        BY <1>2, <3>1, <4>2, <4>4, <4>5
    <3> QED
      BY <3>2, <3>3
  <2> QED
    BY <2>2, <2>3
<1>6. IdsDistinct'
  BY <1>3 DEF ProcessorInv, IdsDistinct
<1>7. DoneMeansDelivered'
  <2>1. ASSUME NEW w \in Workers, task[w].pc = "done"
        PROVE  payment'[Pay(w)].delivered /\ heard'[Pay(w)] # {}
    BY <1>2, <2>1, AtWork DEF ProcessorInv, DoneMeansDelivered, RowOf, Tick, history
  <2> QED
    BY <1>3, <2>1 DEF DoneMeansDelivered, RowOf, Pay
<1>8. ToldOnlySettled'
  BY <1>2 DEF ProcessorInv, ToldOnlySettled, Tick, history
<1> QED
  BY <1>4, <1>5, <1>6, <1>7, <1>8 DEF ProcessorInv

-----------------------------------------------------------------------------
LEMMA StepKeeps ==
  ASSUME ProcessorInv, NEW w \in Workers, Step(w)
  PROVE  ProcessorInv'
BY LoadKeeps, GatewayKeeps, MarkKeeps, AcquireKeeps, RecheckKeeps,
   PostAcceptedKeeps, RetryKeeps, SendFailsKeeps, SendBreaksKeeps,
   RecordDeliveredKeeps, RecordFailsKeeps, GiveUpKeeps, CleanUpKeeps, DbErrorKeeps
DEF Step

LEMMA NextKeeps ==
  ASSUME ProcessorInv, [Next]_processorVars
  PROVE  ProcessorInv'
<1>1. ASSUME NEW w \in Workers, Finish(w) \/ Crash(w)
      PROVE  ProcessorInv'
  BY <1>1, IdleKeeps DEF Finish, Crash
<1>2. CASE UNCHANGED processorVars
  BY <1>2 DEF processorVars, ProcessorInv, TypeOK, CallOK, LeaseOK, IdsDistinct,
              DoneMeansDelivered, ToldOnlySettled, Pay, RowOf
<1> QED
  BY <1>1, <1>2, BeginKeeps, StepKeeps, TickKeeps DEF Next

LEMMA InitHolds == Init => ProcessorInv
<1> SUFFICES ASSUME Init PROVE ProcessorInv
  OBVIOUS
<1>1. NewRow \in Row /\ NewRow.status = "pending" /\ ~NewRow.delivered
  BY ProcessorAssumption DEF NewRow, Row, Statuses
<1>2. Idle \in Task /\ Idle = At("idle", None)
  BY ProcessorAssumption DEF Idle, At, Task, Statuses
<1>3. TypeOK
  BY <1>1, <1>2 DEF Init, TypeOK
<1>4. \A w \in Workers : CallOK(w) /\ LeaseOK(w)
  BY <1>2 DEF Init, CallOK, LeaseOK, At, InLease
<1>5. IdsDistinct /\ DoneMeansDelivered
  BY <1>2 DEF Init, IdsDistinct, DoneMeansDelivered, At
<1>6. ToldOnlySettled
  BY <1>1 DEF Init, ToldOnlySettled
<1> QED
  BY <1>3, <1>4, <1>5, <1>6 DEF ProcessorInv

(* The inductive invariant holds in every reachable state: the types, each *)
(* call's knowledge of its row, and every valid lease being the row's lock *)
(* (process() with acquire_webhook_lock and release_webhook_lock).         *)
THEOREM ProcessorInvariant == Spec => []ProcessorInv
<1>1. Init => ProcessorInv
  BY InitHolds
<1>2. ProcessorInv /\ [Next]_processorVars => ProcessorInv'
  BY NextKeeps
<1> QED
  BY <1>1, <1>2, PTL DEF Spec

(* Two calls deliver one payment's webhook at once only if one of them has *)
(* outlived the lock's time to live.                                       *)
THEOREM LeasesExclude == Spec => []LeaseExclusion
<1>1. ProcessorInv => LeaseExclusion
  <2> SUFFICES ASSUME ProcessorInv, NEW v \in Workers, NEW w \in Workers,
                      v # w, task[v].pc \in InLease, task[w].pc \in InLease,
                      Pay(v) = Pay(w)
               PROVE  task[v].held > LockTTL \/ task[w].held > LockTTL
    BY DEF LeaseExclusion
  <2>1. task[v].id # None /\ task[v].id # task[w].id
    BY DEF ProcessorInv, CallOK, IdsDistinct
  <2>2. task[v].held \in 0..(LockTTL + 1) /\ task[w].held \in 0..(LockTTL + 1)
    BY DEF ProcessorInv, TypeOK, Task
  <2>3. ~(task[v].held <= LockTTL /\ task[w].held <= LockTTL)
    BY <2>1 DEF ProcessorInv, LeaseOK, RowOf
  <2> QED
    BY <2>2, <2>3, ProcessorAssumption
<1> QED
  BY <1>1, ProcessorInvariant, PTL

(* process() returns only for a payment whose delivery is recorded. *)
THEOREM DoneIsDelivered == Spec => []DoneMeansDelivered
<1>1. ProcessorInv => DoneMeansDelivered
  BY DEF ProcessorInv
<1> QED
  BY <1>1, ProcessorInvariant, PTL

-----------------------------------------------------------------------------
(* Every step is a step of the abstract payment, or none.                  *)

(* Status, delivery and what the merchant heard are as they were. *)
Quiet(p) ==
  /\ payment'[p].status = payment[p].status
  /\ payment'[p].delivered = payment[p].delivered
  /\ heard'[p] = heard[p]

AbstractStep == Lifecycle!Next \/ UNCHANGED Lifecycle!vars

LEMMA QuietStep ==
  ASSUME \A p \in Payments : Quiet(p)
  PROVE  AbstractStep
BY DEF Quiet, AbstractStep, Lifecycle!vars

(* The columns the abstract payment sees, in what the methods make of a row. *)
LEMMA RowColumns ==
  ASSUME NEW row \in Row, NEW id
  PROVE  /\ Locked(row, id).status = row.status
         /\ Locked(row, id).delivered = row.delivered
         /\ Released(row, id).status = row.status
         /\ Released(row, id).delivered = row.delivered
         /\ Released(Delivered(row), id).status = row.status
         /\ Released(Delivered(row), id).delivered
         /\ Released(Undelivered(row), id).status = row.status
         /\ Released(Undelivered(row), id).delivered = row.delivered
<1>1. ASSUME NEW r \in Row
      PROVE  /\ Released(r, id).status = r.status
             /\ Released(r, id).delivered = r.delivered
  <2>1. CASE r.lock = id
    BY <2>1 DEF Released, Row
  <2>2. CASE r.lock # id
    BY <2>2 DEF Released
  <2> QED
    BY <2>1, <2>2
<1>2. Delivered(row) \in Row /\ Delivered(row).status = row.status /\ Delivered(row).delivered
  BY DEF Delivered, Row
<1>3. Locked(row, id).status = row.status /\ Locked(row, id).delivered = row.delivered
  BY DEF Locked, Row
<1>4. /\ Undelivered(row) \in Row /\ Undelivered(row).status = row.status
      /\ Undelivered(row).delivered = row.delivered
  BY DEF Undelivered, Row
<1> QED
  BY <1>1, <1>2, <1>3, <1>4

(* An update of w's row that changes none of these columns. *)
LEMMA QuietUpdate ==
  ASSUME ProcessorInv, NEW w \in Workers, Pay(w) \in Payments, NEW row,
         Update(w, row), heard' = heard,
         row.status = RowOf(w).status, row.delivered = RowOf(w).delivered
  PROVE  AbstractStep
<1>1. \A p \in Payments : Quiet(p)
  BY DEF Quiet, Update, RowOf, ProcessorInv, TypeOK
<1> QED
  BY <1>1, QuietStep

(* Setting a terminal status settles a pending payment. *)
LEMMA SettleStep ==
  ASSUME ProcessorInv, NEW w \in Workers, task[w].pc = "mark",
         Update(w, Processed(RowOf(w), task[w].verdict)), heard' = heard
  PROVE  AbstractStep
<1>1. PICK p \in Payments, s \in Outcomes :
        p = Pay(w) /\ s = task[w].verdict /\ payment[p] \in Row
  BY AtWork DEF CallOK, RowOf
<1>2. payment' = [payment EXCEPT ![p] = Processed(payment[p], s)]
  BY <1>1 DEF Update, RowOf
<1>3. CASE payment[p].status # "pending"
  <2>1. \A q \in Payments : Quiet(q)
    BY <1>1, <1>2, <1>3 DEF Quiet, Processed, ProcessorInv, TypeOK
  <2> QED
    BY <2>1, QuietStep
<1>4. CASE payment[p].status = "pending"
  <2>1. payment' = [payment EXCEPT ![p].status = s]
    BY <1>2, <1>4 DEF Processed
  <2>2. /\ payment'[p].status = s
        /\ payment'[p].delivered = payment[p].delivered
        /\ \A q \in Payments : q # p => payment'[q] = payment[q]
    BY <1>1, <2>1 DEF Row, ProcessorInv, TypeOK
  <2>3. Lifecycle!Settle(p, s)
    BY <1>1, <1>4, <2>2 DEF Lifecycle!Settle
  <2> QED
    BY <2>3 DEF AbstractStep, Lifecycle!Next, Lifecycle!Outcomes, Outcomes
<1> QED
  BY <1>3, <1>4

(* A webhook attempt tells the merchant, or is nothing. *)
LEMMA TellStep ==
  ASSUME ProcessorInv, NEW w \in Workers, task[w].pc = "send",
         payment' = payment,
         heard' \in {heard, [heard EXCEPT ![Pay(w)] = @ \cup {task[w].verdict}]}
  PROVE  AbstractStep
<1>1. PICK p \in Payments : p = Pay(w) /\ payment[p].status # "pending"
  BY AtWork DEF CallOK, RowOf, InLease
<1>2. CASE heard' = heard
  BY <1>2, QuietStep DEF Quiet
<1>3. CASE heard' = [heard EXCEPT ![Pay(w)] = @ \cup {task[w].verdict}]
  <2>1. /\ heard'[p] # {}
        /\ \A q \in Payments : q # p => heard'[q] = heard[q]
    BY <1>1, <1>3 DEF ProcessorInv, TypeOK
  <2>2. Lifecycle!Tell(p)
    BY <1>1, <2>1 DEF Lifecycle!Tell
  <2> QED
    BY <2>2 DEF AbstractStep, Lifecycle!Next
<1> QED
  BY <1>2, <1>3

(* Recording a delivery confirms what the merchant heard. *)
LEMMA ConfirmStep ==
  ASSUME ProcessorInv, NEW w \in Workers, task[w].pc = "record", heard' = heard,
         Update(w, Released(Delivered(RowOf(w)), task[w].id))
  PROVE  AbstractStep
<1>1. PICK p \in Payments : p = Pay(w) /\ payment[p] \in Row /\ heard[p] # {}
  BY AtWork DEF CallOK, RowOf
<1>2. /\ payment'[p].status = payment[p].status
      /\ payment'[p].delivered
      /\ \A q \in Payments : q # p => payment'[q] = payment[q]
  BY <1>1, RowColumns DEF Update, RowOf, ProcessorInv, TypeOK
<1>3. Lifecycle!Confirm(p)
  BY <1>1, <1>2 DEF Lifecycle!Confirm
<1> QED
  BY <1>3 DEF AbstractStep, Lifecycle!Next

LEMMA NextAbstract ==
  ASSUME ProcessorInv, [Next]_processorVars
  PROVE  AbstractStep
<1>1. CASE payment' = payment /\ heard' = heard
  BY <1>1, QuietStep DEF Quiet
<1>2. ASSUME NEW w \in Workers, Mark(w)
      PROVE  AbstractStep
  BY <1>2, SettleStep DEF Mark, history
<1>3. ASSUME NEW w \in Workers, Acquire(w)
      PROVE  AbstractStep
  <2>1. Pay(w) \in Payments /\ RowOf(w) \in Row /\ heard' = heard
    BY <1>3, AtWork DEF Acquire, history
  <2> QED
    BY <1>1, <1>3, <2>1, QuietUpdate, RowColumns DEF Acquire
<1>4. ASSUME NEW w \in Workers, Recheck(w)
      PROVE  AbstractStep
  <2>1. Pay(w) \in Payments /\ RowOf(w) \in Row /\ heard' = heard
    BY <1>4, AtWork DEF Recheck, history
  <2> QED
    BY <1>1, <1>4, <2>1, QuietUpdate, RowColumns DEF Recheck
<1>5. ASSUME NEW w \in Workers, PostAccepted(w) \/ Retry(w) \/ SendFails(w) \/ SendBreaks(w)
      PROVE  AbstractStep
  BY <1>5, TellStep DEF PostAccepted, Retry, SendFails, SendBreaks, PostRaised
<1>6. ASSUME NEW w \in Workers, RecordDelivered(w) \/ RecordFails(w)
      PROVE  AbstractStep
  BY <1>1, <1>6, ConfirmStep DEF RecordDelivered, RecordFails, DbRaises, history
<1>7. ASSUME NEW w \in Workers, GiveUp(w) \/ CleanUp(w)
      PROVE  AbstractStep
  <2>1. Pay(w) \in Payments /\ RowOf(w) \in Row /\ heard' = heard
    BY <1>7, AtWork DEF GiveUp, CleanUp, history
  <2> QED
    BY <1>7, <2>1, QuietUpdate, RowColumns DEF GiveUp, CleanUp
<1>8. ASSUME NEW w \in Workers, DbError(w)
      PROVE  AbstractStep
  <2>1. Pay(w) \in Payments /\ RowOf(w) \in Row /\ heard' = heard
    BY <1>8, AtWork DEF DbError, DbRaises
  <2>2. CASE task[w].pc = "mark" /\ Update(w, Processed(RowOf(w), task[w].verdict))
    BY <2>1, <2>2, SettleStep
  <2>3. CASE \E id \in FreshIds : Update(w, Locked(RowOf(w), id))
    BY <2>1, <2>3, QuietUpdate, RowColumns
  <2>4. CASE \/ Update(w, Released(RowOf(w), task[w].id))
             \/ Update(w, Released(Undelivered(RowOf(w)), task[w].id))
    BY <2>1, <2>4, QuietUpdate, RowColumns
  <2> QED
    BY <1>1, <1>8, <2>1, <2>2, <2>3, <2>4 DEF DbError
<1>9. CASE Tick
  <2>1. ASSUME NEW p \in Payments
        PROVE  Quiet(p)
    <3>1. payment[p] \in Row
      BY DEF ProcessorInv, TypeOK
    <3> QED
      BY <1>9, <3>1 DEF Quiet, Tick, Row, history
  <2> QED
    BY <2>1, QuietStep
<1>10. ASSUME NEW w \in Workers, NEW p \in Payments, Begin(w, p)
       PROVE  AbstractStep
  BY <1>1, <1>10 DEF Begin, history
<1>11. ASSUME NEW w \in Workers, Load(w) \/ Gateway(w) \/ Finish(w) \/ Crash(w)
       PROVE  AbstractStep
  BY <1>1, <1>11 DEF Load, Gateway, Finish, Crash, history
<1>12. CASE UNCHANGED processorVars
  BY <1>1, <1>12 DEF processorVars
<1> QED
  BY <1>2, <1>3, <1>4, <1>5, <1>6, <1>7, <1>8, <1>9, <1>10, <1>11, <1>12
  DEF Next, Step

(* process() implements the abstract life of a payment: every step of any  *)
(* worker settles a pending payment, tells the merchant about a settled    *)
(* one, records a delivery that happened, or changes none of this.         *)
THEOREM ProcessorImplementsLifecycle == Spec => ImplementsLifecycle
<1>1. Init => Lifecycle!Init
  <2> SUFFICES ASSUME Init PROVE Lifecycle!Init
    OBVIOUS
  <2>1. \A p \in Payments : /\ payment[p].status = "pending"
                            /\ payment[p].delivered = FALSE
                            /\ (heard[p] # {}) = FALSE
    BY DEF Init, NewRow
  <2>2. Payments \in SUBSET Payments
    OBVIOUS
  <2> QED
    BY <2>1, <2>2, Zenon DEF Lifecycle!Init
<1>2. ProcessorInv /\ [Next]_processorVars => [Lifecycle!Next]_(Lifecycle!vars)
  BY NextAbstract DEF AbstractStep
<1> QED
  BY <1>1, <1>2, ProcessorInvariant, PTL
  DEF Spec, ImplementsLifecycle, Lifecycle!Spec

(* The terminal status is written once, a recorded delivery stays          *)
(* (mark_processed, update_webhook_result).                                *)
THEOREM OutcomesFinal == Spec => OutcomeFinal
<1> DEFINE Kept == \A p \in Payments :
             /\ payment[p].status # "pending" => payment'[p].status = payment[p].status
             /\ payment[p].delivered => payment'[p].delivered
<1>1. ProcessorInv /\ [Next]_processorVars => [Kept]_processorVars
  <2> SUFFICES ASSUME ProcessorInv, [Next]_processorVars PROVE Kept
    OBVIOUS
  <2>1. AbstractStep
    BY NextAbstract
  <2> QED
    BY <2>1 DEF AbstractStep, Lifecycle!Next, Lifecycle!vars, Lifecycle!Settle,
                Lifecycle!Accept, Lifecycle!Tell, Lifecycle!Confirm
<1> QED
  BY <1>1, ProcessorInvariant, PTL DEF Spec, OutcomeFinal
-----------------------------------------------------------------------------
(* A step of process() changes its own payment's row, if any, and moves on *)
(* when it does.                                                           *)
OwnRow(w) ==
  /\ \A q \in Payments : q # Pay(w) => payment'[q] = payment[q]
  /\ RowAdvances(RowOf(w), payment'[Pay(w)], task[w].id)
  /\ payment' = payment \/ task'[w].pc # task[w].pc

LEMMA RowUntouched ==
  ASSUME ProcessorInv, NEW w \in Workers, payment' = payment
  PROVE  OwnRow(w)
BY DEF OwnRow, RowAdvances, RowOf

LEMMA RowTouched ==
  ASSUME ProcessorInv, NEW w \in Workers, Pay(w) \in Payments, NEW row,
         Update(w, row), RowAdvances(RowOf(w), row, task[w].id),
         task'[w].pc # task[w].pc
  PROVE  OwnRow(w)
BY DEF OwnRow, Update, ProcessorInv, TypeOK

LEMMA StepOwnRow ==
  ASSUME ProcessorInv, NEW w \in Workers, Step(w)
  PROVE  OwnRow(w) /\ Pay(w) \in Payments
<1>0. task[w].pc # "idle"
  BY DEF Step, Load, Gateway, Mark, Acquire, Recheck, PostAccepted, Retry, SendFails,
         SendBreaks, PostRaised, RecordDelivered, RecordFails, GiveUp, CleanUp, DbError
<1>1. /\ Pay(w) \in Payments /\ RowOf(w) \in Row /\ CallOK(w)
      /\ task[w] \in Task /\ task \in [Workers -> Task]
  BY <1>0, AtWork DEF ProcessorInv, TypeOK
<1>2. task[w].id \in LockIds \cup {None}
  BY <1>1 DEF Task
<1>3. /\ RowAdvances(RowOf(w), Released(RowOf(w), task[w].id), task[w].id)
      /\ RowAdvances(RowOf(w), Released(Delivered(RowOf(w)), task[w].id), task[w].id)
      /\ RowAdvances(RowOf(w), Released(Undelivered(RowOf(w)), task[w].id), task[w].id)
      /\ task[w].verdict \in Outcomes =>
           RowAdvances(RowOf(w), Processed(RowOf(w), task[w].verdict), task[w].id)
  <2>1. PICK s \in Outcomes : task[w].verdict \in Outcomes => s = task[w].verdict
    BY DEF Outcomes
  <2> QED
    BY <1>1, <1>2, <2>1, RowSteps
<1>4. \A id \in FreshIds : CanLock(RowOf(w), id) =>
        RowAdvances(RowOf(w), Locked(RowOf(w), id), task[w].id)
  BY <1>1, LockSteps DEF RowOf
<1>5. CASE Load(w) \/ Gateway(w) \/ PostAccepted(w) \/ Retry(w) \/ SendFails(w) \/ SendBreaks(w)
  BY <1>1, <1>5, RowUntouched
  DEF Load, Gateway, PostAccepted, Retry, SendFails, SendBreaks, PostRaised
<1>6. CASE Mark(w)
  <2>1. task[w].verdict \in Outcomes /\ task'[w].pc # task[w].pc
    BY <1>1, <1>6 DEF Mark, CallOK, End, At, Goto, Task
  <2> QED
    BY <1>1, <1>3, <1>6, <2>1, RowTouched DEF Mark
<1>7. CASE Acquire(w)
  <2>1. task'[w].pc # task[w].pc
    BY <1>1, <1>7 DEF Acquire, End, At, Task
  <2> QED
    BY <1>1, <1>4, <1>7, <2>1, RowTouched, RowUntouched DEF Acquire
<1>8. CASE Recheck(w)
  <2>1. task'[w].pc # task[w].pc
    BY <1>1, <1>8 DEF Recheck, End, At, Task
  <2> QED
    BY <1>1, <1>3, <1>8, <2>1, RowTouched, RowUntouched DEF Recheck
<1>9. CASE RecordDelivered(w) \/ RecordFails(w)
  <2>1. task'[w].pc # task[w].pc
    BY <1>1, <1>9 DEF RecordDelivered, RecordFails, End, Abandon, At, Task
  <2> QED
    BY <1>1, <1>3, <1>9, <2>1, RowTouched, RowUntouched DEF RecordDelivered, RecordFails
<1>10. CASE GiveUp(w) \/ CleanUp(w)
  <2>1. task'[w].pc # task[w].pc
    BY <1>1, <1>10 DEF GiveUp, CleanUp, End, At
  <2> QED
    BY <1>1, <1>3, <1>10, <2>1, RowTouched DEF GiveUp, CleanUp
<1>11. CASE DbError(w)
  <2>1. task'[w].pc # task[w].pc
    BY <1>1, <1>11 DEF DbError, End, At
  <2>2. task[w].pc = "mark" => task[w].verdict \in Outcomes
    BY <1>1 DEF CallOK
  <2> QED
    BY <1>1, <1>3, <1>4, <1>11, <2>1, <2>2, RowTouched, RowUntouched DEF DbError
<1> QED
  BY <1>1, <1>5, <1>6, <1>7, <1>8, <1>9, <1>10, <1>11 DEF Step

(* Whoever changes a payment's status is a call of process() for it.       *)
LEMMA SettledByItsCall ==
  ASSUME ProcessorInv, [Next]_processorVars, NEW p \in Payments,
         payment'[p].status # payment[p].status
  PROVE  \E w \in Workers : Pay(w) = p
<1>1. ASSUME NEW w \in Workers, Step(w)
      PROVE  Pay(w) = p
  BY <1>1, StepOwnRow DEF OwnRow
<1>2. ASSUME Tick
      PROVE  FALSE
  BY <1>2 DEF Tick, ProcessorInv, TypeOK, Row
<1> QED
  BY <1>1, <1>2 DEF Next, Begin, Finish, Crash, processorVars

(* A lock that is not stale is taken from the row only by a step of the    *)
(* call that acquired it (acquire_webhook_lock, release_webhook_lock).     *)
THEOREM LocksKept == Spec => LockKeptForOwner
<1> DEFINE Kept == \A p \in Payments :
             LET id == payment[p].lock IN
             id # None /\ payment[p].age <= LockTTL /\ payment'[p].lock # id
               => \E w \in Workers : task[w].id = id /\ task'[w] # task[w]
<1>1. ProcessorInv /\ [Next]_processorVars => [Kept]_processorVars
  <2> SUFFICES ASSUME ProcessorInv, Next, NEW p \in Payments,
                      payment[p].lock # None, payment[p].age <= LockTTL,
                      payment'[p].lock # payment[p].lock
               PROVE  \E w \in Workers :
                        task[w].id = payment[p].lock /\ task'[w] # task[w]
    OBVIOUS
  <2>1. ASSUME NEW w \in Workers, Step(w)
        PROVE  task[w].id = payment[p].lock /\ task'[w] # task[w]
    <3>1. OwnRow(w) /\ Pay(w) = p
      BY <2>1, StepOwnRow DEF OwnRow
    <3>2. ~(payment[p].age > LockTTL)
      BY ProcessorAssumption DEF ProcessorInv, TypeOK, Row
    <3> QED
      BY <3>1, <3>2 DEF OwnRow, RowAdvances, RowOf
  <2>2. ASSUME Tick
        PROVE  FALSE
    BY <2>2 DEF Tick, ProcessorInv, TypeOK, Row
  <2> QED
    BY <2>1, <2>2 DEF Next, Begin, Finish, Crash
<1> QED
  BY <1>1, ProcessorInvariant, PTL DEF Spec, LockKeptForOwner

(* The rows and the calls keep their types throughout.                     *)
THEOREM ProcessorTypes == Spec => []TypeOK
<1>1. ProcessorInv => TypeOK
  BY DEF ProcessorInv
<1> QED
  BY <1>1, ProcessorInvariant, PTL
=============================================================================
