------------------------ MODULE PaymentIntake_proofs ------------------------
(***************************************************************************)
(* For any number of requests, keys and ids: rows of open and of committed *)
(* transactions stay apart, answers for one key agree, every payment has   *)
(* its one event, and what can be seen of the requests is PaymentRegistry. *)
(***************************************************************************)
EXTENDS PaymentIntake, TLAPS

LEMMA SessionTypes ==
  ASSUME IntakeInv, NEW r \in Requests
  PROVE  /\ request[r] \in Request
         /\ SessionOK(r)
         /\ request[r].pc \in {"event", "commit", "answer"} =>
              /\ request[r].row.key \in Keys /\ request[r].row.id \in Ids
              /\ request[r].row = [key |-> request[r].row.key, id |-> request[r].row.id]
         /\ request[r].pc = "select" => Conflicts(request[r].key, payments) # {}
<1>1. request[r] \in Request /\ SessionOK(r)
  BY DEF IntakeInv, TypeOK
<1>2. \A p \in Payment : p.key \in Keys /\ p.id \in Ids /\ p = [key |-> p.key, id |-> p.id]
  BY DEF Payment
<1> QED
  BY <1>1, <1>2 DEF SessionOK, IntakeInv, ExistingPresent

LEMMA IdleSession == Idle \in Request /\ Idle.pc = "idle" /\ ~Idle.created /\ ~Idle.written
BY DEF Idle, Request

(* A step that commits nothing: one session moves, and a row it now has in *)
(* flight is apart from all the others.                                    *)
LEMMA SessionMoves ==
  ASSUME IntakeInv, NEW r \in Requests,
         request'[r] \in Request, request' \in [Requests -> Request],
         \A s \in Requests : s # r => request'[s] = request[s],
         UNCHANGED <<payments, events>>, answers' \subseteq payments,
         SessionOK(r)',
         request'[r].pc = "select" => Conflicts(request'[r].key, payments) # {},
         request'[r].created =>
           /\ \A p \in payments : p.key # request'[r].row.key /\ p.id # request'[r].row.id
           /\ \A s \in Requests : s # r /\ request[s].created =>
                /\ request[s].row.key # request'[r].row.key
                /\ request[s].row.id # request'[r].row.id
  PROVE  IntakeInv'
<1>1. TypeOK'
  BY DEF IntakeInv, TypeOK
<1>2. ASSUME NEW s \in Requests
      PROVE  SessionOK(s)'
  <2>1. CASE s # r
    BY <2>1 DEF IntakeInv, SessionOK
  <2> QED
    BY <2>1
<1>3. RowsApart'
  BY DEF IntakeInv, RowsApart
<1>4. OneEventPerPayment'
  BY DEF IntakeInv, OneEventPerPayment
<1>5. ExistingPresent'
  BY DEF IntakeInv, ExistingPresent, Conflicts
<1> QED
  BY <1>1, <1>2, <1>3, <1>4, <1>5 DEF IntakeInv

(* A session that goes back to idle, or on without a row of its own. *)
LEMMA ReceiveKeeps ==
  ASSUME IntakeInv, NEW r \in Requests, NEW key \in Keys, Receive(r, key)
  PROVE  IntakeInv'
<1>1. request'[r] = [Idle EXCEPT !.pc = "insert", !.key = key]
  BY DEF Receive, IntakeInv, TypeOK
<1>2. /\ request'[r] \in Request /\ request'[r].pc = "insert" /\ request'[r].key = key
      /\ ~request'[r].created /\ ~request'[r].written
  BY <1>1 DEF Idle, Request
<1>3. request' \in [Requests -> Request]
  BY <1>1, <1>2 DEF Receive, IntakeInv, TypeOK
<1>4. SessionOK(r)'
  BY <1>2 DEF SessionOK
<1> QED
  BY <1>2, <1>3, <1>4, SessionMoves DEF Receive, IntakeInv, OneEventPerPayment

(* The key is in no row, and no other open transaction has it. *)
LEMMA InsertedApart ==
  ASSUME IntakeInv, NEW key \in Keys, NEW id \in FreshIds,
         Conflicts(key, payments) = {}, Conflicts(key, InFlight) = {}
  PROVE  /\ id \in Ids
         /\ \A p \in payments : p.key # key /\ p.id # id
         /\ \A s \in Requests : request[s].created =>
              request[s].row.key # key /\ request[s].row.id # id
<1>1. \A p \in payments \cup InFlight : p.key # key /\ p.id # id
  BY DEF Conflicts, FreshIds
<1>2. \A s \in Requests : request[s].created => request[s].row \in InFlight
  BY DEF InFlight, Inserted
<1> QED
  BY <1>1, <1>2 DEF FreshIds

LEMMA InsertKeeps ==
  ASSUME IntakeInv, NEW r \in Requests, Insert(r)
  PROVE  IntakeInv'
<1> DEFINE key == request[r].key
<1>1. /\ request[r].pc = "insert" /\ UNCHANGED <<payments, events, answers>>
      /\ request[r] \in Request /\ key \in Keys
      /\ ~request[r].created /\ ~request[r].written
      /\ request \in [Requests -> Request]
  BY SessionTypes DEF Insert, SessionOK, IntakeInv, TypeOK
<1>2. CASE /\ Conflicts(key, payments) # {}
           /\ request' = [request EXCEPT ![r].pc = "select"]
  <2>1. request'[r] = [request[r] EXCEPT !.pc = "select"]
    BY <1>1, <1>2
  <2>2. /\ request'[r] \in Request /\ request'[r].pc = "select" /\ request'[r].key = key
        /\ ~request'[r].created /\ ~request'[r].written
    BY <1>1, <2>1 DEF Request
  <2>3. SessionOK(r)'
    BY <1>1, <2>2 DEF SessionOK
  <2> QED
    BY <1>1, <1>2, <2>2, <2>3, SessionMoves DEF IntakeInv, OneEventPerPayment
<1>3. ASSUME Conflicts(key, payments) = {}, Conflicts(key, InFlight) = {},
             NEW id \in FreshIds,
             request' = [request EXCEPT ![r].pc = "event",
                                        ![r].row = [key |-> key, id |-> id],
                                        ![r].created = TRUE]
      PROVE  IntakeInv'
  <2> HIDE DEF key
  <2>1. /\ id \in Ids
        /\ \A p \in payments : p.key # key /\ p.id # id
        /\ \A s \in Requests : request[s].created =>
             request[s].row.key # key /\ request[s].row.id # id
    BY <1>1, <1>3, InsertedApart
  <2> DEFINE new == [key |-> key, id |-> id]
  <2>2. new \in Payment /\ new.key = key /\ new.id = id
    BY <1>1, <2>1 DEF Payment
  <2>3. request'[r] = [[[request[r] EXCEPT !.pc = "event"] EXCEPT !.row = new]
                         EXCEPT !.created = TRUE]
    BY <1>1, <1>3
  <2> HIDE DEF new
  <2>4. /\ request'[r] \in Request /\ request'[r].pc = "event"
        /\ request'[r].key = key /\ request'[r].row = new
        /\ request'[r].created /\ ~request'[r].written
    BY <1>1, <2>2, <2>3 DEF Request, key
  <2>5. SessionOK(r)'
    BY <1>1, <2>2, <2>4 DEF SessionOK
  <2>6. request' \in [Requests -> Request]
    BY <1>1, <1>3, <2>4 DEF new
  <2> QED
    BY <1>1, <1>3, <2>1, <2>2, <2>4, <2>5, <2>6, SessionMoves
    DEF IntakeInv, OneEventPerPayment
<1> QED
  BY <1>1, <1>2, <1>3 DEF Insert

LEMMA SelectKeeps ==
  ASSUME IntakeInv, NEW r \in Requests, Select(r)
  PROVE  IntakeInv'
<1>1. PICK p \in Conflicts(request[r].key, payments) :
        request' = [request EXCEPT ![r].pc = "commit", ![r].row = p]
  BY DEF Select
<1>2. /\ request[r].pc = "select" /\ UNCHANGED <<payments, events, answers>>
      /\ request[r] \in Request /\ request[r].key \in Keys
      /\ ~request[r].created /\ ~request[r].written
      /\ request \in [Requests -> Request]
  BY SessionTypes DEF Select, SessionOK, IntakeInv, TypeOK
<1>3. p \in payments /\ p \in Payment /\ p.key = request[r].key
  BY DEF Conflicts, IntakeInv, TypeOK
<1>4. request'[r] = [[request[r] EXCEPT !.pc = "commit"] EXCEPT !.row = p]
  BY <1>1, <1>2
<1>5. /\ request'[r] \in Request /\ request'[r].pc = "commit" /\ request'[r].row = p
      /\ request'[r].key = request[r].key
      /\ ~request'[r].created /\ ~request'[r].written
  BY <1>2, <1>3, <1>4 DEF Request
<1>6. SessionOK(r)'
  BY <1>2, <1>3, <1>5 DEF SessionOK
<1> QED
  BY <1>1, <1>2, <1>5, <1>6, SessionMoves DEF IntakeInv, OneEventPerPayment

LEMMA CreateEventKeeps ==
  ASSUME IntakeInv, NEW r \in Requests, CreateEvent(r)
  PROVE  IntakeInv'
<1>1. /\ request[r].pc = "event" /\ UNCHANGED <<payments, events, answers>>
      /\ request' = [request EXCEPT ![r].pc = "commit", ![r].written = TRUE]
      /\ request[r] \in Request /\ SessionOK(r) /\ request[r].created
      /\ request \in [Requests -> Request]
  BY SessionTypes DEF CreateEvent, SessionOK, IntakeInv, TypeOK
<1>2. request'[r] = [[request[r] EXCEPT !.pc = "commit"] EXCEPT !.written = TRUE]
  BY <1>1
<1>3. /\ request'[r] \in Request /\ request'[r].pc = "commit" /\ request'[r].written
      /\ request'[r].created /\ request'[r].row = request[r].row
      /\ request'[r].key = request[r].key
  BY <1>1, <1>2 DEF Request
<1>4. SessionOK(r)'
  BY <1>1, <1>3 DEF SessionOK
<1>5. /\ \A p \in payments : p.key # request[r].row.key /\ p.id # request[r].row.id
      /\ \A s \in Requests : s # r /\ request[s].created =>
           request[s].row.key # request[r].row.key /\ request[s].row.id # request[r].row.id
  BY <1>1 DEF IntakeInv, RowsApart
<1> QED
  BY <1>1, <1>3, <1>4, <1>5, SessionMoves DEF IntakeInv, OneEventPerPayment

LEMMA RespondKeeps ==
  ASSUME IntakeInv, NEW r \in Requests, Respond(r)
  PROVE  IntakeInv'
<1>1. request[r].row \in payments
  BY SessionTypes DEF Respond, SessionOK
<1>2. request'[r] = Idle /\ request' \in [Requests -> Request]
  BY IdleSession DEF Respond, IntakeInv, TypeOK
<1>3. SessionOK(r)'
  BY <1>2, IdleSession DEF SessionOK
<1>4. answers' \subseteq payments
  BY <1>1 DEF Respond, IntakeInv, OneEventPerPayment
<1> QED
  BY <1>2, <1>3, <1>4, IdleSession, SessionMoves DEF Respond

(* The transaction is rolled back. *)
LEMMA RollbackKeeps ==
  ASSUME IntakeInv, NEW r \in Requests, UNCHANGED <<payments, events, answers>>,
         request' = [request EXCEPT ![r] = Idle]
  PROVE  IntakeInv'
<1>1. request'[r] = Idle /\ request' \in [Requests -> Request]
  BY IdleSession DEF IntakeInv, TypeOK
<1>2. SessionOK(r)'
  BY <1>1, IdleSession DEF SessionOK
<1> QED
  BY <1>1, <1>2, IdleSession, SessionMoves DEF IntakeInv, OneEventPerPayment

-----------------------------------------------------------------------------
(* What a commit makes visible: nothing, or one payment with its event. *)
LEMMA CommitShows ==
  ASSUME IntakeInv, NEW r \in Requests, request[r].pc = "commit", Committed(r)
  PROVE  /\ request[r].row \in payments'
         /\ \/ ~request[r].created /\ payments' = payments /\ events' = events
            \/ /\ request[r].created
               /\ request[r].row.key \in Keys /\ request[r].row.id \in Ids
               /\ \A p \in payments : p.key # request[r].row.key /\ p.id # request[r].row.id
               /\ payments' = payments \cup
                    {[key |-> request[r].row.key, id |-> request[r].row.id]}
               /\ events' = [events EXCEPT ![request[r].row.id] = 1]
<1>1. SessionOK(r)
  BY SessionTypes
<1>2. CASE ~request[r].created
  <2>1. ~request[r].written /\ request[r].row \in payments
    BY <1>1, <1>2 DEF SessionOK
  <2> QED
    BY <1>2, <2>1 DEF Committed, Inserted
<1>3. CASE request[r].created
  <2> DEFINE row == request[r].row
  <2>1. request[r].written
    BY <1>1, <1>3 DEF SessionOK
  <2>2. row.key \in Keys /\ row.id \in Ids /\ row = [key |-> row.key, id |-> row.id]
    BY SessionTypes
  <2>3. \A p \in payments : p.key # row.key /\ p.id # row.id
    BY <1>3 DEF IntakeInv, RowsApart
  <2>4. payments' = payments \cup {row}
    BY <1>3 DEF Committed, Inserted
  <2>5. events[row.id] = 0
    BY <2>2, <2>3 DEF IntakeInv, OneEventPerPayment
  <2>6. events' = [events EXCEPT ![row.id] = 1]
    BY <2>1, <2>5 DEF Committed
  <2> QED
    BY <1>3, <2>2, <2>3, <2>4, <2>6
<1> QED
  BY <1>2, <1>3

LEMMA CommittedKeeps ==
  ASSUME IntakeInv, NEW r \in Requests, request[r].pc = "commit", Committed(r),
         UNCHANGED answers, request' \in [Requests -> Request],
         \A s \in Requests : s # r => request'[s] = request[s],
         ~request'[r].created, request'[r].pc # "select", SessionOK(r)'
  PROVE  IntakeInv'
<1> DEFINE row == request[r].row
<1>1. CASE ~request[r].created
  <2>1. UNCHANGED <<payments, events>>
    BY <1>1, CommitShows
  <2> QED
    BY <2>1, SessionMoves DEF IntakeInv, OneEventPerPayment
<1>2. CASE request[r].created
  <2>1. /\ row.key \in Keys /\ row.id \in Ids
        /\ \A p \in payments : p.key # row.key /\ p.id # row.id
        /\ payments' = payments \cup {[key |-> row.key, id |-> row.id]}
        /\ events' = [events EXCEPT ![row.id] = 1]
        /\ row = [key |-> row.key, id |-> row.id] /\ row \in Payment
    BY <1>2, CommitShows, SessionTypes DEF SessionOK
  <2>2. \A s \in Requests : s # r /\ request[s].created =>
          request[s].row.key # row.key /\ request[s].row.id # row.id
    BY <1>2 DEF IntakeInv, RowsApart
  <2> HIDE DEF row
  <2>3. payments' = payments \cup {row}
    BY <2>1
  <2>4. TypeOK'
    BY <2>1, <2>3 DEF IntakeInv, TypeOK
  <2>5. ASSUME NEW s \in Requests
        PROVE  SessionOK(s)'
    <3>1. CASE s # r
      BY <2>3, <3>1 DEF IntakeInv, SessionOK
    <3> QED
      BY <3>1
  <2>6. RowsApart'
    BY <2>1, <2>2, <2>3 DEF IntakeInv, RowsApart
  <2>7. OneEventPerPayment'
    <3>1. \A i \in Ids : i # row.id => events'[i] = events[i]
      BY <2>1 DEF IntakeInv, TypeOK
    <3>2. events'[row.id] = 1
      BY <2>1 DEF IntakeInv, TypeOK
    <3>3. \A i \in Ids : i # row.id =>
            ((\E p \in payments' : p.id = i) <=> (\E p \in payments : p.id = i))
      BY <2>3
    <3> QED
      BY <2>3, <3>1, <3>2, <3>3 DEF IntakeInv, OneEventPerPayment
  <2>8. ExistingPresent'
    BY <2>3 DEF IntakeInv, ExistingPresent, Conflicts
  <2> QED
    BY <2>4, <2>5, <2>6, <2>7, <2>8 DEF IntakeInv
<1> QED
  BY <1>1, <1>2

LEMMA CommitKeeps ==
  ASSUME IntakeInv, NEW r \in Requests, Commit(r)
  PROVE  IntakeInv'
<1>1. /\ request[r].pc = "commit" /\ Committed(r) /\ UNCHANGED answers
      /\ request' = [request EXCEPT ![r].pc = "answer", ![r].created = FALSE,
                                    ![r].written = FALSE]
      /\ request[r] \in Request /\ SessionOK(r)
      /\ request \in [Requests -> Request]
  BY SessionTypes DEF Commit, IntakeInv, TypeOK
<1>2. request'[r] = [[[request[r] EXCEPT !.pc = "answer"] EXCEPT !.created = FALSE]
                       EXCEPT !.written = FALSE]
  BY <1>1
<1>3. /\ request'[r] \in Request /\ request'[r].pc = "answer"
      /\ ~request'[r].created /\ ~request'[r].written
      /\ request'[r].row = request[r].row /\ request'[r].key = request[r].key
  BY <1>1, <1>2 DEF Request
<1>4. request[r].row \in payments'
  BY <1>1, CommitShows
<1>5. SessionOK(r)'
  BY <1>1, <1>3, <1>4 DEF SessionOK
<1> QED
  BY <1>1, <1>3, <1>5, CommittedKeeps

LEMMA FailKeeps ==
  ASSUME IntakeInv, NEW r \in Requests, Fail(r)
  PROVE  IntakeInv'
<1>1. CASE UNCHANGED <<payments, events>>
  BY <1>1, RollbackKeeps DEF Fail
<1>2. CASE request[r].pc = "commit" /\ Committed(r)
  <2>1. request'[r] = Idle /\ request' \in [Requests -> Request]
    BY IdleSession DEF Fail, IntakeInv, TypeOK
  <2>2. SessionOK(r)'
    BY <2>1, IdleSession DEF SessionOK
  <2> QED
    BY <1>2, <2>1, <2>2, IdleSession, CommittedKeeps DEF Fail
<1> QED
  BY <1>1, <1>2 DEF Fail

-----------------------------------------------------------------------------
LEMMA IntakeInitially == Init => IntakeInv
<1> SUFFICES ASSUME Init PROVE IntakeInv
  OBVIOUS
<1>1. \A r \in Requests : request[r] = Idle
  BY DEF Init
<1>2. TypeOK
  BY IdleSession DEF Init, TypeOK
<1>3. \A r \in Requests : SessionOK(r)
  BY <1>1, IdleSession DEF SessionOK
<1>4. RowsApart /\ OneEventPerPayment /\ ExistingPresent
  BY <1>1, IdleSession DEF Init, RowsApart, OneEventPerPayment, ExistingPresent
<1> QED
  BY <1>2, <1>3, <1>4 DEF IntakeInv

LEMMA IntakeNextKeeps ==
  ASSUME IntakeInv, [Next]_vars
  PROVE  IntakeInv'
<1>1. CASE UNCHANGED vars
  BY <1>1 DEF vars, IntakeInv, TypeOK, SessionOK, RowsApart, OneEventPerPayment,
              ExistingPresent, Conflicts
<1>2. CASE Next
  BY <1>2, ReceiveKeeps, InsertKeeps, SelectKeeps, CreateEventKeeps, CommitKeeps,
     RespondKeeps, FailKeeps DEF Next
<1> QED
  BY <1>1, <1>2

(* The inductive invariant of the intake's transactions (upsert_pending,   *)
(* create_event and the commit of create_payment), for any number of them. *)
THEOREM IntakeInvariant == Spec => []IntakeInv
<1>1. IntakeInv /\ [Next]_vars => IntakeInv'
  BY IntakeNextKeeps
<1> QED
  BY <1>1, IntakeInitially, PTL DEF Spec

(* All answers for one Idempotency-Key name one payment. *)
THEOREM IntakeAnswersAgree == Spec => []AnswersAgree
<1>1. IntakeInv => AnswersAgree
  BY DEF IntakeInv, OneEventPerPayment, RowsApart, AnswersAgree
<1> QED
  BY <1>1, IntakeInvariant, PTL

(* A payment and its event stand or fall together; answers are committed   *)
(* (PaymentService.create_payment, one transaction for both rows).         *)
THEOREM IntakeOneEvent == Spec => []OneEventPerPayment
<1>1. IntakeInv => OneEventPerPayment
  BY DEF IntakeInv
<1> QED
  BY <1>1, IntakeInvariant, PTL

(* The assertion of repositories.py:76 cannot fail. *)
THEOREM IntakeExistingPresent == Spec => []ExistingPresent
<1>1. IntakeInv => ExistingPresent
  BY DEF IntakeInv
<1> QED
  BY <1>1, IntakeInvariant, PTL

(* The tables and the requests' sessions keep their types throughout.      *)
THEOREM IntakeTypeOK == Spec => []TypeOK
<1>1. IntakeInv => TypeOK
  BY DEF IntakeInv
<1> QED
  BY <1>1, IntakeInvariant, PTL

-----------------------------------------------------------------------------
(* What others see of a request's step: nothing, or one payment with its   *)
(* event.                                                                  *)
Registers(key, id) ==
  /\ \A p \in payments : p.key # key /\ p.id # id
  /\ events[id] = 0
  /\ payments' = payments \cup {[key |-> key, id |-> id]}
  /\ events' = [events EXCEPT ![id] = 1]

LEMMA IntakeShows ==
  ASSUME IntakeInv, [Next]_vars
  PROVE  \/ UNCHANGED <<payments, events>>
         \/ \E key \in Keys, id \in Ids : Registers(key, id)
<1>1. ASSUME NEW r \in Requests, request[r].pc = "commit", Committed(r)
      PROVE  \/ UNCHANGED <<payments, events>>
             \/ \E key \in Keys, id \in Ids : Registers(key, id)
  <2>1. CASE ~request[r].created
    BY <1>1, <2>1, CommitShows
  <2>2. CASE request[r].created
    <3>1. Registers(request[r].row.key, request[r].row.id)
      BY <1>1, <2>2, CommitShows DEF Registers, IntakeInv, OneEventPerPayment
    <3> QED
      BY <1>1, <2>2, <3>1, CommitShows
  <2> QED
    BY <2>1, <2>2
<1> QED
  BY <1>1 DEF Next, vars, Receive, Insert, Select, CreateEvent, Commit, Respond, Fail

-----------------------------------------------------------------------------
(* Step by step, a request that commits a row of its own registers the     *)
(* payment, one that is heard answers, and the rest cannot be seen.        *)
RegistryStep == [Registry!Next]_(Registry!vars)

LEMMA CommittedStep ==
  ASSUME IntakeInv, NEW r \in Requests, request[r].pc = "commit", Committed(r),
         UNCHANGED answers
  PROVE  RegistryStep
<1>1. CASE ~request[r].created
  BY <1>1, CommitShows DEF RegistryStep, Registry!vars
<1>2. CASE request[r].created
  <2>1. Registry!Register(request[r].row.key, request[r].row.id)
    BY <1>2, CommitShows DEF Registry!Register
  <2>2. request[r].row.key \in Keys /\ request[r].row.id \in Ids
    BY <1>2, CommitShows
  <2> QED
    BY <2>1, <2>2 DEF RegistryStep, Registry!Next
<1> QED
  BY <1>1, <1>2

LEMMA IntakeStep ==
  ASSUME IntakeInv, [Next]_vars
  PROVE  RegistryStep
<1>1. CASE UNCHANGED <<payments, events, answers>>
  BY <1>1 DEF RegistryStep, Registry!vars
<1>2. ASSUME NEW r \in Requests, Respond(r)
      PROVE  RegistryStep
  <2>1. request[r].row \in payments
    BY <1>2, SessionTypes DEF Respond, SessionOK
  <2>2. CASE answers' = answers \cup {request[r].row}
    BY <1>2, <2>1, <2>2 DEF Respond, RegistryStep, Registry!Next, Registry!Answer
  <2> QED
    BY <1>1, <1>2, <2>2 DEF Respond
<1>3. ASSUME NEW r \in Requests, Commit(r)
      PROVE  RegistryStep
  BY <1>3, CommittedStep DEF Commit
<1>4. ASSUME NEW r \in Requests, Fail(r)
      PROVE  RegistryStep
  BY <1>1, <1>4, CommittedStep DEF Fail
<1>5. ASSUME NEW r \in Requests, \/ \E key \in Keys : Receive(r, key)
                                 \/ Insert(r) \/ Select(r) \/ CreateEvent(r)
      PROVE  UNCHANGED <<payments, events, answers>>
  BY <1>5 DEF Receive, Insert, Select, CreateEvent
<1>6. CASE UNCHANGED vars
  BY <1>1, <1>6 DEF vars
<1> QED
  BY <1>1, <1>2, <1>3, <1>4, <1>5, <1>6 DEF Next

(* However requests overlap, fail and are repeated, they look as if served *)
(* one at a time (PaymentService.create_payment over upsert_pending).      *)
THEOREM IntakeImplementsRegistry == Spec => ImplementsRegistry
<1>1. Init => Registry!Init
  BY DEF Init, Registry!Init
<1>2. IntakeInv /\ [Next]_vars => [Registry!Next]_(Registry!vars)
  BY IntakeStep DEF RegistryStep
<1> QED
  BY <1>1, <1>2, IntakeInvariant, PTL DEF Spec, ImplementsRegistry, Registry!Spec
=============================================================================
