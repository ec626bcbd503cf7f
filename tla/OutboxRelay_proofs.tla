------------------------- MODULE OutboxRelay_proofs -------------------------
(***************************************************************************)
(* For any number of relays and events, any batch size, TTL and number of  *)
(* mishaps: what is marked published reached the payments queue, and valid *)
(* claims exclude each other until some batch outlives its TTL.            *)
(***************************************************************************)
EXTENDS OutboxRelay, TLAPS

LEMMA RelayTypes ==
  ASSUME TypeOK, NEW r \in Relays
  PROVE  /\ relay[r] \in Relay
         /\ relay[r].todo \subseteq Events
         /\ relay[r].event \in Events \cup {None}
         /\ relay[r].held \in 0..(LockTTL + 1)
         /\ relay[r].stopping \in BOOLEAN
BY DEF TypeOK, Relay

LEMMA DownTypes ==
  /\ Down \in Relay
  /\ \A b \in BOOLEAN : [Down EXCEPT !.pc = "poll", !.stopping = b] \in Relay
  /\ \A b \in BOOLEAN :
       LET d == [Down EXCEPT !.pc = "poll", !.stopping = b] IN
       d.pc = "poll" /\ d.todo = {} /\ d.event = None /\ d.held = 0
<1>1. 0 \in 0..(LockTTL + 1)
  BY RelayAssumption
<1> QED
  BY <1>1 DEF Down, Relay

LEMMA RowTypes ==
  /\ Claimed \in OutboxRow
  /\ Unlocked("absent") \in OutboxRow
  /\ Unlocked("pending") \in OutboxRow
  /\ Unlocked("published") \in OutboxRow
<1>1. 0 \in 0..(LockTTL + 1)
  BY RelayAssumption
<1> QED
  BY <1>1 DEF Claimed, Unlocked, OutboxRow

LEMMA OlderTypes ==
  ASSUME NEW n \in 0..(LockTTL + 1)
  PROVE  Older(n) \in 0..(LockTTL + 1)
BY RelayAssumption DEF Older

(* Every step of a relay concerns one relay: what the step has to keep for *)
(* the others is that nobody takes or frees a row they hold.               *)
LEMMA RelayMoves ==
  ASSUME RelayInv, TypeOK', NEW r \in Relays,
         \A s \in Relays : s # r => relay'[s] = relay[s],
         bound => bound',
         \A e \in Events : sent[e] > 0 => sent'[e] > 0,
         PublishedWasSent',
         PlaceOK(r)',
         overran' = overran,
         ~overran => \A s \in Relays : s # r =>
                       \A e \in Batch(s) : outbox'[e] = outbox[e],
         ~overran => ClaimOK(r)',
         ~overran => \A s \in Relays : s # r => Batch(r)' \cap Batch(s) = {}
  PROVE  RelayInv'
<1>1. ASSUME NEW s \in Relays, s # r
      PROVE  Batch(s)' = Batch(s)
  BY <1>1 DEF Batch
<1>2. ASSUME NEW s \in Relays
      PROVE  PlaceOK(s)'
  <2>1. CASE s # r
    <3>1. PlaceOK(s) /\ relay'[s] = relay[s]
      BY <2>1 DEF RelayInv
    <3>2. relay[s].pc = "mark" => relay[s].event \in Events
      BY <3>1, RelayTypes DEF RelayInv, PlaceOK
    <3> QED
      BY <3>1, <3>2 DEF PlaceOK
  <2> QED
    BY <2>1
<1>3. ASSUME ~overran', NEW s \in Relays
      PROVE  ClaimOK(s)'
  <2>1. CASE s # r
    <3>1. ClaimOK(s) /\ relay'[s] = relay[s] /\ Batch(s)' = Batch(s)
      BY <1>1, <1>3, <2>1 DEF RelayInv
    <3>2. \A e \in Batch(s) : outbox'[e] = outbox[e]
      BY <1>3, <2>1
    <3> QED
      BY <3>1, <3>2 DEF ClaimOK
  <2> QED
    BY <1>3, <2>1
<1>4. ClaimExclusion'
  <2> SUFFICES ASSUME ~overran', NEW s \in Relays, NEW t \in Relays, s # t
               PROVE  Batch(s)' \cap Batch(t)' = {}
    BY DEF ClaimExclusion
  <2>1. CASE s # r /\ t # r
    BY <1>1, <2>1 DEF RelayInv, ClaimExclusion
  <2>2. CASE s = r
    BY <1>1, <2>2
  <2>3. CASE t = r
    BY <1>1, <2>3
  <2> QED
    BY <2>1, <2>2, <2>3
<1> QED
  BY <1>2, <1>3, <1>4 DEF RelayInv

(* The case of a relay that has nothing in hand after its step. *)
LEMMA RelayEmpty ==
  ASSUME RelayInv, TypeOK', NEW r \in Relays,
         \A s \in Relays : s # r => relay'[s] = relay[s],
         relay'[r].pc \in {"down", "boot", "poll"},
         relay'[r].pc = "poll" => bound',
         relay'[r].todo = {}, relay'[r].event = None, relay'[r].held = 0,
         bound => bound',
         sent' = sent,
         PublishedWasSent',
         overran' = overran,
         ~overran => \A s \in Relays : s # r =>
                       \A e \in Batch(s) : outbox'[e] = outbox[e]
  PROVE  RelayInv'
<1>1. Batch(r)' = {}
  BY DEF Batch
<1>2. PlaceOK(r)'
  BY DEF PlaceOK
<1>3. ClaimOK(r)'
  BY <1>1 DEF ClaimOK
<1> QED
  BY <1>1, <1>2, <1>3, RelayMoves

LEMMA Quiet ==
  ASSUME RelayInv, NEW r \in Relays,
         relay[r].pc \in {"down", "boot", "poll"}
  PROVE  relay[r].todo = {} /\ relay[r].event = None /\ relay[r].held = 0
BY DEF RelayInv, PlaceOK

-----------------------------------------------------------------------------
LEMMA CreateKeeps ==
  ASSUME RelayInv, NEW e \in Events, Create(e)
  PROVE  RelayInv'
<1>1. /\ outbox[e].status = "absent"
      /\ outbox' = [outbox EXCEPT ![e] = Unlocked("pending")]
      /\ relay' = relay /\ bound' = bound /\ sent' = sent
      /\ mishaps' = mishaps /\ overran' = overran
  BY DEF Create
<1>2. TypeOK'
  BY <1>1, RowTypes DEF RelayInv, TypeOK
<1>3. /\ outbox'[e].status = "pending"
      /\ \A f \in Events : f # e => outbox'[f] = outbox[f]
  BY <1>1 DEF RelayInv, TypeOK, Unlocked
<1>4. PublishedWasSent'
  BY <1>1, <1>3 DEF RelayInv, PublishedWasSent
<1>5. ASSUME NEW r \in Relays
      PROVE  PlaceOK(r)' /\ Batch(r)' = Batch(r) /\ Batch(r) \subseteq Events
  BY <1>1, RelayTypes DEF RelayInv, PlaceOK, Batch
<1>6. ASSUME ~overran', NEW r \in Relays
      PROVE  ClaimOK(r)'
  <2>1. ClaimOK(r)
    BY <1>1, <1>6 DEF RelayInv
  <2>2. \A f \in Batch(r) : f # e
    BY <1>1, <2>1 DEF ClaimOK
  <2> QED
    BY <1>1, <1>3, <1>5, <2>1, <2>2 DEF ClaimOK
<1> QED
  BY <1>1, <1>2, <1>4, <1>5, <1>6 DEF RelayInv, ClaimExclusion

LEMMA LifespanKeeps ==
  ASSUME RelayInv, NEW r \in Relays, Start(r) \/ Setup(r)
  PROVE  RelayInv'
<1>1. PICK pc \in {"boot", "poll"} :
        /\ relay' = [relay EXCEPT ![r].pc = pc]
        /\ relay[r].pc \in {"down", "boot"}
        /\ pc = "poll" => bound'
        /\ bound => bound'
        /\ bound' \in BOOLEAN
        /\ outbox' = outbox /\ sent' = sent /\ mishaps' = mishaps /\ overran' = overran
  BY DEF RelayInv, TypeOK, Start, Setup
<1>2. relay'[r] = [relay[r] EXCEPT !.pc = pc]
  BY <1>1 DEF RelayInv, TypeOK
<1>3. /\ relay'[r] \in Relay
      /\ relay'[r].pc = pc
      /\ \A s \in Relays : s # r => relay'[s] = relay[s]
  BY <1>1, <1>2, RelayTypes DEF RelayInv, TypeOK, Relay
<1>4. TypeOK'
  BY <1>1, <1>3 DEF RelayInv, TypeOK
<1>5. relay'[r].todo = {} /\ relay'[r].event = None /\ relay'[r].held = 0
  BY <1>1, <1>2, Quiet, RelayTypes DEF RelayInv, Relay
<1>6. PublishedWasSent'
  BY <1>1 DEF RelayInv, PublishedWasSent
<1> QED
  BY <1>1, <1>3, <1>4, <1>5, <1>6, RelayEmpty

LEMMA StopKeeps ==
  ASSUME RelayInv, NEW r \in Relays, Stop(r)
  PROVE  RelayInv'
<1>1. /\ relay' = [relay EXCEPT ![r].stopping = TRUE]
      /\ outbox' = outbox /\ sent' = sent /\ bound' = bound /\ overran' = overran
      /\ mishaps' \in 0..MaxMishaps
  BY RelayAssumption DEF Stop, Mishap, RelayInv, TypeOK
<1>2. relay'[r] = [relay[r] EXCEPT !.stopping = TRUE]
  BY <1>1 DEF RelayInv, TypeOK
<1>3. /\ relay'[r] \in Relay
      /\ relay'[r].pc = relay[r].pc /\ relay'[r].todo = relay[r].todo
      /\ relay'[r].event = relay[r].event /\ relay'[r].held = relay[r].held
      /\ \A s \in Relays : s # r => relay'[s] = relay[s]
  BY <1>1, <1>2, RelayTypes DEF RelayInv, TypeOK, Relay
<1>4. TypeOK'
  BY <1>1, <1>3 DEF RelayInv, TypeOK
<1>5. Batch(r)' = Batch(r)
  BY <1>3 DEF Batch
<1>6. PlaceOK(r)'
  BY <1>1, <1>3 DEF RelayInv, PlaceOK
<1>7. ~overran => ClaimOK(r)'
  BY <1>1, <1>3, <1>5 DEF RelayInv, ClaimOK
<1>8. PublishedWasSent'
  BY <1>1 DEF RelayInv, PublishedWasSent
<1>9. ~overran => \A s \in Relays : s # r => Batch(r)' \cap Batch(s) = {}
  BY <1>5 DEF RelayInv, ClaimExclusion
<1> QED
  BY <1>1, <1>3, <1>4, <1>6, <1>7, <1>8, <1>9, RelayMoves

(* The process goes, in good order or not. *)
LEMMA DownKeeps ==
  ASSUME RelayInv, NEW r \in Relays, Exit(r) \/ Crash(r)
  PROVE  RelayInv'
<1>1. /\ relay' = [relay EXCEPT ![r] = Down]
      /\ outbox' = outbox /\ sent' = sent /\ bound' = bound /\ overran' = overran
      /\ mishaps' \in 0..MaxMishaps
  BY RelayAssumption DEF Exit, Crash, Mishap, RelayInv, TypeOK
<1>2. /\ relay'[r] = Down
      /\ \A s \in Relays : s # r => relay'[s] = relay[s]
  BY <1>1 DEF RelayInv, TypeOK
<1>3. TypeOK'
  BY <1>1, DownTypes DEF RelayInv, TypeOK
<1>4. PublishedWasSent'
  BY <1>1 DEF RelayInv, PublishedWasSent
<1> QED
  BY <1>1, <1>2, <1>3, <1>4, RelayEmpty DEF Down

-----------------------------------------------------------------------------
(* What a poll, committed or not, does to the table. *)
LEMMA ClaimTakesFree ==
  ASSUME RelayInv, ClaimBatch
  PROVE  /\ outbox' \in [Events -> OutboxRow]
         /\ \A e \in Oldest(Candidates) : outbox'[e] = Claimed
         /\ \A e \in Events \ Oldest(Candidates) : outbox'[e] = outbox[e]
         /\ ~overran => \A s \in Relays : Batch(s) \cap Oldest(Candidates) = {}
         /\ sent' = sent => PublishedWasSent'
<1>1. Oldest(Candidates) \subseteq Candidates /\ Candidates \subseteq Events
  BY DEF Oldest, Candidates
<1>2. \A e \in Events : outbox'[e] = IF e \in Oldest(Candidates) THEN Claimed ELSE outbox[e]
  BY DEF ClaimBatch
<1>3. outbox' \in [Events -> OutboxRow]
  BY <1>2, RowTypes DEF ClaimBatch, RelayInv, TypeOK
<1>4. ASSUME ~overran, NEW s \in Relays, NEW e \in Batch(s), e \in Candidates
      PROVE  FALSE
  <2>1. /\ outbox[e].locked /\ outbox[e].age = relay[s].held
        /\ relay[s].held <= LockTTL
    BY <1>4 DEF RelayInv, ClaimOK
  <2>2. outbox[e].age > LockTTL
    BY <1>4, <2>1 DEF Candidates
  <2> QED
    BY <1>4, <2>1, <2>2, RelayTypes, RelayAssumption DEF RelayInv
<1>5. sent' = sent => PublishedWasSent'
  BY <1>1, <1>2 DEF RelayInv, PublishedWasSent, Claimed
<1> QED
  BY <1>1, <1>2, <1>3, <1>4, <1>5 DEF RelayInv

LEMMA PollKeeps ==
  ASSUME RelayInv, NEW r \in Relays, Poll(r)
  PROVE  RelayInv'
<1> DEFINE S == Oldest(Candidates)
<1>1. /\ relay[r].pc = "poll"
      /\ ClaimBatch
      /\ relay' = [relay EXCEPT ![r].pc = "batch", ![r].todo = S]
      /\ sent' = sent /\ bound' = bound /\ overran' = overran /\ mishaps' = mishaps
  BY DEF Poll
<1> HIDE DEF S
<1>2. S \subseteq Events
  BY DEF S, Oldest, Candidates
<1>3. relay'[r] = [[relay[r] EXCEPT !.pc = "batch"] EXCEPT !.todo = S]
  BY <1>1 DEF RelayInv, TypeOK
<1>4. /\ relay'[r] \in Relay
      /\ relay'[r].pc = "batch" /\ relay'[r].todo = S
      /\ relay'[r].event = None /\ relay'[r].held = 0
      /\ \A s \in Relays : s # r => relay'[s] = relay[s]
  BY <1>1, <1>2, <1>3, RelayTypes, Quiet DEF RelayInv, TypeOK, Relay
<1>5. Batch(r)' = S
  BY <1>4 DEF Batch
<1>6. /\ outbox' \in [Events -> OutboxRow]
      /\ \A e \in S : outbox'[e] = Claimed
      /\ \A e \in Events \ S : outbox'[e] = outbox[e]
      /\ ~overran => \A s \in Relays : Batch(s) \cap S = {}
      /\ PublishedWasSent'
  BY <1>1, ClaimTakesFree DEF S
<1>7. TypeOK'
  BY <1>1, <1>4, <1>6 DEF RelayInv, TypeOK
<1>8. PlaceOK(r)'
  BY <1>1, <1>2, <1>4, RelayAssumption DEF RelayInv, PlaceOK
<1>9. ClaimOK(r)'
  BY <1>4, <1>5, <1>6, RelayAssumption DEF ClaimOK, Claimed
<1>10. ASSUME ~overran, NEW s \in Relays, NEW e \in Batch(s)
       PROVE  outbox'[e] = outbox[e]
  <2>1. e \in Events
    BY <1>10, RelayTypes DEF RelayInv, Batch
  <2> QED
    BY <1>6, <1>10, <2>1
<1>11. ~overran => \A s \in Relays : s # r => Batch(r)' \cap Batch(s) = {}
  BY <1>5, <1>6
<1> QED
  BY <1>1, <1>4, <1>6, <1>7, <1>8, <1>9, <1>10, <1>11, RelayMoves

(* One event of the batch is published, whatever became of it. *)
LEMMA PublishKeeps ==
  ASSUME RelayInv, NEW r \in Relays, Publish(r)
  PROVE  RelayInv'
<1>1. PICK e \in relay[r].todo : Accepted(r, e) \/ AnswerLost(r, e) \/ Refused(r, e)
  BY DEF Publish
<1>2. PICK pc \in {"mark", "unmark"} :
        /\ Publication(r, e, pc)
        /\ pc = "mark" => Taken(e)
        /\ sent' = sent \/ Taken(e)
  BY <1>1 DEF Accepted, AnswerLost, Refused
<1>3. mishaps' \in 0..MaxMishaps
  BY <1>1, RelayAssumption DEF Accepted, AnswerLost, Refused, Mishap, RelayInv, TypeOK
<1>4. /\ relay[r].pc = "batch"
      /\ relay' = [relay EXCEPT ![r].pc = pc, ![r].event = e, ![r].todo = @ \ {e}]
      /\ outbox' = outbox /\ bound' = bound /\ overran' = overran
  BY <1>2 DEF Publication
<1>5. e \in Events /\ e # None
  BY RelayTypes, RelayAssumption DEF RelayInv
<1>6. bound /\ relay[r].event = None
  BY <1>4 DEF RelayInv, PlaceOK
<1>7. relay'[r] = [[[relay[r] EXCEPT !.pc = pc] EXCEPT !.event = e]
                     EXCEPT !.todo = @ \ {e}]
  BY <1>4 DEF RelayInv, TypeOK
<1>8. /\ relay'[r] \in Relay
      /\ relay'[r].pc = pc /\ relay'[r].event = e
      /\ relay'[r].todo = relay[r].todo \ {e}
      /\ relay'[r].held = relay[r].held
      /\ \A s \in Relays : s # r => relay'[s] = relay[s]
  BY <1>4, <1>5, <1>7, RelayTypes DEF RelayInv, TypeOK, Relay
<1>9. Batch(r)' = Batch(r)
  BY <1>5, <1>6, <1>8 DEF Batch
<1>10. /\ sent' \in [Events -> 0..2]
       /\ \A f \in Events : sent[f] > 0 => sent'[f] > 0
       /\ pc = "mark" => sent'[e] > 0
  BY <1>2, <1>5, <1>6 DEF Taken, RelayInv, TypeOK
<1>11. TypeOK'
  BY <1>3, <1>4, <1>8, <1>10 DEF RelayInv, TypeOK
<1>12. PlaceOK(r)'
  BY <1>4, <1>5, <1>6, <1>8, <1>10 DEF PlaceOK
<1>13. PublishedWasSent'
  BY <1>4, <1>10 DEF RelayInv, PublishedWasSent
<1>14. ASSUME ~overran
       PROVE  ClaimOK(r)'
  <2>1. ClaimOK(r)
    BY <1>14 DEF RelayInv
  <2>2. outbox' = outbox /\ relay'[r].held = relay[r].held /\ Batch(r)' = Batch(r)
    BY <1>4, <1>8, <1>9
  <2> QED
    BY <2>1, <2>2 DEF ClaimOK
<1>15. ~overran => \A s \in Relays : s # r => Batch(r)' \cap Batch(s) = {}
  BY <1>9 DEF RelayInv, ClaimExclusion
<1> QED
  BY <1>4, <1>8, <1>10, <1>11, <1>12, <1>13, <1>14, <1>15, RelayMoves

(* The row whose result is recorded is in hand, and a success was sent. *)
LEMMA RecordedRow ==
  ASSUME RelayInv, NEW r \in Relays, relay[r].pc \in {"mark", "unmark"},
         Recorded(r), sent' = sent
  PROVE  /\ relay[r].event \in Batch(r) \cap Events
         /\ outbox' \in [Events -> OutboxRow]
         /\ \A e \in Events : e # relay[r].event => outbox'[e] = outbox[e]
         /\ PublishedWasSent'
<1> DEFINE e == relay[r].event
           s == IF relay[r].pc = "mark" THEN "published" ELSE "pending"
<1>1. e \in Batch(r) \cap Events
  BY RelayTypes DEF RelayInv, PlaceOK, Batch
<1>2. /\ outbox' = [outbox EXCEPT ![e] = Unlocked(s)]
      /\ Unlocked(s) \in OutboxRow /\ Unlocked(s).status = s
  BY RowTypes DEF Recorded, Unlocked
<1>3. s = "published" => sent[e] > 0
  BY DEF RelayInv, PlaceOK
<1> HIDE DEF s, e
<1>4. /\ outbox' \in [Events -> OutboxRow]
      /\ outbox'[e].status = s
      /\ \A f \in Events : f # e => outbox'[f] = outbox[f]
  BY <1>1, <1>2 DEF RelayInv, TypeOK
<1>5. PublishedWasSent'
  BY <1>3, <1>4 DEF RelayInv, PublishedWasSent
<1> QED
  BY <1>1, <1>4, <1>5 DEF e

(* What a relay has in hand is nobody else's as long as no batch overran. *)
LEMMA NotTheirs ==
  ASSUME RelayInv, NEW r \in Relays, NEW e \in Batch(r), ~overran,
         NEW s \in Relays, s # r
  PROVE  e \notin Batch(s)
BY DEF RelayInv, ClaimExclusion

LEMMA LoopRow ==
  ASSUME RelayInv, NEW r \in Relays, Loop(r)
  PROVE  /\ relay'[r] \in Relay
         /\ relay'[r].pc = "poll" /\ relay'[r].todo = {}
         /\ relay'[r].event = None /\ relay'[r].held = 0
         /\ \A s \in Relays : s # r => relay'[s] = relay[s]
         /\ relay' \in [Relays -> Relay]
<1>1. relay[r].stopping \in BOOLEAN
  BY RelayTypes DEF RelayInv
<1>2. relay'[r] = [Down EXCEPT !.pc = "poll", !.stopping = relay[r].stopping]
  BY DEF Loop, RelayInv, TypeOK
<1>3. /\ relay'[r] \in Relay
      /\ relay'[r].pc = "poll" /\ relay'[r].todo = {}
      /\ relay'[r].event = None /\ relay'[r].held = 0
  BY <1>1, <1>2, DownTypes
<1> QED
  BY <1>3 DEF Loop, RelayInv, TypeOK

LEMMA RecordKeeps ==
  ASSUME RelayInv, NEW r \in Relays, Record(r)
  PROVE  RelayInv'
<1>1. /\ relay[r].pc \in {"mark", "unmark"}
      /\ Recorded(r)
      /\ sent' = sent /\ bound' = bound /\ overran' = overran /\ mishaps' = mishaps
  BY DEF Record
<1>2. /\ relay[r].event \in Batch(r) \cap Events
      /\ outbox' \in [Events -> OutboxRow]
      /\ \A e \in Events : e # relay[r].event => outbox'[e] = outbox[e]
      /\ PublishedWasSent'
  BY <1>1, RecordedRow
<1>3. ASSUME ~overran, NEW s \in Relays, s # r, NEW e \in Batch(s)
      PROVE  outbox'[e] = outbox[e]
  <2>1. e \in Events
    BY <1>3, RelayTypes DEF RelayInv, Batch
  <2>2. e # relay[r].event
    BY <1>2, <1>3, NotTheirs
  <2> QED
    BY <1>2, <2>1, <2>2
<1>4. bound
  BY <1>1 DEF RelayInv, PlaceOK
<1>5. CASE relay[r].todo = {}
  <2>1. Loop(r)
    BY <1>5 DEF Record
  <2>2. TypeOK'
    BY <1>1, <1>2, <2>1, LoopRow DEF RelayInv, TypeOK
  <2> QED
    BY <1>1, <1>2, <1>3, <1>4, <2>1, <2>2, LoopRow, RelayEmpty
<1>6. CASE relay[r].todo # {}
  <2>1. relay' = [relay EXCEPT ![r].pc = "batch", ![r].event = None]
    BY <1>6 DEF Record
  <2>2. relay'[r] = [[relay[r] EXCEPT !.pc = "batch"] EXCEPT !.event = None]
    BY <2>1 DEF RelayInv, TypeOK
  <2>3. /\ relay'[r] \in Relay
        /\ relay'[r].pc = "batch" /\ relay'[r].event = None
        /\ relay'[r].todo = relay[r].todo /\ relay'[r].held = relay[r].held
        /\ \A s \in Relays : s # r => relay'[s] = relay[s]
    BY <2>1, <2>2, RelayTypes DEF RelayInv, TypeOK, Relay
  <2>4. TypeOK'
    BY <1>1, <1>2, <2>1, <2>3 DEF RelayInv, TypeOK
  <2>5. relay[r].todo \subseteq Events /\ relay[r].event \notin relay[r].todo
    BY RelayTypes DEF RelayInv, PlaceOK
  <2>6. Batch(r)' = relay[r].todo /\ relay[r].todo \subseteq Batch(r)
    BY <2>3 DEF Batch
  <2>7. PlaceOK(r)'
    BY <1>1, <1>4, <2>3, <2>5, RelayAssumption DEF PlaceOK
  <2>8. ASSUME ~overran
        PROVE  ClaimOK(r)'
    <3>1. ClaimOK(r)
      BY <2>8 DEF RelayInv
    <3>2. \A e \in relay[r].todo : outbox'[e] = outbox[e]
      BY <1>2, <2>5
    <3> QED
      BY <1>2, <2>3, <2>6, <3>1, <3>2 DEF ClaimOK
  <2>9. ~overran => \A s \in Relays : s # r => Batch(r)' \cap Batch(s) = {}
    BY <2>6, NotTheirs
  <2> QED
    BY <1>1, <1>2, <1>3, <2>3, <2>4, <2>7, <2>8, <2>9, RelayMoves
<1> QED
  BY <1>5, <1>6

LEMMA DbErrorKeeps ==
  ASSUME RelayInv, NEW r \in Relays, DbError(r)
  PROVE  RelayInv'
<1>1. /\ Loop(r)
      /\ sent' = sent /\ bound' = bound /\ overran' = overran
      /\ mishaps' \in 0..MaxMishaps
      /\ relay[r].pc \in {"poll", "mark", "unmark"}
  BY RelayAssumption DEF DbError, Mishap, RelayInv, TypeOK
<1>2. bound
  BY <1>1 DEF RelayInv, PlaceOK
<1>3. /\ outbox' \in [Events -> OutboxRow]
      /\ PublishedWasSent'
      /\ ~overran => \A s \in Relays : s # r =>
                       \A e \in Batch(s) : outbox'[e] = outbox[e]
  <2>1. CASE UNCHANGED outbox
    BY <1>1, <2>1 DEF RelayInv, TypeOK, PublishedWasSent
  <2>2. CASE relay[r].pc = "poll" /\ ClaimBatch
    <3>1. /\ outbox' \in [Events -> OutboxRow]
          /\ \A e \in Events \ Oldest(Candidates) : outbox'[e] = outbox[e]
          /\ ~overran => \A s \in Relays : Batch(s) \cap Oldest(Candidates) = {}
          /\ PublishedWasSent'
      BY <1>1, <2>2, ClaimTakesFree
    <3>2. \A s \in Relays : Batch(s) \subseteq Events
      BY RelayTypes DEF RelayInv, Batch
    <3> QED
      BY <3>1, <3>2
  <2>3. CASE relay[r].pc \in {"mark", "unmark"} /\ Recorded(r)
    <3>1. /\ relay[r].event \in Batch(r)
          /\ outbox' \in [Events -> OutboxRow]
          /\ \A e \in Events : e # relay[r].event => outbox'[e] = outbox[e]
          /\ PublishedWasSent'
      BY <1>1, <2>3, RecordedRow
    <3>2. \A s \in Relays : Batch(s) \subseteq Events
      BY RelayTypes DEF RelayInv, Batch
    <3>3. ~overran => \A s \in Relays : s # r => relay[r].event \notin Batch(s)
      BY <3>1, NotTheirs
    <3> QED
      BY <3>1, <3>2, <3>3
  <2> QED
    BY <2>1, <2>2, <2>3 DEF DbError
<1>4. TypeOK'
  BY <1>1, <1>3, LoopRow DEF RelayInv, TypeOK
<1> QED
  BY <1>1, <1>2, <1>3, <1>4, LoopRow, RelayEmpty

(* Time makes a claim and the row it stands for older by the same step. *)
LEMMA TickKeeps ==
  ASSUME RelayInv, Tick
  PROVE  RelayInv'
<1>1. /\ sent' = sent /\ bound' = bound /\ mishaps' = mishaps
      /\ overran' = (overran \/ \E r \in Relays : Batch(r) # {} /\ relay[r].held = LockTTL)
      /\ \A e \in Events : outbox'[e] =
           IF outbox[e].locked THEN [outbox[e] EXCEPT !.age = Older(@)] ELSE outbox[e]
      /\ \A r \in Relays : relay'[r] =
           IF Batch(r) = {} THEN relay[r] ELSE [relay[r] EXCEPT !.held = Older(@)]
  BY DEF Tick
<1>2. ASSUME NEW e \in Events
      PROVE  /\ outbox'[e] \in OutboxRow
             /\ outbox'[e].status = outbox[e].status
  <2>1. outbox[e] \in OutboxRow /\ outbox[e].age \in 0..(LockTTL + 1)
    BY DEF RelayInv, TypeOK, OutboxRow
  <2>2. Older(outbox[e].age) \in 0..(LockTTL + 1)
    BY <2>1, OlderTypes
  <2> QED
    BY <1>1, <2>1, <2>2 DEF OutboxRow
<1>3. ASSUME NEW r \in Relays
      PROVE  /\ relay'[r] \in Relay
             /\ relay'[r].pc = relay[r].pc /\ relay'[r].todo = relay[r].todo
             /\ relay'[r].event = relay[r].event
             /\ Batch(r)' = Batch(r)
             /\ relay'[r].held = IF Batch(r) = {} THEN relay[r].held
                                 ELSE Older(relay[r].held)
  <2>1. Older(relay[r].held) \in 0..(LockTTL + 1)
    BY RelayTypes, OlderTypes DEF RelayInv
  <2>2. /\ relay'[r] \in Relay
        /\ relay'[r].pc = relay[r].pc /\ relay'[r].todo = relay[r].todo
        /\ relay'[r].event = relay[r].event
        /\ relay'[r].held = IF Batch(r) = {} THEN relay[r].held
                            ELSE Older(relay[r].held)
    BY <1>1, <2>1, RelayTypes DEF RelayInv, Relay
  <2> QED
    BY <2>2 DEF Batch
<1>4. TypeOK'
  <2>1. outbox' \in [Events -> OutboxRow]
    BY <1>2 DEF Tick
  <2>2. relay' \in [Relays -> Relay]
    BY <1>3 DEF Tick
  <2> QED
    BY <1>1, <2>1, <2>2 DEF RelayInv, TypeOK
<1>5. ASSUME NEW r \in Relays
      PROVE  PlaceOK(r)'
  <2>1. PlaceOK(r)
    BY DEF RelayInv
  <2>2. relay[r].pc \in {"down", "boot", "poll"} => Batch(r) = {}
    BY <2>1 DEF PlaceOK, Batch
  <2> QED
    BY <1>1, <1>3, <2>1, <2>2 DEF PlaceOK
<1>6. PublishedWasSent'
  BY <1>1, <1>2 DEF RelayInv, PublishedWasSent
<1>7. ASSUME ~overran', NEW r \in Relays
      PROVE  ClaimOK(r)'
  <2>1. ~overran /\ (Batch(r) # {} => relay[r].held # LockTTL)
    BY <1>1, <1>7
  <2>2. ClaimOK(r)
    BY <2>1 DEF RelayInv
  <2>3. CASE Batch(r) = {}
    BY <1>3, <2>3 DEF ClaimOK
  <2>4. CASE Batch(r) # {}
    <3>1. relay[r].held \in Nat /\ relay[r].held < LockTTL
      BY <2>1, <2>2, <2>4, RelayTypes, RelayAssumption DEF RelayInv, ClaimOK
    <3>2. relay'[r].held = Older(relay[r].held) /\ relay'[r].held <= LockTTL
      BY <1>3, <2>4, <3>1, RelayAssumption DEF Older
    <3>3. Batch(r) \subseteq Events
      BY RelayTypes DEF RelayInv, Batch
    <3>4. ASSUME NEW e \in Batch(r)
          PROVE  /\ outbox'[e].status = "in_progress"
                 /\ outbox'[e].locked
                 /\ outbox'[e].age = relay'[r].held
      <4>1. /\ outbox[e].status = "in_progress"
            /\ outbox[e].locked
            /\ outbox[e].age = relay[r].held
        BY <2>2, <3>4 DEF ClaimOK
      <4>2. e \in Events /\ outbox[e] \in OutboxRow
        BY <3>3, <3>4 DEF RelayInv, TypeOK
      <4>3. outbox'[e] = [outbox[e] EXCEPT !.age = Older(outbox[e].age)]
        BY <1>1, <4>1, <4>2
      <4>4. /\ outbox'[e].status = outbox[e].status
            /\ outbox'[e].locked = outbox[e].locked
            /\ outbox'[e].age = Older(outbox[e].age)
        BY <4>2, <4>3 DEF OutboxRow
      <4> QED
        BY <3>2, <4>1, <4>4
    <3> QED
      BY <1>3, <3>2, <3>4 DEF ClaimOK
  <2> QED
    BY <2>3, <2>4
<1>8. ClaimExclusion'
  BY <1>1, <1>3 DEF RelayInv, ClaimExclusion
<1> QED
  BY <1>4, <1>5, <1>6, <1>7, <1>8 DEF RelayInv

(* A mishap of somebody else is none of the relays' business.              *)
LEMMA MishapElsewhere ==
  ASSUME RelayInv, UNCHANGED <<outbox, relay, bound, sent, overran>>,
         mishaps' \in 0..MaxMishaps
  PROVE  RelayInv'
<1>1. TypeOK' /\ PublishedWasSent'
  BY DEF RelayInv, TypeOK, PublishedWasSent
<1>2. \A r \in Relays : Batch(r)' = Batch(r)
  BY DEF Batch
<1>3. \A r \in Relays : PlaceOK(r)'
  BY DEF RelayInv, PlaceOK
<1>4. ~overran' => \A r \in Relays : ClaimOK(r)'
  BY <1>2 DEF RelayInv, ClaimOK
<1>5. ClaimExclusion'
  BY <1>2 DEF RelayInv, ClaimExclusion
<1> QED
  BY <1>1, <1>3, <1>4, <1>5 DEF RelayInv

LEMMA RelayNextKeeps ==
  ASSUME RelayInv, [Next]_vars
  PROVE  RelayInv'
<1>1. CASE UNCHANGED vars
  BY <1>1, MishapElsewhere DEF vars, RelayInv, TypeOK
<1>2. ASSUME NEW e \in Events, Create(e)
      PROVE  RelayInv'
  BY <1>2, CreateKeeps
<1>3. ASSUME NEW r \in Relays, Keep(r) \/ Publish(r)
      PROVE  RelayInv'
  BY <1>3, LifespanKeeps, StopKeeps, DownKeeps, PollKeeps, PublishKeeps,
     RecordKeeps, DbErrorKeeps DEF Keep
<1>4. CASE Tick
  BY <1>4, TickKeeps
<1> QED
  BY <1>1, <1>2, <1>3, <1>4 DEF Next

-----------------------------------------------------------------------------
(* What those who share the table with the relays see of their steps.      *)
SameRows == \A e \in Events : outbox'[e].status = "absent" <=> outbox[e].status = "absent"

LEMMA HeldByOthers ==
  ASSUME HeldRows, SameRows, TypeOK, NEW r \in Relays,
         \A s \in Relays : s # r => relay'[s] = relay[s],
         \A e \in Batch(r)' : e \in Events /\ outbox'[e].status # "absent"
  PROVE  HeldRows'
<1>1. ASSUME NEW s \in Relays, s # r
      PROVE  Batch(s)' = Batch(s) /\ Batch(s) \subseteq Events
  BY <1>1, RelayTypes DEF Batch
<1> QED
  BY <1>1 DEF HeldRows, SameRows

LEMMA ClaimRows ==
  ASSUME RelayInv, ClaimBatch
  PROVE  SameRows /\ \A e \in Oldest(Candidates) : e \in Events /\ outbox'[e].status # "absent"
<1>1. Oldest(Candidates) \subseteq Candidates /\ Candidates \subseteq Events
  BY DEF Oldest, Candidates
<1>2. \A e \in Oldest(Candidates) : outbox[e].status # "absent"
  BY <1>1 DEF Candidates
<1>3. /\ \A e \in Oldest(Candidates) : outbox'[e] = Claimed
      /\ \A e \in Events \ Oldest(Candidates) : outbox'[e] = outbox[e]
  BY ClaimTakesFree
<1> QED
  BY <1>1, <1>2, <1>3 DEF SameRows, Claimed

LEMMA RecordedRows ==
  ASSUME RelayInv, HeldRows, NEW r \in Relays, relay[r].pc \in {"mark", "unmark"},
         Recorded(r), sent' = sent
  PROVE  SameRows
<1> DEFINE e == relay[r].event
<1>1. /\ e \in Batch(r) \cap Events
      /\ \A f \in Events : f # e => outbox'[f] = outbox[f]
  BY RecordedRow
<1>2. outbox[e].status # "absent"
  BY <1>1 DEF HeldRows
<1>3. outbox'[e].status \in {"published", "pending"}
  BY <1>1 DEF Recorded, Unlocked, RelayInv, TypeOK
<1> QED
  BY <1>1, <1>2, <1>3 DEF SameRows

LEMMA KeepRows ==
  ASSUME RelayInv, HeldRows, NEW r \in Relays, Keep(r)
  PROVE  SameRows /\ HeldRows' /\ sent' = sent
<1>0. sent' = sent /\ TypeOK
  BY DEF Keep, Start, Setup, Stop, Exit, Poll, Record, DbError, Crash, RelayInv
<1>1. CASE Start(r) \/ Setup(r) \/ Stop(r) \/ Exit(r) \/ Crash(r)
  <2>1. outbox' = outbox /\ \A s \in Relays : s # r => relay'[s] = relay[s]
    BY <1>0, <1>1 DEF Start, Setup, Stop, Exit, Crash, TypeOK
  <2>2. Batch(r)' \subseteq Batch(r)
    BY <1>0, <1>1 DEF Start, Setup, Stop, Exit, Crash, TypeOK, Relay, Batch, Down
  <2>3. Batch(r) \subseteq Events
    BY <1>0, RelayTypes DEF Batch
  <2>4. SameRows
    BY <2>1 DEF SameRows
  <2>5. \A e \in Batch(r)' : e \in Events /\ outbox'[e].status # "absent"
    BY <2>1, <2>2, <2>3 DEF HeldRows
  <2> QED
    BY <1>0, <2>1, <2>4, <2>5, HeldByOthers
<1>2. CASE Poll(r)
  <2> DEFINE S == Oldest(Candidates)
  <2>1. /\ ClaimBatch /\ relay[r].pc = "poll"
        /\ relay' = [relay EXCEPT ![r].pc = "batch", ![r].todo = S]
    BY <1>2 DEF Poll
  <2>2. SameRows /\ \A e \in S : e \in Events /\ outbox'[e].status # "absent"
    BY <2>1, ClaimRows
  <2> HIDE DEF S
  <2>3. /\ Batch(r)' = S
        /\ \A s \in Relays : s # r => relay'[s] = relay[s]
    <3>1. relay'[r] = [[relay[r] EXCEPT !.pc = "batch"] EXCEPT !.todo = S]
      BY <1>0, <2>1 DEF TypeOK
    <3>2. relay[r] \in Relay /\ relay[r].event = None
      BY <1>0, <2>1, Quiet, RelayTypes
    <3>3. relay'[r].todo = S /\ relay'[r].event = None
      BY <3>1, <3>2 DEF Relay
    <3> QED
      BY <1>0, <2>1, <3>3 DEF TypeOK, Batch
  <2> QED
    BY <1>0, <2>2, <2>3, HeldByOthers
<1>3. CASE Record(r) \/ DbError(r)
  <2>1. SameRows
    <3>1. CASE UNCHANGED outbox
      BY <3>1 DEF SameRows
    <3>2. CASE relay[r].pc \in {"mark", "unmark"} /\ Recorded(r)
      BY <1>0, <3>2, RecordedRows
    <3>3. CASE ClaimBatch
      BY <3>3, ClaimRows
    <3> QED
      BY <1>3, <3>1, <3>2, <3>3 DEF Record, DbError
  <2>2. CASE Loop(r)
    <3>1. Batch(r)' = {}
      BY <2>2, LoopRow DEF Batch
    <3> QED
      BY <1>0, <2>1, <2>2, <3>1, LoopRow, HeldByOthers
  <2>3. CASE relay' = [relay EXCEPT ![r].pc = "batch", ![r].event = None]
    <3>1. relay'[r] = [[relay[r] EXCEPT !.pc = "batch"] EXCEPT !.event = None]
      BY <1>0, <2>3 DEF TypeOK
    <3>2. relay'[r].todo = relay[r].todo /\ relay'[r].event = None
      BY <1>0, <3>1, RelayTypes DEF Relay
    <3>3. Batch(r)' \subseteq Batch(r) /\ Batch(r) \subseteq Events
      BY <1>0, <3>2, RelayTypes DEF Batch
    <3>4. \A e \in Batch(r)' : e \in Events /\ outbox'[e].status # "absent"
      BY <2>1, <3>3 DEF HeldRows, SameRows
    <3>5. \A s \in Relays : s # r => relay'[s] = relay[s]
      BY <1>0, <2>3 DEF TypeOK
    <3> QED
      BY <1>0, <2>1, <3>4, <3>5, HeldByOthers
  <2> QED
    BY <1>3, <2>2, <2>3 DEF Record, DbError
<1> QED
  BY <1>0, <1>1, <1>2, <1>3 DEF Keep

LEMMA PublicationRows ==
  ASSUME RelayInv, HeldRows, NEW r \in Relays, NEW e \in relay[r].todo,
         Accepted(r, e) \/ AnswerLost(r, e) \/ Refused(r, e)
  PROVE  /\ SameRows /\ HeldRows' /\ outbox' = outbox
         /\ bound /\ bound' = bound
         /\ e \in Events /\ outbox[e].status # "absent"
         /\ Accepted(r, e) \/ AnswerLost(r, e) =>
              sent'[e] > 0 /\ \A f \in Events : f # e => sent'[f] = sent[f]
         /\ Refused(r, e) => sent' = sent
<1>1. PICK pc \in {"mark", "unmark"} : Publication(r, e, pc)
  BY DEF Accepted, AnswerLost, Refused
<1>2. /\ relay[r].pc = "batch" /\ TypeOK
      /\ relay' = [relay EXCEPT ![r].pc = pc, ![r].event = e, ![r].todo = @ \ {e}]
      /\ outbox' = outbox /\ bound' = bound
  BY <1>1 DEF Publication, RelayInv
<1>3. relay'[r] = [[[relay[r] EXCEPT !.pc = pc] EXCEPT !.event = e]
                     EXCEPT !.todo = @ \ {e}]
  BY <1>2 DEF TypeOK
<1>4. relay'[r].event = e /\ relay'[r].todo = relay[r].todo \ {e}
  BY <1>2, <1>3, RelayTypes DEF Relay
<1>5. Batch(r)' \subseteq Batch(r) /\ Batch(r) \subseteq Events /\ e \in Batch(r)
  BY <1>2, <1>4, RelayTypes DEF Batch
<1>6. SameRows
  BY <1>2 DEF SameRows
<1>7. \A s \in Relays : s # r => relay'[s] = relay[s]
  BY <1>2 DEF TypeOK
<1>8. HeldRows'
  BY <1>2, <1>5, <1>6, <1>7, HeldByOthers DEF HeldRows
<1>9. bound
  BY <1>2 DEF RelayInv, PlaceOK
<1>10. Accepted(r, e) \/ AnswerLost(r, e) =>
         sent'[e] > 0 /\ \A f \in Events : f # e => sent'[f] = sent[f]
  BY <1>2, <1>5, <1>9 DEF Accepted, AnswerLost, Taken, TypeOK
<1>11. Refused(r, e) => sent' = sent
  BY DEF Refused
<1> QED
  BY <1>2, <1>5, <1>6, <1>8, <1>9, <1>10, <1>11 DEF HeldRows

LEMMA TickRows ==
  ASSUME RelayInv, HeldRows, Tick
  PROVE  SameRows /\ HeldRows' /\ sent' = sent
<1>1. TypeOK
  BY DEF RelayInv
<1>2. \A e \in Events : outbox'[e].status = outbox[e].status
  BY <1>1 DEF Tick, TypeOK, OutboxRow
<1>3. \A r \in Relays : relay'[r].todo = relay[r].todo /\ relay'[r].event = relay[r].event
  BY <1>1 DEF Tick, TypeOK, Relay
<1>4. \A r \in Relays : Batch(r)' = Batch(r) /\ Batch(r) \subseteq Events
  BY <1>1, <1>3, RelayTypes DEF Batch
<1> QED
  BY <1>2, <1>4 DEF Tick, SameRows, HeldRows

LEMMA CreateRows ==
  ASSUME RelayInv, HeldRows, NEW e \in Events, Create(e)
  PROVE  /\ HeldRows' /\ sent' = sent /\ outbox'[e].status # "absent"
         /\ \A f \in Events : f # e => outbox'[f] = outbox[f]
<1>1. /\ outbox' = [outbox EXCEPT ![e] = Unlocked("pending")]
      /\ relay' = relay /\ sent' = sent /\ TypeOK
  BY DEF Create, RelayInv
<1>2. /\ outbox'[e].status # "absent"
      /\ \A f \in Events : f # e => outbox'[f] = outbox[f]
  BY <1>1 DEF TypeOK, Unlocked
<1>3. \A r \in Relays : Batch(r)' = Batch(r) /\ Batch(r) \subseteq Events
  BY <1>1, RelayTypes DEF Batch
<1> QED
  BY <1>1, <1>2, <1>3 DEF HeldRows

-----------------------------------------------------------------------------
(* Without a mishap and an overrun batch: an event in the hand of a relay  *)
(* that is not about to mark it was never sent.                            *)
LEMMA UnsentInHand ==
  ASSUME RelayInv, OnceInv, mishaps = 0, ~overran,
         NEW r \in Relays, NEW e \in Batch(r), e \in Events, ~Marking(r, e)
  PROVE  sent[e] = 0
<1>1. SentOnce(e) /\ sent[e] \in 0..2
  BY DEF OnceInv, RelayInv, TypeOK
<1>2. outbox[e].status = "in_progress"
  BY DEF RelayInv, ClaimOK
<1>3. ASSUME NEW s \in Relays, Marking(s, e)
      PROVE  FALSE
  <2>1. s # r
    BY <1>3
  <2>2. e \in Batch(s)
    BY <1>3, RelayAssumption DEF Marking, Batch
  <2> QED
    BY <2>1, <2>2, NotTheirs
<1> QED
  BY <1>1, <1>2, <1>3 DEF SentOnce

(* A step that sends nothing and records nothing. *)
LEMMA OnceUnmoved ==
  ASSUME OnceInv, RelayInv,
         mishaps' = 0 /\ ~overran' => mishaps = 0 /\ ~overran,
         sent' = sent,
         \A e \in Events : outbox[e].status = "published" => outbox'[e].status = "published",
         \A r \in Relays :
           /\ relay[r].pc = "mark" => relay'[r].pc = "mark" /\ relay'[r].event = relay[r].event
           /\ relay'[r].pc = "unmark" => relay[r].pc = "unmark" /\ relay'[r].event = relay[r].event
  PROVE  OnceInv'
<1> SUFFICES ASSUME mishaps' = 0, ~overran'
             PROVE  /\ \A e \in Events : SentOnce(e)'
                    /\ \A r \in Relays : relay'[r].pc = "unmark" => sent'[relay'[r].event] = 0
  BY DEF OnceInv
<1>1. /\ \A e \in Events : SentOnce(e)
      /\ \A r \in Relays : relay[r].pc = "unmark" => sent[relay[r].event] = 0
  BY DEF OnceInv
<1>2. ASSUME NEW e \in Events
      PROVE  SentOnce(e)'
  <2>1. ASSUME NEW s \in Relays, Marking(s, e)
        PROVE  Marking(s, e)'
    BY <2>1 DEF Marking
  <2> QED
    BY <1>1, <2>1 DEF SentOnce
<1> QED
  BY <1>1, <1>2

(* Every mishap counts. *)
LEMMA MishapCounts ==
  ASSUME RelayInv, Mishap
  PROVE  mishaps' # 0
BY RelayAssumption DEF Mishap, RelayInv, TypeOK

LEMMA CausesStay ==
  ASSUME RelayInv, Next
  PROVE  /\ mishaps' = 0 => mishaps = 0
         /\ ~overran' => ~overran
<1>1. mishaps' = mishaps \/ Mishap
  BY DEF Next, Create, Keep, Start, Setup, Stop, Exit, Poll, Record, DbError,
         Crash, Publish, Accepted, AnswerLost, Refused, Tick
<1>2. overran' = overran \/ Tick
  BY DEF Next, Create, Keep, Start, Setup, Stop, Exit, Poll, Record, DbError,
         Crash, Publish, Publication, Accepted, AnswerLost, Refused
<1>3. Tick /\ ~overran' => ~overran
  BY DEF Tick
<1> QED
  BY <1>1, <1>2, <1>3, MishapCounts

(* What is published was not sent before. *)
LEMMA FirstPublication ==
  ASSUME RelayInv, OnceInv, mishaps = 0, ~overran, NEW r \in Relays,
         NEW e \in relay[r].todo, relay[r].pc = "batch"
  PROVE  sent[e] = 0
<1>1. e \in Events /\ e \in Batch(r)
  BY RelayTypes DEF RelayInv, Batch
<1> QED
  BY <1>1, UnsentInHand DEF Marking

LEMMA KeepsOnce ==
  ASSUME RelayInv, OnceInv, NEW r \in Relays, Keep(r)
  PROVE  OnceInv'
<1>0. TypeOK
  BY DEF RelayInv
<1>1. CASE Stop(r) \/ DbError(r) \/ Crash(r)
  <2>1. Mishap
    BY <1>1 DEF Stop, DbError, Crash
  <2> QED
    BY <2>1, MishapCounts DEF OnceInv
<1>2. CASE Start(r) \/ Setup(r) \/ Exit(r)
  <2>1. /\ relay[r].pc \in {"down", "boot", "poll"}
        /\ relay'[r].pc \in {"down", "boot", "poll"}
        /\ \A s \in Relays : s # r => relay'[s] = relay[s]
        /\ sent' = sent /\ outbox' = outbox /\ mishaps' = mishaps /\ overran' = overran
    BY <1>0, <1>2, RelayTypes DEF Start, Setup, Exit, TypeOK, Relay, Down
  <2> QED
    BY <2>1, OnceUnmoved
<1>3. CASE Poll(r)
  <2>1. /\ relay[r].pc = "poll" /\ relay'[r].pc = "batch"
        /\ \A s \in Relays : s # r => relay'[s] = relay[s]
        /\ sent' = sent /\ mishaps' = mishaps /\ overran' = overran
    <3>1. relay' = [relay EXCEPT ![r].pc = "batch", ![r].todo = Oldest(Candidates)]
      BY <1>3 DEF Poll
    <3>2. relay'[r] = [[relay[r] EXCEPT !.pc = "batch"] EXCEPT !.todo = Oldest(Candidates)]
      BY <1>0, <3>1 DEF TypeOK
    <3>3. relay'[r].pc = "batch"
      BY <1>0, <3>2, RelayTypes DEF Relay
    <3> QED
      BY <1>0, <1>3, <3>1, <3>3 DEF Poll, TypeOK
  <2>2. ASSUME NEW e \in Events, outbox[e].status = "published"
        PROVE  outbox'[e].status = "published"
    <3>1. e \notin Oldest(Candidates)
      BY <2>2 DEF Oldest, Candidates
    <3> QED
      BY <1>3, <2>2, <3>1 DEF Poll, ClaimBatch
  <2> QED
    BY <2>1, <2>2, OnceUnmoved
<1>4. CASE Record(r)
  <2> DEFINE e == relay[r].event
  <2> SUFFICES ASSUME mishaps' = 0, ~overran'
               PROVE  /\ \A f \in Events : SentOnce(f)'
                      /\ \A s \in Relays : relay'[s].pc = "unmark" => sent'[relay'[s].event] = 0
    BY DEF OnceInv
  <2>1. /\ relay[r].pc \in {"mark", "unmark"} /\ Recorded(r)
        /\ sent' = sent /\ mishaps = 0 /\ ~overran
    BY <1>4 DEF Record
  <2>2. /\ \A f \in Events : SentOnce(f)
        /\ \A s \in Relays : relay[s].pc = "unmark" => sent[relay[s].event] = 0
    BY <2>1 DEF OnceInv
  <2>3. /\ e \in Events
        /\ \A f \in Events : f # e => outbox'[f] = outbox[f]
        /\ relay[r].pc = "mark" => outbox'[e].status = "published"
    <3>1. /\ e \in Batch(r) \cap Events
          /\ \A f \in Events : f # e => outbox'[f] = outbox[f]
      BY <2>1, RecordedRow
    <3>2. relay[r].pc = "mark" => outbox'[e] = Unlocked("published")
      BY <1>0, <2>1, <3>1 DEF Recorded, TypeOK
    <3> QED
      BY <3>1, <3>2 DEF Unlocked
  <2>4. /\ relay'[r].pc \in {"poll", "batch"}
        /\ \A s \in Relays : s # r => relay'[s] = relay[s]
    <3>1. CASE Loop(r)
      BY <3>1, LoopRow
    <3>2. CASE relay' = [relay EXCEPT ![r].pc = "batch", ![r].event = None]
      <4>1. relay'[r] = [[relay[r] EXCEPT !.pc = "batch"] EXCEPT !.event = None]
        BY <1>0, <3>2 DEF TypeOK
      <4>2. relay'[r].pc = "batch"
        BY <1>0, <4>1, RelayTypes DEF Relay
      <4> QED
        BY <1>0, <3>2, <4>2 DEF TypeOK
    <3> QED
      BY <1>4, <3>1, <3>2 DEF Record
  <2> HIDE DEF e
  <2>5. ASSUME NEW f \in Events
        PROVE  SentOnce(f)'
    <3>1. CASE f = e /\ relay[r].pc = "mark"
      BY <2>1, <2>2, <2>3, <3>1 DEF SentOnce
    <3>2. CASE f = e /\ relay[r].pc = "unmark"
      BY <2>1, <2>2, <3>2 DEF SentOnce, e
    <3>3. CASE f # e
      <4>1. ASSUME NEW s \in Relays, Marking(s, f)
            PROVE  Marking(s, f)'
        <5>1. s # r
          BY <3>3, <4>1 DEF Marking, e
        <5> QED
          BY <2>4, <4>1, <5>1 DEF Marking
      <4> QED
        BY <2>1, <2>2, <2>3, <3>3, <4>1 DEF SentOnce
    <3> QED
      BY <2>1, <3>1, <3>2, <3>3
  <2>6. ASSUME NEW s \in Relays, relay'[s].pc = "unmark"
        PROVE  sent'[relay'[s].event] = 0
    <3>1. s # r
      BY <2>4, <2>6
    <3> QED
      BY <2>1, <2>2, <2>4, <2>6, <3>1
  <2> QED
    BY <2>5, <2>6
<1> QED
  BY <1>1, <1>2, <1>3, <1>4 DEF Keep

(* A publication that is no mishap: the event was not sent before, so one  *)
(* copy is out and its relay is to mark it, or none is.                    *)
LEMMA PublishesOnce ==
  ASSUME RelayInv, OnceInv, NEW r \in Relays, Publish(r)
  PROVE  OnceInv'
<1> SUFFICES ASSUME mishaps' = 0, ~overran'
             PROVE  /\ \A f \in Events : SentOnce(f)'
                    /\ \A s \in Relays : relay'[s].pc = "unmark" => sent'[relay'[s].event] = 0
  BY DEF OnceInv
<1>1. PICK e \in relay[r].todo : Accepted(r, e) \/ AnswerLost(r, e) \/ Refused(r, e)
  BY DEF Publish
<1>2. ~Mishap
  BY MishapCounts
<1>3. PICK pc \in {"mark", "unmark"} :
        /\ Publication(r, e, pc)
        /\ pc = "mark" => Taken(e)
        /\ pc = "unmark" => sent' = sent
        /\ mishaps' = mishaps
  BY <1>1, <1>2 DEF Accepted, AnswerLost, Refused
<1>4. /\ relay[r].pc = "batch" /\ mishaps = 0 /\ ~overran
      /\ relay' = [relay EXCEPT ![r].pc = pc, ![r].event = e, ![r].todo = @ \ {e}]
      /\ outbox' = outbox
  BY <1>3 DEF Publication
<1>5. e \in Events /\ e \in Batch(r)
  BY RelayTypes DEF RelayInv, Batch
<1>6. relay'[r] = [[[relay[r] EXCEPT !.pc = pc] EXCEPT !.event = e]
                     EXCEPT !.todo = @ \ {e}]
  BY <1>4 DEF RelayInv, TypeOK
<1>7. /\ relay'[r].pc = pc /\ relay'[r].event = e
      /\ \A s \in Relays : s # r => relay'[s] = relay[s]
  BY <1>4, <1>6, RelayTypes DEF RelayInv, TypeOK, Relay
<1>8. sent[e] = 0
  BY <1>4, FirstPublication
<1>9. bound
  BY <1>4 DEF RelayInv, PlaceOK
<1>10. /\ pc = "mark" => sent'[e] = 1
       /\ \A f \in Events : f # e => sent'[f] = sent[f]
  BY <1>3, <1>5, <1>8, <1>9 DEF Taken, RelayInv, TypeOK
<1>11. /\ \A f \in Events : SentOnce(f)
       /\ \A s \in Relays : relay[s].pc = "unmark" => sent[relay[s].event] = 0
  BY <1>4 DEF OnceInv
<1>12. ASSUME NEW f \in Events
       PROVE  SentOnce(f)'
  <2>1. CASE f = e /\ pc = "mark"
    BY <1>7, <1>10, <2>1 DEF SentOnce, Marking
  <2>2. CASE f = e /\ pc = "unmark"
    BY <1>3, <1>8, <2>2 DEF SentOnce
  <2>3. CASE f # e
    <3>1. ASSUME NEW s \in Relays, Marking(s, f)
          PROVE  Marking(s, f)'
      <4>1. s # r
        BY <1>4, <3>1 DEF Marking
      <4> QED
        BY <1>7, <3>1, <4>1 DEF Marking
    <3> QED
      BY <1>4, <1>10, <1>11, <2>3, <3>1 DEF SentOnce
  <2> QED
    BY <2>1, <2>2, <2>3
<1>13. ASSUME NEW s \in Relays, relay'[s].pc = "unmark"
       PROVE  sent'[relay'[s].event] = 0
  <2>1. CASE s = r
    BY <1>3, <1>7, <1>8, <1>13, <2>1
  <2>2. CASE s # r
    <3>1. relay[s].pc = "unmark" /\ relay'[s].event = relay[s].event
      BY <1>7, <1>13, <2>2
    <3>2. relay[s].event \in Batch(s) /\ relay[s].event \in Events
      BY <3>1, RelayTypes DEF RelayInv, PlaceOK, Batch
    <3>3. relay[s].event # e
      BY <1>4, <1>5, <2>2, <3>2, NotTheirs
    <3> QED
      BY <1>10, <1>11, <3>1, <3>2, <3>3
  <2> QED
    BY <2>1, <2>2
<1> QED
  BY <1>12, <1>13

LEMMA NextKeepsOnce ==
  ASSUME RelayInv, OnceInv, [Next]_vars
  PROVE  OnceInv'
<1>1. CASE UNCHANGED vars
  BY <1>1, OnceUnmoved DEF vars
<1>2. ASSUME NEW e \in Events, Create(e)
      PROVE  OnceInv'
  <2>1. /\ relay' = relay /\ sent' = sent /\ mishaps' = mishaps /\ overran' = overran
        /\ outbox[e].status = "absent"
        /\ \A f \in Events : f # e => outbox'[f] = outbox[f]
    BY <1>2 DEF Create, RelayInv, TypeOK
  <2> QED
    BY <2>1, OnceUnmoved
<1>3. ASSUME NEW r \in Relays, Keep(r) \/ Publish(r)
      PROVE  OnceInv'
  BY <1>3, KeepsOnce, PublishesOnce
<1>4. CASE Tick
  <2>1. \A e \in Events : outbox'[e].status = outbox[e].status
    BY <1>4 DEF Tick, RelayInv, TypeOK, OutboxRow
  <2>2. \A r \in Relays : relay'[r].pc = relay[r].pc /\ relay'[r].event = relay[r].event
    BY <1>4 DEF Tick, RelayInv, TypeOK, Relay
  <2>3. sent' = sent /\ mishaps' = mishaps /\ (~overran' => ~overran)
    BY <1>4 DEF Tick
  <2> QED
    BY <2>1, <2>2, <2>3, OnceUnmoved
<1> QED
  BY <1>1, <1>2, <1>3, <1>4 DEF Next

LEMMA OnceInitially == Init => OnceInv
<1> SUFFICES ASSUME Init PROVE OnceInv
  OBVIOUS
<1>1. \A e \in Events : sent[e] = 0
  BY DEF Init
<1>2. \A r \in Relays : relay[r].pc = "down"
  BY DEF Init, Down
<1> QED
  BY <1>1, <1>2 DEF OnceInv, SentOnce

-----------------------------------------------------------------------------
LEMMA RelayInitially == Init => RelayInv
<1> SUFFICES ASSUME Init PROVE RelayInv
  OBVIOUS
<1>1. /\ \A e \in Events : outbox[e] = Unlocked("absent")
      /\ \A r \in Relays : relay[r] = Down
  BY DEF Init
<1>2. TypeOK
  <2>1. outbox \in [Events -> OutboxRow]
    BY RowTypes DEF Init
  <2>2. relay \in [Relays -> Relay]
    BY DownTypes DEF Init
  <2>3. sent \in [Events -> 0..2]
    BY DEF Init
  <2>4. mishaps \in 0..MaxMishaps
    BY RelayAssumption DEF Init
  <2>5. bound \in BOOLEAN /\ overran \in BOOLEAN
    BY Zenon DEF Init
  <2> QED
    BY <2>1, <2>2, <2>3, <2>4, <2>5 DEF TypeOK
<1>3. \A r \in Relays : Batch(r) = {}
  BY <1>1 DEF Batch, Down
<1>4. \A r \in Relays : PlaceOK(r) /\ ClaimOK(r)
  BY <1>1, <1>3 DEF PlaceOK, ClaimOK, Down
<1>5. PublishedWasSent
  BY <1>1 DEF PublishedWasSent, Unlocked
<1> QED
  BY <1>2, <1>3, <1>4, <1>5 DEF RelayInv, ClaimExclusion

(* The inductive invariant of the relays (outbox_relay.py, lifespan,       *)
(* acquire_pending_batch, mark_published, mark_publish_failed).            *)
THEOREM RelayInvariant == Spec => []RelayInv
<1>1. RelayInv /\ [Next]_vars => RelayInv'
  BY RelayNextKeeps
<1> QED
  BY <1>1, RelayInitially, PTL DEF Spec

(* A row marked published reached the payments queue, whatever crashed and *)
(* whoever recorded it (the lifespan's order, mark_published).             *)
THEOREM PublishedOnlyIfSent == Spec => []PublishedWasSent
<1>1. RelayInv => PublishedWasSent
  BY DEF RelayInv
<1> QED
  BY <1>1, RelayInvariant, PTL

(* Until a batch outlives outbox_lock_ttl_seconds no two relays hold one   *)
(* event (acquire_pending_batch).                                          *)
THEOREM ClaimsExclude == Spec => []ClaimExclusion
<1>1. RelayInv => ClaimExclusion
  BY DEF RelayInv
<1> QED
  BY <1>1, RelayInvariant, PTL

(* Without a mishap and an overrun batch, what was sent is marked or about *)
(* to be marked by the relay that sent it, and what is to be released was  *)
(* not sent (_publish_once).                                               *)
THEOREM OnceInvariant == Spec => []OnceInv
<1>1. RelayInv /\ OnceInv /\ [Next]_vars => OnceInv'
  BY NextKeepsOnce
<1> QED
  BY <1>1, OnceInitially, RelayInvariant, PTL DEF Spec

(* A second copy of an event has a cause: a mishap, or a batch that took   *)
(* longer than outbox_lock_ttl_seconds (_publish_once).                    *)
THEOREM DuplicatesExplained == Spec => []DuplicateHasCause
<1>1. RelayInv /\ OnceInv => DuplicateHasCause
  <2> SUFFICES ASSUME RelayInv, OnceInv, mishaps = 0, ~overran, NEW e \in Events
               PROVE  sent[e] <= 1
    BY DEF DuplicateHasCause
  <2>1. SentOnce(e) /\ sent[e] \in 0..2
    BY DEF OnceInv, RelayInv, TypeOK
  <2> QED
    BY <2>1 DEF SentOnce
<1> QED
  BY <1>1, OnceInvariant, RelayInvariant, PTL

(* The relays' variables keep their types (the columns of the outbox table *)
(* and the places of _run and _publish_once).                              *)
THEOREM RelayStateTypes == Spec => []TypeOK
<1>1. RelayInv => TypeOK
  BY DEF RelayInv
<1> QED
  BY <1>1, RelayInvariant, PTL
=============================================================================
