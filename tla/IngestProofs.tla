------------------------------ MODULE IngestProofs ------------------------------
(***************************************************************************)
(* What is guaranteed of inbound mail, of rebuilding a mailbox and of its  *)
(* schema, for any mail, keys, workers, retry limits, runs and releases.   *)
(*                                                                         *)
(* Ingest: every taking of a message from the queue has an attempt number  *)
(* of its own, so the id a request makes is its alone; the transaction     *)
(* inserts only under a key that is free; hence of all requests under a    *)
(* key at most one is ever past its own insert, and only that one indexes  *)
(* and notifies.                                                           *)
(*                                                                         *)
(* Rebuild: only pushes of rows whose bytes R2 has reach the queue, each a *)
(* message of its own, so a row of the object belongs to a row of the old  *)
(* index.  An ingest row older than the run has the id the run saw when it *)
(* planned; any other names a row of the object.  And once there is a row  *)
(* for every raw object, every key is taken and none can come.             *)
(*                                                                         *)
(* Schema: what a storage must have follows from the version it records    *)
(* and, while the constructor runs, from the step it has reached; both     *)
(* hold of the storage as the cold start found it too, which is what an    *)
(* exception may bring back.                                               *)
(***************************************************************************)
EXTENDS MailboxRebuild, MailboxSchema, FiniteSetTheorems, SequenceTheorems, TLAPS

--------------------------------------------------------------------------------
(* The strengthening.                                                      *)

Active(w) == work[w].pc # "idle"
Announcing(w) == work[w].pc \in {"index", "event", "notify"}

\* What a request is about, and that whoever waits for it holds the message.
RequestsTyped ==
  \A w \in Workers :
    /\ ~Active(w) => work[w] = Idle
    /\ Active(w) => /\ work[w].of \in Deliveries
                    /\ work[w].try \in 1 .. tries[work[w].of]
                    /\ work[w].heard \/ InObject(w)
    /\ Active(w) /\ work[w].heard => queue[work[w].of] = "busy"

\* The retries a message has left where it is.
TriesLeft ==
  \A d \in Deliveries :
    /\ queue[d] \in {"none", "waiting"} => tries[d] <= MaxRetries
    /\ queue[d] = "busy" => tries[d] <= MaxRetries + 1
    /\ queue[d] = "dead" => tries[d] < MaxTries

\* Requests about one message have attempt numbers of their own, and at most
\* one of them is listened to.
RequestsDiffer ==
  \A v, w \in Workers : v # w /\ Active(v) /\ Active(w) /\ work[v].of = work[w].of =>
    /\ work[v].try # work[w].try
    /\ ~(work[v].heard /\ work[w].heard)

\* A parsed message was put before it is stored, and what a consumer was
\* answered is so: a duplicate's original is there, and who announces a message
\* inserted it, alone under its key and before anybody was notified of it.
AnswerHolds(w) ==
  /\ work[w].pc = "storing" => NewId(w) \in parts
  /\ work[w].pc = "duplicate" \/ Announcing(w) =>
       \E r \in rows : r.key = KeyOf[work[w].of] /\ r.id = work[w].id
  /\ Announcing(w) =>
       /\ work[w].id = NewId(w)
       /\ \A d \in Deliveries : KeyOf[d] = KeyOf[work[w].of] => notices[d] = 0
  /\ work[w].pc \in {"event", "notify"} => work[w].id \in index

AnswersHold == \A w \in Workers : AnswerHolds(w)

\* Who was notified holds the one message of its key.
NoticesHold ==
  \A d \in Deliveries :
    /\ notices[d] \in {0, 1}
    /\ notices[d] = 1 => \E row \in Held(KeyOf[d]) : row.id \in index /\ row.id[1] = d

\* A mail the handler has not handed over is not on the queue.
Unsent == \A d \in Deliveries : smtp[d] \in {"new", "stored"} => queue[d] = "none"

QueueInv == IngestTypeOK /\ RequestsTyped /\ Unsent /\ TriesLeft /\ RequestsDiffer
MailInv == OneMessagePerKey /\ ProjectionNeverLeads /\ AnswersHold /\ NoticesHold
IngestInductive == QueueInv /\ MailInv

Work == [pc : Stages, of : Deliveries \cup {NoDelivery}, try : 0 .. MaxTries, id : Ids,
         heard : BOOLEAN]

LEMMA Basics ==
  /\ MaxRetries \in Nat /\ MaxTries \in Nat /\ MaxRetries + 1 < MaxTries
  /\ NoId \in Ids /\ NoEvent \in EventRow /\ Idle \in Work
  /\ \A d \in Deliveries : KeyOf[d] \in Keys /\ RawOf[d] \in Raws /\ d # NoDelivery
<1>1. MaxRetries \in Nat /\ MaxTries \in Nat /\ MaxRetries + 1 < MaxTries
  BY IngestAssumption DEF MaxTries
<1>2. NoId \in Ids
  BY <1>1 DEF NoId, Ids
<1>3. (CHOOSE r \in Raws : TRUE) \in Raws
  BY IngestAssumption
<1> QED
  BY <1>1, <1>2, <1>3, IngestAssumption DEF NoEvent, EventRow, Idle, Work, Stages, NoId

LEMMA IngestStarts == IngestInit => IngestInductive
<1> SUFFICES ASSUME IngestInit PROVE IngestInductive
  OBVIOUS
<1>1. IngestTypeOK
  BY Basics DEF IngestInit, IngestTypeOK, Work
<1>2. RequestsTyped /\ RequestsDiffer /\ AnswersHold
  BY DEF IngestInit, RequestsTyped, RequestsDiffer, AnswersHold, AnswerHolds, Active,
         Announcing, Idle
<1>3. TriesLeft /\ NoticesHold /\ Unsent
  BY Basics DEF IngestInit, TriesLeft, NoticesHold, Unsent
<1>4. OneMessagePerKey /\ ProjectionNeverLeads
  BY DEF IngestInit, OneMessagePerKey, ProjectionNeverLeads, NoEvent
<1> QED
  BY <1>1, <1>2, <1>3, <1>4 DEF IngestInductive, QueueInv, MailInv

--------------------------------------------------------------------------------
(* The queue and the requests.                                             *)

\* The steps of one request between its taking and its end.
RequestStep(w) ==
  \/ ingestInboundEmail(w)
  \/ RecordConflict(w) \/ OpsConflict(w) \/ RecordDuplicate(w)
  \/ IndexMail(w) \/ RecordProcessed(w) \/ Notify(w)

\* A request that goes on is about the same message; one nobody listens to
\* ends with its work in the object.
Onward(w, x) ==
  \/ x = Idle /\ ~work[w].heard
  \/ /\ x \in Work /\ x.pc # "idle"
     /\ x.of = work[w].of /\ x.try = work[w].try /\ x.heard = work[w].heard
     /\ x.heard \/ x.pc \in {"parsing", "storing", "storing_failed"}

LEMMA OnwardGoTo ==
  ASSUME QueueInv, NEW w \in Workers, Active(w), NEW stage \in Stages \ {"idle"}, GoTo(w, stage),
         work[w].heard \/ stage \in {"parsing", "storing", "storing_failed"}
  PROVE  work' = [work EXCEPT ![w] = work'[w]] /\ Onward(w, work'[w])
  BY DEF GoTo, QueueInv, IngestTypeOK, Onward, Work

LEMMA OnwardAnswer ==
  ASSUME QueueInv, NEW w \in Workers, Active(w), NEW stage \in Stages \ {"idle"}, NEW id \in Ids,
         Answer(w, stage, id)
  PROVE  work' = [work EXCEPT ![w] = work'[w]] /\ Onward(w, work'[w])
  BY DEF Answer, QueueInv, IngestTypeOK, Onward, Work

LEMMA NewIdTyped ==
  ASSUME QueueInv, NEW w \in Workers, Active(w)
  PROVE  NewId(w) \in Ids /\ work[w].of \in Deliveries
  BY DEF QueueInv, IngestTypeOK, RequestsTyped, NewId, Ids

LEMMA RequestGoesOn ==
  ASSUME QueueInv, NEW w \in Workers, RequestStep(w)
  PROVE  /\ Active(w)
         /\ work' = [work EXCEPT ![w] = work'[w]] /\ Onward(w, work'[w])
         /\ UNCHANGED <<smtp, raws, queue, tries>>
<1>1. Active(w) /\ UNCHANGED <<smtp, raws, queue, tries>>
  BY DEF RequestStep, ingestInboundEmail, Check, ParseAndPut, Store, RecordConflict, OpsConflict,
         RecordDuplicate, IndexMail, RecordProcessed, Notify, At, Active
<1>2. InObject(w) \/ work[w].heard
  BY <1>1 DEF QueueInv, RequestsTyped
<1>3. \A row \in rows : row.id \in Ids
  BY DEF QueueInv, IngestTypeOK, Row
<1>4. CASE Check(w)
  <2>1. work[w].heard
    BY <1>2, <1>4 DEF Check, At, InObject
  <2>2. CASE GoTo(w, "parsing")
    BY <1>1, <2>2, OnwardGoTo DEF Stages
  <2>3. CASE \E row \in Held(KeyOf[work[w].of]) : Answer(w, Taken(work[w].of, row), row.id)
    BY <1>1, <1>3, <2>3, OnwardAnswer DEF Stages, Taken, Held
  <2> QED
    BY <1>1, <1>4, <2>2, <2>3 DEF Check
<1>5. CASE ParseAndPut(w)
  BY <1>1, <1>5, OnwardGoTo DEF ParseAndPut, Stages
<1>6. CASE Store(w)
  BY <1>1, <1>3, <1>6, OnwardAnswer, NewIdTyped
  DEF Store, resolveConcurrentIdempotencyConflict, Insert, Stages, Taken, Held
<1>7. CASE RecordConflict(w) \/ OpsConflict(w) \/ RecordDuplicate(w) \/ IndexMail(w)
           \/ RecordProcessed(w) \/ Notify(w)
  <2>1. work[w].heard
    BY <1>2, <1>7 DEF RecordConflict, OpsConflict, RecordDuplicate, IndexMail, RecordProcessed,
                      Notify, At, InObject
  <2> QED
    BY <1>1, <1>7, <2>1, OnwardGoTo
    DEF RecordConflict, OpsConflict, RecordDuplicate, IndexMail, RecordProcessed, Notify, Stages
<1> QED
  BY <1>1, <1>4, <1>5, <1>6, <1>7 DEF RequestStep, ingestInboundEmail

\* The tables stay typed, whatever a request writes.
LEMMA TablesTyped ==
  ASSUME QueueInv, NEW w \in Workers, RequestStep(w)
  PROVE  /\ rows' \subseteq Row /\ parts' \subseteq Ids /\ index' \subseteq Ids
         /\ events' \in [Keys -> EventRow] /\ notices' \in [Deliveries -> Nat]
<1>1. /\ Active(w) /\ NewId(w) \in Ids /\ work[w].of \in Deliveries /\ work[w].id \in Ids
      /\ rows \subseteq Row /\ parts \subseteq Ids /\ index \subseteq Ids
      /\ events \in [Keys -> EventRow] /\ notices \in [Deliveries -> Nat]
  BY RequestGoesOn, NewIdTyped DEF QueueInv, IngestTypeOK
<1>2. KeyOf[work[w].of] \in Keys /\ RawOf[work[w].of] \in Raws
  BY <1>1, Basics
<1>3. CASE Check(w) \/ OpsConflict(w) \/ ParseAndPut(w) \/ IndexMail(w) \/ Notify(w)
  BY <1>1, <1>3 DEF Check, OpsConflict, ParseAndPut, IndexMail, Notify, mailVars
<1>4. CASE Store(w)
  BY <1>1, <1>2, <1>4 DEF Store, resolveConcurrentIdempotencyConflict, Insert, Row
<1>5. ASSUME NEW status \in {"processed", "failed"}, NEW id \in Ids, EventWrite(w, status, id)
      PROVE  events' \in [Keys -> EventRow]
  BY <1>1, <1>2, <1>5 DEF EventWrite, EventRow
<1>6. CASE RecordConflict(w) \/ RecordDuplicate(w) \/ RecordProcessed(w)
  BY <1>1, <1>5, <1>6, Basics DEF RecordConflict, RecordDuplicate, RecordProcessed
<1> QED
  BY <1>3, <1>4, <1>6 DEF RequestStep, ingestInboundEmail

\* A request that goes on leaves the queue and its numbering alone.
LEMMA QueueAfterRequest ==
  ASSUME QueueInv, NEW w \in Workers, RequestStep(w)
  PROVE  QueueInv'
<1>1. /\ Active(w) /\ work' = [work EXCEPT ![w] = work'[w]] /\ Onward(w, work'[w])
      /\ UNCHANGED <<smtp, raws, queue, tries>>
  BY RequestGoesOn
<1>2. IngestTypeOK'
  BY <1>1, TablesTyped, Basics DEF QueueInv, IngestTypeOK, Onward, Work
<1>3. RequestsTyped'
  <2>1. CASE work'[w] = Idle
    BY <1>1, <2>1 DEF QueueInv, RequestsTyped, Active, InObject, Idle, IngestTypeOK
  <2>2. CASE work'[w] # Idle
    BY <1>1, <2>2 DEF QueueInv, RequestsTyped, Active, InObject, Onward, IngestTypeOK
  <2> QED
    BY <2>1, <2>2
<1>4. Unsent' /\ TriesLeft'
  BY <1>1 DEF QueueInv, Unsent, TriesLeft
<1>5. \A v \in Workers : Active(v)' => /\ Active(v) /\ work'[v].of = work[v].of
                                       /\ work'[v].try = work[v].try
                                       /\ work'[v].heard = work[v].heard
  BY <1>1 DEF Active, Onward, Idle, QueueInv, IngestTypeOK
<1>6. RequestsDiffer'
  BY <1>5 DEF QueueInv, RequestsDiffer
<1> QED
  BY <1>2, <1>3, <1>4, <1>6 DEF QueueInv

\* A message taken gets a number larger than all before it.
LEMMA QueueAfterTake ==
  ASSUME QueueInv, NEW w \in Workers, NEW d \in Deliveries, Take(w, d)
  PROVE  QueueInv'
<1> DEFINE x == [Idle EXCEPT !.pc = "check", !.of = d, !.try = tries[d] + 1]
<1>1. /\ queue[d] = "waiting" /\ work[w] = Idle
      /\ work' = [work EXCEPT ![w] = x]
      /\ queue' = [queue EXCEPT ![d] = "busy"]
      /\ tries' = [tries EXCEPT ![d] = tries[d] + 1]
      /\ UNCHANGED <<smtp, raws, mailVars>>
  BY DEF Take
<1>2. tries[d] \in Nat /\ tries[d] <= MaxRetries
  BY <1>1 DEF QueueInv, TriesLeft, IngestTypeOK
<1>3. /\ x \in Work
      /\ x.pc = "check" /\ x.of = d /\ x.try = tries[d] + 1 /\ x.heard
  <2>1. tries[d] + 1 \in 0 .. MaxTries
    BY <1>2, Basics
  <2>2. x \in Work
    BY <2>1, Basics DEF Work, Stages
  <2>3. x.pc = "check" /\ x.of = d /\ x.try = tries[d] + 1 /\ x.heard
    BY DEF Idle
  <2> QED
    BY <2>2, <2>3
<1> HIDE DEF x
<1>4. IngestTypeOK'
  <2>1. work' \in [Workers -> Work]
    BY <1>1, <1>3 DEF QueueInv, IngestTypeOK, Work
  <2>2. tries[d] + 1 \in 0 .. MaxTries
    BY <1>2, Basics
  <2>3. tries' \in [Deliveries -> 0 .. MaxTries]
    BY <1>1, <2>2 DEF QueueInv, IngestTypeOK
  <2> QED
    BY <1>1, <2>1, <2>3 DEF QueueInv, IngestTypeOK, Work, mailVars
<1>5. \A v \in Workers : v # w /\ Active(v) /\ work[v].of = d => /\ ~work[v].heard
                                                                 /\ work[v].try <= tries[d]
  BY <1>1, <1>2 DEF QueueInv, RequestsTyped, IngestTypeOK
<1>6. RequestsTyped'
  <2> SUFFICES ASSUME NEW v \in Workers
      PROVE /\ ~Active(v)' => work'[v] = Idle
            /\ Active(v)' => /\ work'[v].of \in Deliveries
                             /\ work'[v].try \in 1 .. tries'[work'[v].of]
                             /\ work'[v].heard \/ InObject(v)'
            /\ Active(v)' /\ work'[v].heard => queue'[work'[v].of] = "busy"
    BY DEF RequestsTyped
  <2>1. CASE v = w
    BY <1>1, <1>2, <1>3, <2>1 DEF Active, QueueInv, IngestTypeOK
  <2>2. CASE v # w
    <3>1. work'[v] = work[v]
      BY <1>1, <2>2
    <3>2. \A e \in Deliveries : tries[e] \in Nat /\ tries'[e] \in Nat /\ tries[e] <= tries'[e]
      BY <1>1, <1>2 DEF QueueInv, IngestTypeOK
    <3>3. \A e \in Deliveries : queue[e] = "busy" => queue'[e] = "busy"
      BY <1>1 DEF QueueInv, IngestTypeOK
    <3> QED
      BY <3>1, <3>2, <3>3 DEF QueueInv, RequestsTyped, Active, InObject
  <2> QED
    BY <2>1, <2>2
<1>7. Unsent' /\ TriesLeft'
  BY <1>1, <1>2, Basics DEF QueueInv, Unsent, TriesLeft, IngestTypeOK
<1>8. RequestsDiffer'
  <2> SUFFICES ASSUME NEW v \in Workers, NEW u \in Workers, v # u, Active(v)', Active(u)',
                      work'[v].of = work'[u].of
      PROVE work'[v].try # work'[u].try /\ ~(work'[v].heard /\ work'[u].heard)
    BY DEF RequestsDiffer
  <2>1. \A t \in Workers : t # w => work'[t] = work[t]
    BY <1>1
  <2>2. work'[w] = x
    BY <1>1 DEF QueueInv, IngestTypeOK
  <2>3. CASE v # w /\ u # w
    BY <2>1, <2>3 DEF QueueInv, RequestsDiffer, Active
  <2>4. CASE v = w
    BY <1>2, <1>3, <1>5, <2>1, <2>2, <2>4 DEF Active, QueueInv, RequestsTyped, IngestTypeOK
  <2>5. CASE u = w
    BY <1>2, <1>3, <1>5, <2>1, <2>2, <2>5 DEF Active, QueueInv, RequestsTyped, IngestTypeOK
  <2> QED
    BY <2>3, <2>4, <2>5
<1> QED
  BY <1>4, <1>6, <1>7, <1>8 DEF QueueInv

\* A consumer that ends, or that is gone, puts its message back or away.
LEMMA QueueAfterRelease ==
  ASSUME QueueInv, NEW w \in Workers, ConsumerFails(w) \/ CallerGone(w) \/ Ack(w)
  PROVE  QueueInv' /\ UNCHANGED mailVars
<1> DEFINE d == work[w].of
<1>1. /\ Active(w) /\ work[w].heard /\ d \in Deliveries /\ queue[d] = "busy"
      /\ UNCHANGED <<smtp, raws, tries, mailVars>>
  BY DEF ConsumerFails, CallerGone, Ack, Consuming, InObject, At, Active, QueueInv, RequestsTyped
<1>2. tries[d] \in Nat /\ tries[d] <= MaxRetries + 1
  BY <1>1 DEF QueueInv, TriesLeft, IngestTypeOK
<1>3. PICK to \in {"dead", "waiting", "acked"} :
        /\ queue' = [queue EXCEPT ![d] = to]
        /\ to = "waiting" => tries[d] <= MaxRetries
  BY <1>2, Basics DEF ConsumerFails, CallerGone, Ack, Retry
<1>4. /\ work' = [work EXCEPT ![w] = work'[w]]
      /\ \/ work'[w] = Idle
         \/ work'[w] = [work[w] EXCEPT !.heard = FALSE] /\ InObject(w)
  BY DEF ConsumerFails, CallerGone, Ack, QueueInv, IngestTypeOK
<1>5. work[w] \in Work /\ work'[w] \in Work
  BY <1>4, Basics DEF QueueInv, IngestTypeOK, Work
<1>6. IngestTypeOK'
  BY <1>1, <1>3, <1>4, <1>5 DEF QueueInv, IngestTypeOK, Work, mailVars
<1>7. /\ \A v \in Workers : v # w => work'[v] = work[v]
      /\ \A v \in Workers : v # w /\ Active(v) /\ work[v].heard => work[v].of # d
  <2>1. \A v \in Workers : v # w => work'[v] = work[v]
    BY <1>4 DEF QueueInv, IngestTypeOK
  <2>2. \A v \in Workers : v # w /\ Active(v) /\ work[v].heard => work[v].of # d
    <3> SUFFICES ASSUME NEW v \in Workers, v # w, Active(v), work[v].heard, work[v].of = d
        PROVE FALSE
      OBVIOUS
    <3>1. Active(w) /\ work[w].heard /\ work[v].of = work[w].of
      BY <1>1
    <3> QED
      BY <3>1 DEF QueueInv, RequestsDiffer
  <2> QED
    BY <2>1, <2>2
<1>8. work'[w] # Idle => /\ ~work'[w].heard /\ InObject(w)' /\ Active(w)'
                          /\ work'[w].of = d /\ work'[w].try = work[w].try
  BY <1>4, <1>5 DEF InObject, Active, Work
<1>9. RequestsTyped'
  <2>1. \A v \in Workers : v # w /\ Active(v) /\ work[v].heard => queue'[work[v].of] = "busy"
    BY <1>3, <1>7 DEF QueueInv, RequestsTyped, IngestTypeOK
  <2>2. ~Active(w)' => work'[w] = Idle
    BY <1>8
  <2>3. ~Active(w)' \/ work'[w] # Idle
    BY DEF Active, Idle
  <2>4. ASSUME NEW v \in Workers, v # w
        PROVE  /\ ~Active(v)' => work'[v] = Idle
               /\ Active(v)' => /\ work'[v].of \in Deliveries
                                /\ work'[v].try \in 1 .. tries'[work'[v].of]
                                /\ work'[v].heard \/ InObject(v)'
               /\ Active(v)' /\ work'[v].heard => queue'[work'[v].of] = "busy"
    BY <1>1, <1>7, <2>1, <2>4 DEF QueueInv, RequestsTyped, Active, InObject
  <2>5. Active(w)' => /\ work'[w].of \in Deliveries
                      /\ work'[w].try \in 1 .. tries'[work'[w].of]
                      /\ InObject(w)' /\ ~work'[w].heard
    BY <1>1, <1>8, <2>3 DEF QueueInv, RequestsTyped
  <2> QED
    BY <2>2, <2>4, <2>5 DEF RequestsTyped
<1>10. Unsent' /\ TriesLeft'
  <2>1. \A e \in Deliveries : e # d => queue'[e] = queue[e]
    BY <1>3
  <2>2. queue'[d] = to
    BY <1>1, <1>3 DEF QueueInv, IngestTypeOK
  <2>3. tries[d] < MaxTries
    BY <1>2, Basics DEF QueueInv, IngestTypeOK
  <2> QED
    BY <1>1, <1>3, <2>1, <2>2, <2>3 DEF QueueInv, Unsent, TriesLeft
<1>11. RequestsDiffer'
  <2>1. ~Active(w)' \/ work'[w] # Idle
    BY DEF Active, Idle
  <2> QED
    BY <1>1, <1>7, <1>8, <2>1 DEF QueueInv, RequestsDiffer, Active
<1> QED
  BY <1>1, <1>6, <1>9, <1>10, <1>11 DEF QueueInv

\* The handler and the dead-letter consumer reach no request and no table.
LEMMA QueueAfterOthers ==
  ASSUME QueueInv, NEW d \in Deliveries, handleEmail(d) \/ handleDeadLetterQueue(d)
  PROVE  QueueInv' /\ UNCHANGED <<work, mailVars>>
<1>1. UNCHANGED <<work, mailVars>>
  BY DEF handleEmail, PutRaw, SendToQueue, HandlerFails, handleDeadLetterQueue
<1>2. CASE handleEmail(d)
  <2>1. /\ tries' = tries /\ raws' \subseteq Raws
        /\ smtp' \in [Deliveries -> {"new", "stored", "sent", "failed"}]
    BY <1>2, Basics DEF handleEmail, PutRaw, SendToQueue, HandlerFails, QueueInv, IngestTypeOK
  <2>2. \/ queue' = queue
        \/ queue[d] = "none" /\ queue' = [queue EXCEPT ![d] = "waiting"]
    BY <1>2 DEF handleEmail, PutRaw, SendToQueue, HandlerFails, QueueInv, Unsent
  <2>3. Unsent'
    BY <1>2 DEF handleEmail, PutRaw, SendToQueue, HandlerFails, QueueInv, IngestTypeOK, Unsent
  <2> QED
    BY <1>1, <2>1, <2>2, <2>3
    DEF QueueInv, IngestTypeOK, RequestsTyped, RequestsDiffer, TriesLeft, Active, InObject, mailVars
<1>3. CASE handleDeadLetterQueue(d)
  <2>1. /\ queue[d] = "dead" /\ tries[d] \in Nat /\ tries[d] < MaxTries
        /\ UNCHANGED <<smtp, raws>>
    BY <1>3 DEF handleDeadLetterQueue, QueueInv, IngestTypeOK, TriesLeft
  <2>2. PICK to \in {"buried", "lost", "dead"}, n \in {tries[d], tries[d] + 1} :
          /\ queue' = [queue EXCEPT ![d] = to] /\ tries' = [tries EXCEPT ![d] = n]
          /\ to = "dead" => n < MaxTries
    <3>1. CASE queue' = [queue EXCEPT ![d] = "buried"] /\ tries' = tries
      <4>1. tries' = [tries EXCEPT ![d] = tries[d]]
        BY <3>1 DEF QueueInv, IngestTypeOK
      <4> QED
        BY <3>1, <4>1
    <3>2. CASE /\ tries' = [tries EXCEPT ![d] = @ + 1]
               /\ queue' = [queue EXCEPT ![d] = IF tries[d] = MaxTries - 1 THEN "lost" ELSE "dead"]
      <4>1. CASE tries[d] = MaxTries - 1
        BY <3>2, <4>1
      <4>2. CASE tries[d] # MaxTries - 1
        <5>1. tries[d] + 1 < MaxTries
          BY <2>1, <4>2, Basics
        <5> QED
          BY <3>2, <4>2, <5>1
      <4> QED
        BY <4>1, <4>2
    <3> QED
      BY <1>3, <3>1, <3>2 DEF handleDeadLetterQueue
  <2>3. n \in 0 .. MaxTries
    BY <2>1, <2>2, Basics
  <2>4. IngestTypeOK'
    BY <1>1, <2>1, <2>2, <2>3 DEF QueueInv, IngestTypeOK, mailVars
  <2>5. \A e \in Deliveries : /\ tries[e] \in Nat /\ tries'[e] \in Nat /\ tries[e] <= tries'[e]
                              /\ queue[e] = "busy" => queue'[e] = "busy"
    BY <2>1, <2>2, <2>3 DEF QueueInv, IngestTypeOK
  <2>6. RequestsTyped' /\ RequestsDiffer'
    BY <1>1, <2>5 DEF QueueInv, RequestsTyped, RequestsDiffer, Active, InObject
  <2>7. Unsent' /\ TriesLeft'
    BY <2>1, <2>2 DEF QueueInv, Unsent, TriesLeft, IngestTypeOK
  <2> QED
    BY <1>1, <2>4, <2>6, <2>7 DEF QueueInv
<1> QED
  BY <1>2, <1>3

--------------------------------------------------------------------------------
(* The mail: what a request writes and what it is told.                    *)

\* Who is in a stage that promises nothing about the tables.
Quiet == Stages \ {"storing", "duplicate", "index", "event", "notify"}

\* Steps that leave the tables alone and make nobody promise more.
LEMMA MailAfterQuiet ==
  ASSUME MailInv, UNCHANGED mailVars,
         \A v \in Workers : \/ work'[v].pc \in Quiet
                            \/ /\ work'[v].pc = work[v].pc /\ work'[v].of = work[v].of
                               /\ work'[v].try = work[v].try /\ work'[v].id = work[v].id
  PROVE  MailInv'
<1>1. UNCHANGED <<rows, parts, index, events, notices>>
  BY DEF mailVars
<1>2. OneMessagePerKey' /\ ProjectionNeverLeads' /\ NoticesHold'
  BY <1>1 DEF MailInv, OneMessagePerKey, ProjectionNeverLeads, NoticesHold, Held, Stored
<1>3. AnswersHold'
  BY <1>1 DEF MailInv, AnswersHold, AnswerHolds, NewId, Quiet, Announcing
<1> QED
  BY <1>2, <1>3 DEF MailInv

LEMMA WentTo ==
  ASSUME QueueInv, NEW w \in Workers, NEW stage, GoTo(w, stage)
  PROVE  /\ work'[w].pc = stage /\ work'[w].of = work[w].of
         /\ work'[w].try = work[w].try /\ work'[w].id = work[w].id
  BY DEF GoTo, QueueInv, IngestTypeOK

LEMMA Answered ==
  ASSUME QueueInv, NEW w \in Workers, NEW stage, NEW id, Answer(w, stage, id)
  PROVE  \/ work'[w].pc = "idle"
         \/ /\ work'[w].pc = stage /\ work'[w].id = id
            /\ work'[w].of = work[w].of /\ work'[w].try = work[w].try
<1>1. CASE work[w].heard
  BY <1>1 DEF Answer, QueueInv, IngestTypeOK
<1>2. CASE ~work[w].heard
  BY <1>2 DEF Answer, QueueInv, IngestTypeOK, Idle
<1> QED
  BY <1>1, <1>2

\* A request only adds to the tables, and counts no notice but its own.
LEMMA RequestAdds ==
  ASSUME QueueInv, NEW w \in Workers, RequestStep(w)
  PROVE  /\ rows \subseteq rows' /\ parts \subseteq parts' /\ index \subseteq index'
         /\ \A v \in Workers : v # w => work'[v] = work[v]
         /\ \A d \in Deliveries : notices'[d] = notices[d] \/ (d = work[w].of /\ At(w, "notify"))
<1>1. \A v \in Workers : v # w => work'[v] = work[v]
  BY RequestGoesOn DEF QueueInv, IngestTypeOK
<1>2. /\ rows \subseteq rows' /\ parts \subseteq parts' /\ index \subseteq index'
      /\ notices' = notices \/ Notify(w)
  BY DEF RequestStep, ingestInboundEmail, Check, ParseAndPut, Store, Insert,
         resolveConcurrentIdempotencyConflict, RecordConflict, OpsConflict, RecordDuplicate,
         IndexMail, RecordProcessed, Notify, mailVars
<1>3. \A d \in Deliveries : notices'[d] = notices[d] \/ (d = work[w].of /\ At(w, "notify"))
  <2>1. CASE notices' = notices
    BY <2>1
  <2>2. CASE Notify(w)
    <3> SUFFICES ASSUME NEW d \in Deliveries, d # work[w].of PROVE notices'[d] = notices[d]
      BY <2>2 DEF Notify
    <3> QED
      BY <2>2 DEF Notify, QueueInv, IngestTypeOK
  <2> QED
    BY <1>2, <2>1, <2>2
<1> QED
  BY <1>1, <1>2, <1>3

\* Two requests under one key are never both past their insert: the row the
\* key has is the id of one of them.
LEMMA OneAnnounces ==
  ASSUME QueueInv, MailInv, NEW v \in Workers, NEW w \in Workers,
         Announcing(v), Announcing(w), KeyOf[work[v].of] = KeyOf[work[w].of]
  PROVE  v = w
<1>1. PICK a \in rows : a.key = KeyOf[work[v].of] /\ a.id = work[v].id
  BY DEF MailInv, AnswersHold, AnswerHolds
<1>2. PICK b \in rows : b.key = KeyOf[work[w].of] /\ b.id = work[w].id
  BY DEF MailInv, AnswersHold, AnswerHolds
<1>3. a = b
  BY <1>1, <1>2 DEF MailInv, OneMessagePerKey
<1>4. NewId(v) = NewId(w)
  BY <1>1, <1>2, <1>3 DEF MailInv, AnswersHold, AnswerHolds
<1>5. work[v].of = work[w].of /\ work[v].try = work[w].try
  BY <1>4 DEF NewId
<1>6. Active(v) /\ Active(w)
  BY DEF Announcing, Active
<1> QED
  BY <1>5, <1>6 DEF QueueInv, RequestsDiffer

\* What the consumer of w is told is so.
LEMMA RequestIsToldTheTruth ==
  ASSUME QueueInv, MailInv, NEW w \in Workers, RequestStep(w)
  PROVE  AnswerHolds(w)'
<1> DEFINE k == KeyOf[work[w].of]
<1>1. Active(w) /\ work[w].of \in Deliveries /\ rows \subseteq rows'
  BY RequestGoesOn, RequestAdds, NewIdTyped
<1>2. \A row \in rows : Taken(work[w].of, row) \in {"conflict", "duplicate"}
  BY DEF Taken
<1>3. ASSUME NEW row \in Held(k), Answer(w, Taken(work[w].of, row), row.id)
      PROVE  AnswerHolds(w)'
  <2>1. row \in rows' /\ row.key = k
    BY <1>1, <1>3 DEF Held
  <2>2. \/ work'[w].pc \in {"idle", "conflict"}
        \/ work'[w].pc = "duplicate" /\ work'[w].id = row.id /\ work'[w].of = work[w].of
    BY <1>2, <1>3, Answered DEF Held
  <2> QED
    BY <2>1, <2>2 DEF AnswerHolds, Announcing
<1>4. CASE Check(w)
  <2>1. CASE GoTo(w, "parsing")
    BY <2>1, WentTo DEF Announcing, AnswerHolds
  <2> QED
    BY <1>3, <1>4, <2>1 DEF Check
<1>5. CASE ParseAndPut(w)
  <2>1. CASE parts' = parts \cup {NewId(w)} /\ GoTo(w, "storing")
    BY <2>1, WentTo DEF Announcing, AnswerHolds, NewId
  <2>2. CASE GoTo(w, "storing_failed")
    BY <2>2, WentTo DEF Announcing, AnswerHolds
  <2> QED
    BY <1>5, <2>1, <2>2 DEF ParseAndPut
<1>6. CASE Store(w)
  <2>1. CASE Held(k) # {}
    BY <1>3, <1>6, <2>1 DEF Store, resolveConcurrentIdempotencyConflict
  <2>2. ASSUME Held(k) = {}, NEW parse, Insert(w, parse)
        PROVE  AnswerHolds(w)'
    <3>1. CASE work'[w].pc = "idle"
      BY <3>1 DEF AnswerHolds, Announcing
    <3>2. CASE work'[w].pc # "idle"
      <4>1. /\ work'[w].pc = "index" /\ work'[w].id = NewId(w)
            /\ work'[w].of = work[w].of /\ work'[w].try = work[w].try
        BY <2>2, <3>2, Answered DEF Insert
      <4>2. NewId(w)' = NewId(w)
        BY <4>1 DEF NewId
      <4>3. \E r \in rows' : r.key = k /\ r.id = NewId(w)
        <5> DEFINE r == [id |-> NewId(w), key |-> k, raw |-> RawOf[work[w].of], parse |-> parse]
        <5>1. r \in rows'
          BY <2>2 DEF Insert
        <5>2. r.key = k /\ r.id = NewId(w)
          OBVIOUS
        <5> QED
          BY <5>1, <5>2
      <4>4. \A d \in Deliveries : KeyOf[d] = k => notices[d] = 0
        BY <2>2 DEF MailInv, NoticesHold
      <4>5. \A d \in Deliveries : notices'[d] = notices[d]
        BY <1>6, RequestAdds DEF Store, At
      <4> QED
        BY <4>1, <4>2, <4>3, <4>4, <4>5 DEF AnswerHolds, Announcing
    <3> QED
      BY <3>1, <3>2
  <2> QED
    BY <1>6, <2>1, <2>2 DEF Store
<1>7. CASE RecordConflict(w) \/ OpsConflict(w) \/ RecordDuplicate(w) \/ Notify(w)
  <2>1. work'[w].pc \in {"conflict_ops", "done"}
    BY <1>7, WentTo DEF RecordConflict, OpsConflict, RecordDuplicate, Notify
  <2> QED
    BY <2>1 DEF AnswerHolds, Announcing
<1>8. CASE IndexMail(w) \/ RecordProcessed(w)
  <2>1. /\ Announcing(w) /\ work'[w].pc \in {"event", "notify"}
        /\ work'[w].of = work[w].of /\ work'[w].try = work[w].try /\ work'[w].id = work[w].id
        /\ UNCHANGED <<notices, rows>>
    BY <1>8, WentTo DEF IndexMail, RecordProcessed, Announcing, At
  <2>2. NewId(w)' = NewId(w)
    BY <2>1 DEF NewId
  <2>3. work[w].id \in index'
    BY <1>8 DEF IndexMail, RecordProcessed, At, MailInv, AnswersHold, AnswerHolds
  <2>4. AnswerHolds(w)
    BY DEF MailInv, AnswersHold
  <2> QED
    BY <2>1, <2>2, <2>3, <2>4 DEF AnswerHolds, Announcing
<1> QED
  BY <1>4, <1>5, <1>6, <1>7, <1>8 DEF RequestStep, ingestInboundEmail

\* What the others were told stays so.
LEMMA OthersKeepTheTruth ==
  ASSUME QueueInv, MailInv, NEW w \in Workers, RequestStep(w), NEW v \in Workers, v # w
  PROVE  AnswerHolds(v)'
<1>1. work'[v] = work[v] /\ rows \subseteq rows' /\ parts \subseteq parts' /\ index \subseteq index'
  BY RequestAdds
<1>2. AnswerHolds(v) /\ NewId(v)' = NewId(v)
  BY <1>1 DEF MailInv, AnswersHold, NewId
<1>3. ASSUME Announcing(v), NEW d \in Deliveries, KeyOf[d] = KeyOf[work[v].of]
      PROVE  notices'[d] = 0
  <2>1. notices[d] = 0
    BY <1>2, <1>3 DEF AnswerHolds
  <2>2. CASE d = work[w].of /\ At(w, "notify")
    BY <1>3, <2>2, OneAnnounces DEF Announcing, At
  <2> QED
    BY <2>1, <2>2, RequestAdds
<1> QED
  BY <1>1, <1>2, <1>3 DEF AnswerHolds, Announcing

\* The key's row is the only one, and the index and the ingest rows follow it.
LEMMA TablesAfterRequest ==
  ASSUME QueueInv, MailInv, NEW w \in Workers, RequestStep(w)
  PROVE  OneMessagePerKey' /\ ProjectionNeverLeads'
<1> DEFINE k == KeyOf[work[w].of]
<1>1. /\ rows \subseteq rows' /\ parts \subseteq parts' /\ AnswerHolds(w)
      /\ work[w].of \in Deliveries /\ k \in Keys
  BY RequestAdds, RequestGoesOn, NewIdTyped, Basics DEF MailInv, AnswersHold
<1>2. OneMessagePerKey'
  <2>1. CASE rows' = rows
    BY <1>1, <2>1 DEF MailInv, OneMessagePerKey
  <2>2. CASE Store(w) /\ rows' # rows
    <3>1. /\ Held(k) = {}
          /\ Insert(w, IF At(w, "storing") THEN "parsed" ELSE "failed")
      BY <2>2 DEF Store, resolveConcurrentIdempotencyConflict
    <3> DEFINE r == [id |-> NewId(w), key |-> k, raw |-> RawOf[work[w].of],
                     parse |-> IF At(w, "storing") THEN "parsed" ELSE "failed"]
    <3>2. rows' = rows \cup {r}
      BY <3>1 DEF Insert
    <3>3. r.key = k /\ r.id = NewId(w) /\ (r.parse = "parsed" => At(w, "storing"))
      BY DEF At
    <3>4. \A a \in rows : a.key # k
      BY <3>1 DEF Held
    <3>5. r.parse = "parsed" => r.id \in parts'
      BY <1>1, <3>3 DEF AnswerHolds, At
    <3> HIDE DEF r
    <3> QED
      BY <1>1, <3>2, <3>3, <3>4, <3>5 DEF MailInv, OneMessagePerKey
  <2> QED
    BY <2>1, <2>2 DEF RequestStep, ingestInboundEmail, Check, ParseAndPut, RecordConflict,
                      OpsConflict, RecordDuplicate, IndexMail, RecordProcessed, Notify, mailVars
<1>3. \A id \in index' : \E r \in rows' : r.id = id
  <2>1. index' = index \/ (IndexMail(w) /\ index' = index \cup {work[w].id})
    BY DEF RequestStep, ingestInboundEmail, Check, ParseAndPut, Store, RecordConflict,
           OpsConflict, RecordDuplicate, IndexMail, RecordProcessed, Notify, mailVars
  <2>2. IndexMail(w) => \E r \in rows : r.id = work[w].id
    BY <1>1 DEF IndexMail, At, AnswerHolds, Announcing
  <2>3. \A id \in index : \E r \in rows : r.id = id
    BY DEF MailInv, ProjectionNeverLeads, Stored
  <2> QED
    BY <1>1, <2>1, <2>2, <2>3
<1>4. ASSUME NEW key \in Keys, events'[key].status = "processed",
             events'[key].id[1] \in Deliveries
      PROVE  \E r \in rows' : r.key = key /\ r.id = events'[key].id
  <2>1. CASE events'[key] = events[key]
    <3>1. \E r \in Held(key) : r.id = events[key].id
      BY <1>4, <2>1 DEF MailInv, ProjectionNeverLeads
    <3> QED
      BY <1>1, <2>1, <3>1 DEF Held
  <2>2. CASE events'[key] # events[key]
    <3>1. \/ RecordDuplicate(w) /\ EventWrite(w, "processed", work[w].id)
          \/ RecordProcessed(w) /\ EventWrite(w, "processed", work[w].id)
          \/ EventWrite(w, "failed", NoId)
      BY <2>2 DEF RequestStep, ingestInboundEmail, Check, ParseAndPut, Store, RecordConflict,
                  OpsConflict, RecordDuplicate, IndexMail, RecordProcessed, Notify, mailVars
    <3>2. ASSUME NEW status, NEW id, EventWrite(w, status, id)
          PROVE  key = k /\ events'[key].status = status /\ events'[key].id = id
      BY <1>1, <2>2, <3>2 DEF EventWrite, QueueInv, IngestTypeOK
    <3>3. key = k /\ events'[key].id = work[w].id /\ (RecordDuplicate(w) \/ RecordProcessed(w))
      BY <1>4, <3>1, <3>2
    <3> QED
      BY <1>1, <3>3 DEF RecordDuplicate, RecordProcessed, At, AnswerHolds, Announcing
  <2> QED
    BY <2>1, <2>2
<1>5. ProjectionNeverLeads'
  BY <1>3, <1>4 DEF ProjectionNeverLeads, Stored, Held
<1> QED
  BY <1>2, <1>5

LEMMA NoticesAfterRequest ==
  ASSUME QueueInv, MailInv, NEW w \in Workers, RequestStep(w)
  PROVE  NoticesHold'
<1>1. /\ rows \subseteq rows' /\ index \subseteq index' /\ AnswerHolds(w)
      /\ work[w].of \in Deliveries
  BY RequestAdds, RequestGoesOn, NewIdTyped DEF MailInv, AnswersHold
<1> SUFFICES ASSUME NEW d \in Deliveries
    PROVE /\ notices'[d] \in {0, 1}
          /\ notices'[d] = 1 => \E r \in Held(KeyOf[d])' : r.id \in index' /\ r.id[1] = d
  BY DEF NoticesHold
<1>2. CASE notices'[d] = notices[d]
  <2>1. /\ notices[d] \in {0, 1}
        /\ notices[d] = 1 => \E r \in Held(KeyOf[d]) : r.id \in index /\ r.id[1] = d
    BY DEF MailInv, NoticesHold
  <2> QED
    BY <1>1, <1>2, <2>1 DEF Held
<1>3. CASE notices'[d] # notices[d]
  <2>1. d = work[w].of /\ Notify(w)
    BY <1>3, RequestAdds
    DEF RequestStep, ingestInboundEmail, Check, ParseAndPut, Store, RecordConflict,
        OpsConflict, RecordDuplicate, IndexMail, RecordProcessed, mailVars
  <2>2. /\ notices[d] = 0 /\ work[w].id = NewId(w) /\ work[w].id \in index
        /\ \E r \in rows : r.key = KeyOf[d] /\ r.id = work[w].id
    BY <1>1, <2>1 DEF Notify, At, AnswerHolds, Announcing
  <2>3. notices'[d] = 1
    BY <1>3, <2>1, <2>2 DEF Notify, QueueInv, IngestTypeOK
  <2>4. NewId(w)[1] = d
    BY <2>1 DEF NewId
  <2> QED
    BY <1>1, <2>2, <2>3, <2>4 DEF Held
<1> QED
  BY <1>2, <1>3

--------------------------------------------------------------------------------
(* The invariant.                                                          *)

LEMMA IngestKeeps ==
  ASSUME IngestInductive, [IngestNext]_ingestVars
  PROVE  IngestInductive'
<1>1. QueueInv /\ MailInv
  BY DEF IngestInductive
<1>2. CASE UNCHANGED ingestVars
  <2>1. UNCHANGED <<smtp, raws, queue, tries, work, mailVars>>
    BY <1>2 DEF ingestVars
  <2>2. MailInv'
    BY <1>1, <2>1, MailAfterQuiet
  <2>3. QueueInv'
    BY <1>1, <2>1 DEF QueueInv, IngestTypeOK, RequestsTyped, Unsent, TriesLeft, RequestsDiffer,
                      Active, InObject, mailVars
  <2> QED
    BY <2>2, <2>3 DEF IngestInductive
<1>3. ASSUME NEW w \in Workers, RequestStep(w) PROVE IngestInductive'
  <2>1. AnswersHold'
    BY <1>1, <1>3, RequestIsToldTheTruth, OthersKeepTheTruth DEF AnswersHold
  <2> QED
    BY <1>1, <1>3, <2>1, QueueAfterRequest, TablesAfterRequest, NoticesAfterRequest
    DEF IngestInductive, MailInv
<1>4. ASSUME NEW w \in Workers, NEW d \in Deliveries, Take(w, d) PROVE IngestInductive'
  <2>1. /\ UNCHANGED mailVars
        /\ work' = [work EXCEPT ![w] = [Idle EXCEPT !.pc = "check", !.of = d, !.try = tries[d] + 1]]
    BY <1>4 DEF Take
  <2>2. \A v \in Workers : work'[v].pc = "check" \/ work'[v] = work[v]
    BY <1>1, <2>1 DEF QueueInv, IngestTypeOK, Idle
  <2>3. MailInv'
    BY <1>1, <2>1, <2>2, MailAfterQuiet DEF Quiet, Stages
  <2> QED
    BY <1>1, <1>4, <2>3, QueueAfterTake DEF IngestInductive
<1>5. ASSUME NEW w \in Workers, ConsumerFails(w) \/ CallerGone(w) \/ Ack(w) PROVE IngestInductive'
  <2>1. QueueInv' /\ UNCHANGED mailVars
    BY <1>1, <1>5, QueueAfterRelease
  <2>2. \/ work' = [work EXCEPT ![w] = Idle]
        \/ work' = [work EXCEPT ![w].heard = FALSE]
    BY <1>5 DEF ConsumerFails, CallerGone, Ack
  <2>3. \A v \in Workers : \/ work'[v].pc = "idle"
                           \/ /\ work'[v].pc = work[v].pc /\ work'[v].of = work[v].of
                              /\ work'[v].try = work[v].try /\ work'[v].id = work[v].id
    BY <1>1, <2>2 DEF QueueInv, IngestTypeOK, Idle
  <2>4. MailInv'
    BY <1>1, <2>1, <2>3, MailAfterQuiet DEF Quiet, Stages
  <2> QED
    BY <2>1, <2>4 DEF IngestInductive
<1>6. ASSUME NEW d \in Deliveries, handleEmail(d) \/ handleDeadLetterQueue(d)
      PROVE  IngestInductive'
  <2>1. QueueInv' /\ UNCHANGED <<work, mailVars>>
    BY <1>1, <1>6, QueueAfterOthers
  <2>2. MailInv'
    BY <1>1, <2>1, MailAfterQuiet
  <2> QED
    BY <2>1, <2>2 DEF IngestInductive
<1> QED
  BY <1>2, <1>3, <1>4, <1>5, <1>6 DEF IngestNext, QueueStep, handleInboundQueue, RequestStep

\* At most one message of a key was notified: all of them are the key's one row.
LEMMA InductiveIsEnough == IngestInductive => IngestInvariant
<1> SUFFICES ASSUME IngestInductive PROVE NotifiedOnceIndexed
  BY DEF IngestInductive, QueueInv, MailInv, IngestInvariant
<1> SUFFICES ASSUME NEW k \in Keys
    PROVE LET told == {d \in Deliveries : KeyOf[d] = k /\ notices[d] > 0}
          IN /\ Cardinality(told) <= 1
             /\ \A d \in told : /\ notices[d] = 1
                                /\ \E row \in Held(k) : row.id \in index /\ row.id[1] = d
  BY DEF NotifiedOnceIndexed
<1> DEFINE told == {d \in Deliveries : KeyOf[d] = k /\ notices[d] > 0}
<1>1. \A d \in told : /\ notices[d] = 1
                      /\ \E row \in Held(k) : row.id \in index /\ row.id[1] = d
  BY DEF IngestInductive, MailInv, NoticesHold
<1>2. \A c, d \in told : c = d
  BY <1>1 DEF Held, IngestInductive, MailInv, OneMessagePerKey
<1>3. Cardinality(told) <= 1
  <2> HIDE DEF told
  <2>1. CASE told = {}
    BY <2>1, FS_EmptySet
  <2>2. CASE told # {}
    <3>1. PICK d \in told : TRUE
      BY <2>2
    <3>2. told = {d}
      BY <1>2, <3>1
    <3>3. Cardinality({d}) = 1
      BY FS_Singleton
    <3> QED
      BY <3>2, <3>3
  <2> QED
    BY <2>1, <2>2
<1> QED
  BY <1>1, <1>3

\* However many mails, keys, workers and retries there are: a key names one
\* message, D1 stays behind the object, and a message is told of once and only
\* after its index row.
THEOREM OneMessageOneNotice == IngestSpec => []IngestInvariant
<1>1. IngestInductive /\ [IngestNext]_ingestVars => IngestInductive'
  BY IngestKeeps
<1> QED
  BY IngestStarts, InductiveIsEnough, <1>1, PTL DEF IngestSpec

--------------------------------------------------------------------------------
(* Mail that left the queue as done.                                       *)

\* The mailbox has these bytes under the key of d; it has the key at all.
HasBytes(d) == \E row \in Held(KeyOf[d]) : ShaOf[row.raw] = ShaOf[RawOf[d]]
HasKey(d) == Held(KeyOf[d]) # {}
Logged(d) == events[KeyOf[d]].status # "none"

\* How much of the promise each stage of the consumer has behind it.
KeptBy(w) ==
  /\ work[w].pc \notin {"idle", "check"} => RawOf[work[w].of] \in raws
  /\ work[w].pc \in {"index", "event", "notify", "duplicate"} => HasBytes(work[w].of)
  /\ work[w].pc \in {"conflict", "conflict_ops"} => HasKey(work[w].of)
  /\ work[w].pc = "conflict_ops" => Logged(work[w].of)
  /\ work[w].pc = "done" =>
       HasBytes(work[w].of) \/ (HasKey(work[w].of) /\ Logged(work[w].of))

KeepInv == AckedIsKept /\ \A w \in Workers : KeptBy(w)

LEMMA KeepStarts == IngestInit => KeepInv
  BY DEF IngestInit, KeepInv, AckedIsKept, KeptBy, Idle

\* Nothing that keeps a mail is ever taken away.
LEMMA NothingIsTakenAway ==
  ASSUME IngestInductive, [IngestNext]_ingestVars, NEW d \in Deliveries
  PROVE  /\ raws \subseteq raws' /\ rows \subseteq rows'
         /\ HasBytes(d) => HasBytes(d)'
         /\ HasKey(d) => HasKey(d)'
         /\ Logged(d) => Logged(d)'
<1>1. IngestTypeOK /\ KeyOf[d] \in Keys
  BY Basics DEF IngestInductive, QueueInv
<1>2. raws \subseteq raws'
  BY DEF IngestNext, QueueStep, handleInboundQueue, ingestInboundEmail, Take, Check, ParseAndPut,
         Store, RecordConflict, OpsConflict, RecordDuplicate, IndexMail, RecordProcessed, Notify,
         Ack, ConsumerFails, CallerGone, handleDeadLetterQueue, handleEmail, PutRaw, SendToQueue,
         HandlerFails, ingestVars, mailVars
<1>3. \/ UNCHANGED <<rows, events>>
      \/ \E w \in Workers : RequestStep(w)
  BY DEF IngestNext, QueueStep, handleInboundQueue, RequestStep, Take, Ack, ConsumerFails,
         CallerGone, handleDeadLetterQueue, handleEmail, PutRaw, SendToQueue, HandlerFails,
         ingestVars, mailVars
<1>4. rows \subseteq rows' /\ (Logged(d) => Logged(d)')
  <2>1. CASE UNCHANGED <<rows, events>>
    BY <2>1 DEF Logged
  <2>2. ASSUME NEW w \in Workers, RequestStep(w) PROVE rows \subseteq rows' /\ (Logged(d) => Logged(d)')
    <3>1. rows \subseteq rows'
      BY <2>2, RequestAdds DEF IngestInductive
    <3>2. CASE events' = events
      BY <3>1, <3>2 DEF Logged
    <3>3. ASSUME NEW status \in {"processed", "failed"}, NEW id, EventWrite(w, status, id)
          PROVE  Logged(d) => Logged(d)'
      BY <1>1, <3>3 DEF EventWrite, Logged, IngestTypeOK
    <3>4. \/ events' = events
          \/ EventWrite(w, "failed", NoId) \/ EventWrite(w, "processed", work[w].id)
      BY <2>2 DEF RequestStep, ingestInboundEmail, Check, ParseAndPut, Store, RecordConflict,
                  OpsConflict, RecordDuplicate, IndexMail, RecordProcessed, Notify, mailVars
    <3> QED
      BY <3>1, <3>2, <3>3, <3>4
  <2> QED
    BY <1>3, <2>1, <2>2
<1>5. (HasBytes(d) => HasBytes(d)') /\ (HasKey(d) => HasKey(d)')
  BY <1>4 DEF HasBytes, HasKey, Held
<1> QED
  BY <1>2, <1>4, <1>5

\* A request that stays where it was, or starts over, has nothing new to show.
LEMMA KeptAfterQuiet ==
  ASSUME IngestInductive, [IngestNext]_ingestVars, NEW w \in Workers, KeptBy(w),
         \/ work'[w].pc \in {"idle", "check"}
         \/ work'[w].pc = work[w].pc /\ work'[w].of = work[w].of
  PROVE  KeptBy(w)'
<1>1. CASE work'[w].pc \in {"idle", "check"}
  BY <1>1 DEF KeptBy
<1>2. CASE /\ work'[w].pc \notin {"idle", "check"}
           /\ work'[w].pc = work[w].pc /\ work'[w].of = work[w].of
  <2>1. PICK d \in Deliveries : d = work[w].of
    BY <1>2 DEF IngestInductive, QueueInv, RequestsTyped, Active
  <2>2. /\ raws \subseteq raws'
        /\ HasBytes(d) => HasBytes(d)'
        /\ HasKey(d) => HasKey(d)'
        /\ Logged(d) => Logged(d)'
    BY NothingIsTakenAway
  <2> QED
    BY <1>2, <2>1, <2>2 DEF KeptBy, HasBytes, HasKey, Logged, Held
<1> QED
  BY <1>1, <1>2

\* Each stage of a request has what the stages before it found or wrote.
LEMMA KeptAfterRequest ==
  ASSUME IngestInductive, NEW w \in Workers, KeptBy(w), RequestStep(w)
  PROVE  KeptBy(w)'
<1>1. QueueInv /\ Active(w) /\ UNCHANGED raws /\ [IngestNext]_ingestVars
  BY RequestGoesOn DEF IngestInductive, RequestStep, IngestNext, QueueStep, handleInboundQueue
<1>2. PICK d \in Deliveries : d = work[w].of
  BY <1>1, NewIdTyped
<1>3. /\ rows \subseteq rows'
      /\ HasBytes(d) => HasBytes(d)'
      /\ HasKey(d) => HasKey(d)'
      /\ Logged(d) => Logged(d)'
  BY <1>1, NothingIsTakenAway
<1>4. KeyOf[d] \in Keys /\ \A row \in rows : row.id \in Ids
  BY <1>1, Basics DEF QueueInv, IngestTypeOK, Row
\* An answer of the object about a row it holds.
<1>5. ASSUME NEW row \in Held(KeyOf[d]), Answer(w, Taken(d, row), row.id), RawOf[d] \in raws
      PROVE  KeptBy(w)'
  <2>1. HasKey(d) /\ (Taken(d, row) = "duplicate" => HasBytes(d))
    BY <1>5 DEF HasKey, HasBytes, Taken
  <2>2. Taken(d, row) \in {"duplicate", "conflict"}
    BY DEF Taken
  <2>3. \/ work'[w].pc = "idle"
        \/ work'[w].pc = Taken(d, row) /\ work'[w].of = d
    BY <1>1, <1>2, <1>5, Answered
  <2> QED
    BY <1>1, <1>3, <1>5, <2>1, <2>2, <2>3 DEF KeptBy, HasKey, HasBytes
<1>6. CASE Check(w)
  <2>1. RawOf[d] \in raws
    BY <1>2, <1>6 DEF Check
  <2>2. CASE GoTo(w, "parsing")
    BY <1>1, <1>2, <2>1, <2>2, WentTo DEF KeptBy
  <2>3. CASE \E row \in Held(KeyOf[d]) : Answer(w, Taken(d, row), row.id)
    BY <1>5, <2>1, <2>3
  <2> QED
    BY <1>2, <1>6, <2>2, <2>3 DEF Check
<1>7. CASE ParseAndPut(w)
  <2>1. RawOf[d] \in raws
    BY <1>2, <1>7 DEF ParseAndPut, At, KeptBy
  <2>2. /\ work'[w].pc \in {"storing", "storing_failed"} /\ work'[w].of = d
    BY <1>1, <1>2, <1>7, WentTo DEF ParseAndPut
  <2> QED
    BY <1>1, <2>1, <2>2 DEF KeptBy
<1>8. CASE Store(w)
  <2>1. RawOf[d] \in raws
    BY <1>2, <1>8 DEF Store, At, KeptBy
  <2>2. CASE resolveConcurrentIdempotencyConflict(w)
    BY <1>2, <1>5, <2>1, <2>2 DEF resolveConcurrentIdempotencyConflict
  <2>3. ASSUME NEW parse, Insert(w, parse) PROVE KeptBy(w)'
    <3>1. HasBytes(d)'
      <4>1. PICK row : row = [id |-> NewId(w), key |-> KeyOf[work[w].of],
                              raw |-> RawOf[work[w].of], parse |-> parse]
        OBVIOUS
      <4>2. row \in rows' /\ row.key = KeyOf[d] /\ row.raw = RawOf[d]
        BY <1>2, <2>3, <4>1 DEF Insert
      <4> QED
        BY <4>2 DEF HasBytes, Held
    <3>2. \/ work'[w].pc = "idle"
          \/ work'[w].pc = "index" /\ work'[w].of = d
      BY <1>1, <1>2, <2>3, Answered DEF Insert
    <3> QED
      BY <1>1, <2>1, <3>1, <3>2 DEF KeptBy, HasBytes
  <2> QED
    BY <1>8, <2>2, <2>3 DEF Store
<1>9. CASE RecordConflict(w)
  <2>1. RawOf[d] \in raws /\ HasKey(d)
    BY <1>2, <1>9 DEF RecordConflict, At, KeptBy
  <2>2. Logged(d)'
    BY <1>1, <1>2, <1>4, <1>9 DEF RecordConflict, EventWrite, Logged, QueueInv, IngestTypeOK
  <2>3. work'[w].pc = "conflict_ops" /\ work'[w].of = d
    BY <1>1, <1>2, <1>9, WentTo DEF RecordConflict
  <2> QED
    BY <1>1, <1>3, <2>1, <2>2, <2>3 DEF KeptBy, HasKey, Logged, Held
<1>10. CASE OpsConflict(w) \/ RecordDuplicate(w) \/ Notify(w)
  <2>1. RawOf[d] \in raws /\ (HasBytes(d) \/ (HasKey(d) /\ Logged(d)))
    BY <1>2, <1>10 DEF OpsConflict, RecordDuplicate, Notify, At, KeptBy
  <2>2. work'[w].pc = "done" /\ work'[w].of = d
    BY <1>1, <1>2, <1>10, WentTo DEF OpsConflict, RecordDuplicate, Notify
  <2> QED
    BY <1>1, <1>3, <2>1, <2>2 DEF KeptBy, HasBytes, HasKey, Logged
<1>11. CASE IndexMail(w) \/ RecordProcessed(w)
  <2>1. RawOf[d] \in raws /\ HasBytes(d)
    BY <1>2, <1>11 DEF IndexMail, RecordProcessed, At, KeptBy
  <2>2. work'[w].pc \in {"event", "notify"} /\ work'[w].of = d
    BY <1>1, <1>2, <1>11, WentTo DEF IndexMail, RecordProcessed
  <2> QED
    BY <1>1, <1>3, <2>1, <2>2 DEF KeptBy, HasBytes
<1> QED
  BY <1>6, <1>7, <1>8, <1>9, <1>10, <1>11 DEF RequestStep, ingestInboundEmail

\* The acknowledgement is the last step of a request that keeps its mail.
LEMMA AckedAfterStep ==
  ASSUME IngestInductive, KeepInv, [IngestNext]_ingestVars
  PROVE  AckedIsKept'
<1> SUFFICES ASSUME NEW d \in Deliveries, queue'[d] = "acked"
             PROVE  RawOf[d] \in raws' /\ (HasBytes(d)' \/ (HasKey(d)' /\ Logged(d)'))
  BY DEF AckedIsKept, HasBytes, HasKey, Logged, Held
<1>1. IngestTypeOK /\ QueueInv
  BY DEF IngestInductive, QueueInv
<1>2. CASE queue[d] = "acked"
  <2>1. RawOf[d] \in raws /\ (HasBytes(d) \/ (HasKey(d) /\ Logged(d)))
    BY <1>2 DEF KeepInv, AckedIsKept, HasBytes, HasKey, Logged, Held
  <2> QED
    BY <2>1, NothingIsTakenAway
<1>3. CASE queue[d] # "acked"
  <2>1. PICK w \in Workers : Ack(w) /\ work[w].of = d
    <3>1. \E w \in Workers : Ack(w)
      BY <1>1, <1>3, RequestGoesOn
      DEF IngestNext, QueueStep, handleInboundQueue, RequestStep, Take, ConsumerFails, CallerGone,
          Retry, handleDeadLetterQueue, handleEmail, PutRaw, SendToQueue, HandlerFails,
          ingestVars, IngestTypeOK
    <3> QED
      BY <1>1, <1>3, <3>1 DEF Ack, IngestTypeOK
  <2>2. RawOf[d] \in raws /\ (HasBytes(d) \/ (HasKey(d) /\ Logged(d)))
    BY <2>1 DEF Ack, At, KeepInv, KeptBy
  <2> QED
    BY <2>2, NothingIsTakenAway
<1> QED
  BY <1>2, <1>3

LEMMA KeepKeeps ==
  ASSUME IngestInductive, KeepInv, [IngestNext]_ingestVars
  PROVE  KeepInv'
<1>1. QueueInv /\ IngestTypeOK
  BY DEF IngestInductive, QueueInv
<1>2. ASSUME NEW v \in Workers PROVE KeptBy(v)'
  <2>1. KeptBy(v)
    BY DEF KeepInv
  <2>2. ASSUME NEW w \in Workers, RequestStep(w) PROVE KeptBy(v)'
    <3>1. CASE v = w
      BY <2>1, <2>2, <3>1, KeptAfterRequest
    <3>2. CASE v # w
      <4>1. work'[v] = work[v]
        BY <1>1, <2>2, <3>2, RequestAdds
      <4> QED
        BY <2>1, <4>1, KeptAfterQuiet
    <3> QED
      BY <3>1, <3>2
  <2>3. CASE ~\E w \in Workers : RequestStep(w)
    <3>1. \/ work' = work
          \/ \E w \in Workers, d \in Deliveries :
               work' = [work EXCEPT ![w] = [Idle EXCEPT !.pc = "check", !.of = d, !.try = tries[d] + 1]]
          \/ \E w \in Workers : \/ work' = [work EXCEPT ![w] = Idle]
                                \/ work' = [work EXCEPT ![w].heard = FALSE]
      BY <2>3 DEF IngestNext, QueueStep, handleInboundQueue, RequestStep, Take, Ack, ConsumerFails,
                  CallerGone, handleDeadLetterQueue, handleEmail, PutRaw, SendToQueue,
                  HandlerFails, ingestVars
    <3>2. \/ work'[v].pc \in {"idle", "check"}
          \/ work'[v].pc = work[v].pc /\ work'[v].of = work[v].of
      <4>1. ASSUME NEW w \in Workers, NEW d \in Deliveries,
                   work' = [work EXCEPT ![w] = [Idle EXCEPT !.pc = "check", !.of = d, !.try = tries[d] + 1]]
            PROVE  work'[v].pc = "check" \/ work'[v] = work[v]
        BY <1>1, <4>1 DEF IngestTypeOK, Idle
      <4>2. ASSUME NEW w \in Workers,
                   work' = [work EXCEPT ![w] = Idle] \/ work' = [work EXCEPT ![w].heard = FALSE]
            PROVE  \/ work'[v].pc = "idle"
                   \/ work'[v].pc = work[v].pc /\ work'[v].of = work[v].of
        BY <1>1, <4>2 DEF IngestTypeOK, Idle
      <4> QED
        BY <3>1, <4>1, <4>2
    <3> QED
      BY <2>1, <3>2, KeptAfterQuiet
  <2> QED
    BY <2>2, <2>3
<1> QED
  BY <1>2, AckedAfterStep DEF KeepInv

\* Whatever is retried, redelivered or given up: mail that left the queue as
\* done is in R2, and the mailbox has its bytes, or its key with an ingest row.
THEOREM AcknowledgedIsKept == IngestSpec => []AckedIsKept
<1>1. /\ IngestInductive /\ [IngestNext]_ingestVars => IngestInductive'
      /\ IngestInductive /\ KeepInv /\ [IngestNext]_ingestVars => KeepInv'
  BY IngestKeeps, KeepKeeps
<1>2. KeepInv => AckedIsKept
  BY DEF KeepInv
<1> QED
  BY IngestStarts, KeepStarts, <1>1, <1>2, PTL DEF IngestSpec

--------------------------------------------------------------------------------
(* Rebuilding a mailbox.                                                   *)

Replayed(d) == RawOf[d] \in raws /\ KeyOf[d] = RowKey[RawOf[d]]

\* A row whose push is still to come.
Ahead(q, i) == q > run \/ (q = run /\ (i > at \/ (i = at /\ script = "push")))

\* What is on the queue and in the object comes from pushes of rows that R2 has.
QueueIsReplay ==
  /\ script # "off" => run \in Runs
  /\ raws \subseteq RowsOf \ Sent
  /\ \A d \in Deliveries : smtp[d] = "failed" /\ (queue[d] # "none" => Replayed(d))
  /\ \A w \in Workers : Active(w) => queue[work[w].of] # "none"
  /\ \A q \in Runs, i \in 1 .. Len(Source) :
       Source[i] \in raws /\ Ahead(q, i) => queue[PushOf[q, Source[i]]] = "none"

RowsAreReplayed ==
  /\ IsFiniteSet(rows)
  /\ \A row \in rows : row.raw \in raws /\ row.key = RowKey[row.raw] /\ row.id[1] \in Deliveries

\* An ingest row of the backup is the one the run saw when it planned.
BackupIsKnown ==
  /\ \A k \in Keys : events[k].status = "processed" => events[k].id # NoId
  /\ script # "off" =>
       \A k \in Keys : events[k].status = "processed" /\ events[k].id[1] \notin Deliveries =>
         known[k].id = events[k].id

\* An outcome says what was so, and every row behind the one in hand has one.
OutcomesHold ==
  /\ \A r \in RowsOf :
       /\ outcome[r] \in {"inserted", "duplicate"} =>
            \E row \in rows : row.key = RowKey[r] /\ row.id = newId[r]
       /\ outcome[r] = "skipped" => ~force /\ known[RowKey[r]].status # "none"
  /\ \A i \in 1 .. Len(Source) : i < at /\ Source[i] \in raws => outcome[Source[i]] # "none"
  /\ script = "poll" => at <= Len(Source)
  /\ script = "pass" => /\ at = Len(Source) + 1
                        /\ \A r \in RowsOf : outcome[r] \notin {"conflict", "timeout", "push_failed"}

\* What the verifier read is still there, and its verdict still right.
VerdictHolds ==
  /\ report # "off" => seen \subseteq rows
  /\ report = "pass" => Missing \cup Damaged \cup Unindexed \cup Unexplained = {} /\ Unaccounted = {}

ReplayInv == QueueIsReplay /\ RowsAreReplayed /\ BackupIsKnown
ScriptsInv == RebuildTypeOK /\ OutcomesHold /\ VerdictHolds
RebuildInductive == IngestInductive /\ ReplayInv /\ ScriptsInv

--------------------------------------------------------------------------------
(* The queue during a rebuild.                                             *)

\* Steps of the queue by what they touch.
LEMMA QueueStepKinds ==
  ASSUME QueueStep
  PROVE  \/ \E w \in Workers : RequestStep(w)
         \/ \E w \in Workers, d \in Deliveries : Take(w, d)
         \/ \E w \in Workers : ConsumerFails(w) \/ CallerGone(w) \/ Ack(w)
         \/ \E d \in Deliveries : handleDeadLetterQueue(d)
BY DEF QueueStep, handleInboundQueue, RequestStep

\* Nothing is handed in or taken back, and nobody works for a message that is
\* not on the queue.
LEMMA QueueStaysReplay ==
  ASSUME IngestInductive, QueueIsReplay, QueueStep
  PROVE  /\ UNCHANGED <<smtp, raws>>
         /\ \A d \in Deliveries : queue'[d] = "none" <=> queue[d] = "none"
         /\ \A w \in Workers : Active(w)' => queue'[work'[w].of] # "none"
<1>1. /\ IngestTypeOK /\ QueueInv
      /\ \A w \in Workers : Active(w) => work[w].of \in Deliveries /\ queue[work[w].of] # "none"
  BY DEF IngestInductive, QueueInv, RequestsTyped, QueueIsReplay
<1>2. ASSUME NEW w \in Workers, RequestStep(w)
      PROVE  /\ UNCHANGED <<smtp, raws, queue>>
             /\ \A v \in Workers : Active(v)' => Active(v) /\ work'[v].of = work[v].of
  BY <1>1, <1>2, RequestGoesOn DEF Onward, Active, Idle, IngestTypeOK
<1>3. ASSUME NEW w \in Workers, NEW d \in Deliveries, Take(w, d)
      PROVE  /\ UNCHANGED <<smtp, raws>> /\ queue[d] = "waiting" /\ queue' = [queue EXCEPT ![d] = "busy"]
             /\ \A v \in Workers : Active(v)' => \/ Active(v) /\ work'[v].of = work[v].of
                                                 \/ work'[v].of = d
  BY <1>1, <1>3 DEF Take, Active, Idle, IngestTypeOK
<1>4. ASSUME NEW w \in Workers, ConsumerFails(w) \/ CallerGone(w) \/ Ack(w)
      PROVE  /\ UNCHANGED <<smtp, raws>> /\ Active(w)
             /\ \E q \in {"dead", "waiting", "acked"} : queue' = [queue EXCEPT ![work[w].of] = q]
             /\ \A v \in Workers : Active(v)' => Active(v) /\ work'[v].of = work[v].of
  BY <1>1, <1>4 DEF ConsumerFails, CallerGone, Ack, Retry, Consuming, InObject, At, Active, Idle,
                    IngestTypeOK
<1>5. ASSUME NEW d \in Deliveries, handleDeadLetterQueue(d)
      PROVE  /\ UNCHANGED <<smtp, raws, work>> /\ queue[d] = "dead"
             /\ \E q \in {"dead", "buried", "lost"} : queue' = [queue EXCEPT ![d] = q]
  <2>1. /\ UNCHANGED <<smtp, raws, work>> /\ queue[d] = "dead"
    BY <1>5 DEF handleDeadLetterQueue
  <2>2. PICK q : q = IF tries[d] = MaxTries - 1 THEN "lost" ELSE "dead"
    OBVIOUS
  <2>3. queue' = [queue EXCEPT ![d] = "buried"] \/ queue' = [queue EXCEPT ![d] = q]
    BY <1>5, <2>2 DEF handleDeadLetterQueue
  <2>4. q \in {"dead", "lost"}
    BY <2>2
  <2> QED
    BY <2>1, <2>3, <2>4
<1>6. ASSUME NEW w \in Workers, RequestStep(w)
      PROVE  /\ UNCHANGED <<smtp, raws>>
             /\ \A d \in Deliveries : queue'[d] = "none" <=> queue[d] = "none"
             /\ \A v \in Workers : Active(v)' => queue'[work'[v].of] # "none"
  BY <1>1, <1>2, <1>6
<1>7. ASSUME NEW w \in Workers, NEW d \in Deliveries, Take(w, d)
      PROVE  /\ UNCHANGED <<smtp, raws>>
             /\ \A e \in Deliveries : queue'[e] = "none" <=> queue[e] = "none"
             /\ \A v \in Workers : Active(v)' => queue'[work'[v].of] # "none"
  BY <1>1, <1>3, <1>7 DEF IngestTypeOK
<1>8. ASSUME NEW w \in Workers, ConsumerFails(w) \/ CallerGone(w) \/ Ack(w)
      PROVE  /\ UNCHANGED <<smtp, raws>>
             /\ \A e \in Deliveries : queue'[e] = "none" <=> queue[e] = "none"
             /\ \A v \in Workers : Active(v)' => queue'[work'[v].of] # "none"
  <2>1. PICK q \in {"dead", "waiting", "acked"} : queue' = [queue EXCEPT ![work[w].of] = q]
    BY <1>4, <1>8
  <2>2. \A e \in Deliveries : queue'[e] = "none" <=> queue[e] = "none"
    BY <1>1, <1>4, <1>8, <2>1 DEF IngestTypeOK
  <2> QED
    BY <1>1, <1>4, <1>8, <2>2
<1>9. ASSUME NEW d \in Deliveries, handleDeadLetterQueue(d)
      PROVE  /\ UNCHANGED <<smtp, raws>>
             /\ \A e \in Deliveries : queue'[e] = "none" <=> queue[e] = "none"
             /\ \A v \in Workers : Active(v)' => queue'[work'[v].of] # "none"
  <2>1. PICK q \in {"dead", "buried", "lost"} : queue' = [queue EXCEPT ![d] = q]
    BY <1>5, <1>9
  <2>2. \A e \in Deliveries : queue'[e] = "none" <=> queue[e] = "none"
    BY <1>1, <1>5, <1>9, <2>1 DEF IngestTypeOK
  <2> QED
    BY <1>1, <1>5, <1>9, <2>2 DEF Active
<1> QED
  BY <1>6, <1>7, <1>8, <1>9, QueueStepKinds

\* A row that is new is of a request in progress.
LEMMA RowsComeFromRequests ==
  ASSUME IngestInductive, QueueStep, IsFiniteSet(rows)
  PROVE  /\ rows \subseteq rows' /\ index \subseteq index' /\ IsFiniteSet(rows')
         /\ \A row \in rows' \ rows : \E w \in Workers :
              /\ Active(w) /\ row.key = KeyOf[work[w].of] /\ row.raw = RawOf[work[w].of]
              /\ row.id[1] = work[w].of
<1>1. QueueInv
  BY DEF IngestInductive
<1>2. CASE UNCHANGED mailVars
  BY <1>2 DEF mailVars
<1>3. ASSUME NEW w \in Workers, RequestStep(w)
      PROVE  /\ rows \subseteq rows' /\ index \subseteq index' /\ IsFiniteSet(rows')
             /\ \A row \in rows' \ rows :
                  /\ Active(w) /\ row.key = KeyOf[work[w].of] /\ row.raw = RawOf[work[w].of]
                  /\ row.id[1] = work[w].of
  <2>1. rows \subseteq rows' /\ index \subseteq index' /\ Active(w)
    BY <1>1, <1>3, RequestAdds, RequestGoesOn
  <2>2. \/ rows' = rows
        \/ \E parse : rows' = rows \cup {[id |-> NewId(w), key |-> KeyOf[work[w].of],
                                          raw |-> RawOf[work[w].of], parse |-> parse]}
    BY <1>3 DEF RequestStep, ingestInboundEmail, Check, ParseAndPut, Store, Insert,
                resolveConcurrentIdempotencyConflict, RecordConflict, OpsConflict,
                RecordDuplicate, IndexMail, RecordProcessed, Notify, mailVars
  <2>3. ASSUME NEW parse, rows' = rows \cup {[id |-> NewId(w), key |-> KeyOf[work[w].of],
                                              raw |-> RawOf[work[w].of], parse |-> parse]}
        PROVE  /\ IsFiniteSet(rows')
               /\ \A row \in rows' \ rows :
                    /\ row.key = KeyOf[work[w].of] /\ row.raw = RawOf[work[w].of]
                    /\ row.id[1] = work[w].of
    <3>1. PICK x : x = [id |-> NewId(w), key |-> KeyOf[work[w].of],
                        raw |-> RawOf[work[w].of], parse |-> parse]
      OBVIOUS
    <3>2. rows' = rows \cup {x} /\ x.key = KeyOf[work[w].of] /\ x.raw = RawOf[work[w].of]
          /\ x.id[1] = work[w].of
      BY <2>3, <3>1 DEF NewId
    <3>3. IsFiniteSet(rows \cup {x})
      BY FS_AddElement
    <3> QED
      BY <3>2, <3>3
  <2> QED
    BY <2>1, <2>2, <2>3
<1>4. ASSUME NEW w \in Workers, NEW d \in Deliveries, Take(w, d) PROVE UNCHANGED mailVars
  BY <1>4 DEF Take
<1>5. ASSUME NEW w \in Workers, ConsumerFails(w) \/ CallerGone(w) \/ Ack(w) PROVE UNCHANGED mailVars
  BY <1>5 DEF ConsumerFails, CallerGone, Ack
<1>6. ASSUME NEW d \in Deliveries, handleDeadLetterQueue(d) PROVE UNCHANGED mailVars
  BY <1>6 DEF handleDeadLetterQueue
<1> QED
  BY <1>2, <1>3, <1>4, <1>5, <1>6, QueueStepKinds

\* An ingest row that changes names a row of the object, or a failure.
LEMMA EventsComeFromRows ==
  ASSUME IngestInductive, RowsAreReplayed, QueueStep, NEW k \in Keys
  PROVE  \/ events'[k] = events[k] \/ events'[k].status = "failed"
         \/ events'[k].status = "processed" /\ events'[k].id[1] \in Deliveries
<1>1. QueueInv /\ MailInv /\ IngestTypeOK
  BY DEF IngestInductive, QueueInv
<1>2. ASSUME NEW w \in Workers, RequestStep(w)
      PROVE  \/ events'[k] = events[k] \/ events'[k].status = "failed"
             \/ events'[k].status = "processed" /\ events'[k].id[1] \in Deliveries
  <2>1. \/ events' = events
        \/ EventWrite(w, "failed", NoId)
        \/ EventWrite(w, "processed", work[w].id) /\ (At(w, "duplicate") \/ At(w, "event"))
    BY <1>2 DEF RequestStep, ingestInboundEmail, Check, ParseAndPut, Store, RecordConflict,
                OpsConflict, RecordDuplicate, IndexMail, RecordProcessed, Notify, mailVars
  <2>2. ASSUME NEW status, NEW id, EventWrite(w, status, id)
        PROVE  events'[k] = events[k] \/ (events'[k].status = status /\ events'[k].id = id)
    BY <1>1, <2>2 DEF EventWrite, IngestTypeOK
  <2>3. At(w, "duplicate") \/ At(w, "event") => work[w].id[1] \in Deliveries
    BY <1>1 DEF At, MailInv, AnswersHold, AnswerHolds, Announcing, RowsAreReplayed
  <2> QED
    BY <2>1, <2>2, <2>3
<1>3. ASSUME NEW w \in Workers, NEW d \in Deliveries, Take(w, d) PROVE UNCHANGED mailVars
  BY <1>3 DEF Take
<1>4. ASSUME NEW w \in Workers, ConsumerFails(w) \/ CallerGone(w) \/ Ack(w) PROVE UNCHANGED mailVars
  BY <1>4 DEF ConsumerFails, CallerGone, Ack
<1>5. ASSUME NEW d \in Deliveries, handleDeadLetterQueue(d) PROVE UNCHANGED mailVars
  BY <1>5 DEF handleDeadLetterQueue
<1> QED
  BY <1>2, <1>3, <1>4, <1>5, QueueStepKinds DEF mailVars

LEMMA ReplayAfterQueueStep ==
  ASSUME IngestInductive, ReplayInv, QueueStep, UNCHANGED rebuildVars
  PROVE  IngestInductive' /\ ReplayInv'
<1>1. QueueIsReplay /\ RowsAreReplayed /\ BackupIsKnown
      /\ UNCHANGED <<run, script, known, at>>
  BY DEF ReplayInv, rebuildVars, scriptVars
<1>2. IngestInductive'
  BY IngestKeeps DEF IngestNext
<1>3. /\ UNCHANGED <<smtp, raws>>
      /\ \A d \in Deliveries : queue'[d] = "none" <=> queue[d] = "none"
      /\ \A w \in Workers : Active(w)' => queue'[work'[w].of] # "none"
  BY <1>1, QueueStaysReplay
<1>4. QueueIsReplay'
  <2>1. \A q \in Runs, i \in 1 .. Len(Source) : Source[i] \in raws => PushOf[q, Source[i]] \in Deliveries
    <3>1. \A r \in raws : r \in Raws
      BY DEF IngestInductive, QueueInv, IngestTypeOK
    <3> QED
      BY <3>1, RebuildAssumption
  <2> QED
    BY <1>1, <1>3, <2>1 DEF QueueIsReplay, Replayed, Ahead
<1>5. RowsAreReplayed'
  <2>1. \A row \in rows' \ rows : row.raw \in raws /\ row.key = RowKey[row.raw] /\ row.id[1] \in Deliveries
    <3> SUFFICES ASSUME NEW row \in rows' \ rows
                 PROVE  row.raw \in raws /\ row.key = RowKey[row.raw] /\ row.id[1] \in Deliveries
      OBVIOUS
    <3>1. PICK w \in Workers : /\ Active(w) /\ row.key = KeyOf[work[w].of]
                               /\ row.raw = RawOf[work[w].of] /\ row.id[1] = work[w].of
      BY <1>1, RowsComeFromRequests DEF RowsAreReplayed
    <3>2. work[w].of \in Deliveries /\ Replayed(work[w].of)
      BY <1>1, <3>1 DEF QueueIsReplay, IngestInductive, QueueInv, RequestsTyped
    <3> QED
      BY <3>1, <3>2 DEF Replayed
  <2>2. IsFiniteSet(rows')
    BY <1>1, RowsComeFromRequests DEF RowsAreReplayed
  <2> QED
    BY <1>1, <1>3, <2>1, <2>2 DEF RowsAreReplayed
<1>6. BackupIsKnown'
  <2>1. ASSUME NEW k \in Keys
        PROVE  \/ events'[k] = events[k] \/ events'[k].status = "failed"
               \/ events'[k].status = "processed" /\ events'[k].id[1] \in Deliveries
    BY <1>1, EventsComeFromRows
  <2>2. \A id : id[1] \in Deliveries => id # NoId
    BY IngestAssumption DEF NoId
  <2> QED
    BY <1>1, <2>1, <2>2 DEF BackupIsKnown
<1> QED
  BY <1>2, <1>4, <1>5, <1>6 DEF ReplayInv

\* What of the script the queue's part of the invariant looks at.
LEMMA ReplayAfterScript ==
  ASSUME IngestInductive, ReplayInv, UNCHANGED ingestVars,
         \A q \in Runs, i \in 1 .. Len(Source) : Ahead(q, i)' => Ahead(q, i),
         script' # "off" => run' \in Runs,
         known' = events \/ (known' = known /\ (script' # "off" => script # "off"))
  PROVE  IngestInductive' /\ ReplayInv'
<1>1. UNCHANGED <<smtp, raws, queue, tries, work, rows, index, events>>
  BY DEF ingestVars, mailVars
<1>2. IngestInductive'
  BY IngestKeeps
<1>3. QueueIsReplay'
  BY <1>1 DEF ReplayInv, QueueIsReplay, Replayed, Active
<1>4. RowsAreReplayed'
  BY <1>1 DEF ReplayInv, RowsAreReplayed
<1>5. BackupIsKnown'
  BY <1>1 DEF ReplayInv, BackupIsKnown
<1> QED
  BY <1>2, <1>3, <1>4, <1>5 DEF ReplayInv

LEMMA PushesDiffer ==
  ASSUME NEW p \in Runs, NEW q \in Runs, NEW i \in 1 .. Len(Source), NEW j \in 1 .. Len(Source),
         Source[i] \in Raws \ Sent, Source[j] \in Raws \ Sent,
         PushOf[p, Source[i]] = PushOf[q, Source[j]]
  PROVE  p = q /\ i = j
<1>1. /\ <<p, Source[i]>> \in Runs \X (Raws \ Sent) /\ <<q, Source[j]>> \in Runs \X (Raws \ Sent)
      /\ PushOf[<<p, Source[i]>>] = PushOf[<<q, Source[j]>>]
  OBVIOUS
<1>2. p = q /\ Source[i] = Source[j]
  <2>1. <<p, Source[i]>> = <<q, Source[j]>>
    BY <1>1, RebuildAssumption, Zenon
  <2> QED
    BY <2>1
<1> QED
  BY <1>2, RebuildAssumption

\* A push that goes through hands in a message that was not on the queue, of a
\* row whose bytes R2 has; no later push is the same message.
LEMMA ReplayAfterPush ==
  ASSUME IngestInductive, ReplayInv, RebuildTypeOK, Publish,
         queue' = [queue EXCEPT ![Push] = "waiting"]
  PROVE  IngestInductive' /\ ReplayInv'
<1>1. /\ script = "push" /\ at \in 1 .. Len(Source) /\ Here \in raws /\ Here \in RowsOf
      /\ queue' = [queue EXCEPT ![Push] = "waiting"]
      /\ UNCHANGED <<run, known, smtp, raws, tries, work, mailVars>>
  <2>1. /\ script = "push" /\ at \in 1 .. Len(Source) /\ Here \in Rebuildable
        /\ UNCHANGED <<smtp, raws, tries, work, mailVars>>
    BY DEF Publish, RebuildTypeOK
  <2>2. UNCHANGED <<run, known>>
    BY DEF Publish, Done
  <2> QED
    BY <2>1, <2>2 DEF Rebuildable
<1>2. UNCHANGED <<rows, index, events>>
  BY <1>1 DEF mailVars
<1>3. QueueInv /\ MailInv /\ IngestTypeOK /\ QueueIsReplay
  BY DEF IngestInductive, QueueInv, ReplayInv
<1>4. /\ run \in Nat /\ Runs \subseteq Nat /\ at \in Nat /\ Len(Source) \in Nat
      /\ raws \subseteq Raws \ Sent /\ Here = Source[at]
  <2>1. Runs \subseteq Nat /\ run \in Nat
    <3>1. Runs \subseteq Nat
      BY RebuildAssumption, Zenon
    <3>2. run \in {0} \cup Runs
      BY DEF RebuildTypeOK
    <3> QED
      BY <3>1, <3>2
  <2>2. Source \in Seq(Raws)
    BY RebuildAssumption
  <2>3. Len(Source) \in Nat
    BY <2>2, LenProperties
  <2>4. raws \subseteq Raws \ Sent
    BY <1>3 DEF QueueIsReplay, IngestTypeOK
  <2> QED
    BY <1>1, <2>1, <2>3, <2>4 DEF Here
<1>5. run \in Runs
  BY <1>1, <1>3 DEF QueueIsReplay
<1>6. PICK push : push = Push
  OBVIOUS
<1>7. /\ push = PushOf[run, Source[at]] /\ push \in Deliveries /\ queue[push] = "none"
      /\ RawOf[push] = Here /\ KeyOf[push] = RowKey[Here]
  <2>1. push = PushOf[run, Here]
    BY <1>6 DEF Push
  <2>2. push \in Deliveries /\ RawOf[push] = Here /\ KeyOf[push] = RowKey[Here]
    <3>1. Here \in Raws \ Sent /\ run \in Runs
      BY <1>1, <1>4, <1>5
    <3>2. push \in Deliveries
      BY <2>1, <3>1, RebuildAssumption
    <3>3. RawOf[PushOf[run, Here]] = Here /\ KeyOf[PushOf[run, Here]] = RowKey[Here]
      BY <3>1, RebuildAssumption
    <3> QED
      BY <2>1, <3>2, <3>3
  <2> QED
    BY <1>1, <1>3, <1>4, <1>5, <2>1, <2>2 DEF QueueIsReplay, Ahead
<1>8. queue'[push] = "waiting" /\ \A d \in Deliveries : d # push => queue'[d] = queue[d]
  BY <1>1, <1>3, <1>6, <1>7 DEF IngestTypeOK
<1>9. QueueInv'
  <2>1. IngestTypeOK'
    BY <1>1, <1>3, <1>6, <1>7 DEF IngestTypeOK, mailVars
  <2>2. RequestsTyped'
    <3>1. RequestsTyped /\ UNCHANGED <<work, tries>>
      BY <1>1, <1>3 DEF QueueInv
    <3>2. \A d \in Deliveries : queue[d] = "busy" => queue'[d] = "busy"
      BY <1>7, <1>8
    <3> QED
      BY <3>1, <3>2 DEF RequestsTyped, Active, InObject
  <2>3. Unsent'
    BY <1>1, <1>3 DEF QueueIsReplay, Unsent
  <2>4. TriesLeft'
    <3>1. TriesLeft /\ tries' = tries
      BY <1>1, <1>3 DEF QueueInv
    <3>2. tries[push] <= MaxRetries
      BY <1>7, <3>1 DEF TriesLeft
    <3> QED
      BY <1>8, <3>1, <3>2 DEF TriesLeft
  <2>5. RequestsDiffer'
    BY <1>1, <1>3 DEF QueueInv, RequestsDiffer, Active
  <2> QED
    BY <2>1, <2>2, <2>3, <2>4, <2>5 DEF QueueInv
<1>10. MailInv'
  BY <1>1, <1>3, MailAfterQuiet
<1>11. QueueIsReplay'
  <2>1. Replayed(push)'
    BY <1>1, <1>7 DEF Replayed
  <2>2. \A d \in Deliveries : queue'[d] # "none" => Replayed(d)'
    BY <1>1, <1>3, <1>8, <2>1 DEF QueueIsReplay, Replayed
  <2>3. \A w \in Workers : Active(w)' => queue'[work'[w].of] # "none"
    <3>1. \A d \in Deliveries : queue[d] # "none" => queue'[d] # "none"
      BY <1>8
    <3> QED
      BY <1>1, <1>3, <3>1 DEF QueueIsReplay, Active, QueueInv, RequestsTyped
  <2>4. ASSUME NEW q \in Runs, NEW i \in 1 .. Len(Source), Source[i] \in raws, Ahead(q, i)'
        PROVE  queue'[PushOf[q, Source[i]]] = "none"
    <3>1. Ahead(q, i) /\ (q = run => i # at)
      <4>1. (script' = "poll" /\ at' = at) \/ (script' = "push" /\ at' = at + 1)
        BY DEF Publish, Done
      <4> QED
        BY <1>1, <1>4, <2>4, <4>1 DEF Ahead
    <3>2. PushOf[q, Source[i]] \in Deliveries /\ PushOf[q, Source[i]] # push
      <4>1. Source[i] \in Raws \ Sent /\ Source[at] \in Raws \ Sent
        BY <1>1, <1>4, <2>4
      <4>2. PushOf[q, Source[i]] # push
        <5>1. at \in 1 .. Len(Source) /\ push = PushOf[run, Source[at]]
          BY <1>1, <1>7
        <5> QED
          BY <1>5, <3>1, <4>1, <5>1, PushesDiffer, Zenon
      <4>3. PushOf[q, Source[i]] \in Deliveries
        BY <4>1, RebuildAssumption
      <4> QED
        BY <4>2, <4>3
    <3> QED
      BY <1>3, <1>8, <2>4, <3>1, <3>2 DEF QueueIsReplay
  <2>5. \A d \in Deliveries : smtp'[d] = "failed"
    BY <1>1, <1>3 DEF QueueIsReplay
  <2> QED
    BY <1>1, <1>3, <1>5, <2>2, <2>3, <2>4, <2>5 DEF QueueIsReplay
<1>12. RowsAreReplayed' /\ BackupIsKnown'
  BY <1>1, <1>2 DEF ReplayInv, RowsAreReplayed, BackupIsKnown
<1> QED
  BY <1>9, <1>10, <1>11, <1>12 DEF IngestInductive, ReplayInv

--------------------------------------------------------------------------------
(* The two scripts.                                                        *)

\* What the verifier's verdict rests on only grows.
LEMMA VerdictStays ==
  ASSUME VerdictHolds, UNCHANGED <<raws, seen, report>>, rows \subseteq rows', index \subseteq index',
         filed \subseteq filed'
  PROVE  VerdictHolds'
<1>1. /\ Missing' = Missing /\ Damaged' = Damaged /\ Unindexed' \subseteq Unindexed
      /\ Unexplained' = Unexplained /\ Unaccounted' = Unaccounted
  BY DEF Missing, Damaged, Unindexed, Unexplained, Unaccounted, Rebuildable, Matches
<1> QED
  BY <1>1 DEF VerdictHolds

LEMMA ScriptsAfterQueueStep ==
  ASSUME RebuildInductive, QueueStep, UNCHANGED rebuildVars
  PROVE  ScriptsInv'
<1>1. UNCHANGED raws /\ rows \subseteq rows' /\ index \subseteq index'
  BY QueueStaysReplay, RowsComeFromRequests DEF RebuildInductive, ReplayInv, RowsAreReplayed
<1>2. UNCHANGED <<run, force, script, known, at, outcome, newId, filed, report, seen>>
  BY DEF rebuildVars, scriptVars, verifyVars
<1>3. RebuildTypeOK'
  BY <1>2 DEF RebuildTypeOK, RebuildInductive, ScriptsInv
<1>4. OutcomesHold'
  <2>1. ASSUME NEW r \in RowsOf, outcome[r] \in {"inserted", "duplicate"}
        PROVE  \E row \in rows' : row.key = RowKey[r] /\ row.id = newId[r]
    BY <1>1, <2>1 DEF OutcomesHold, RebuildInductive, ScriptsInv
  <2> QED
    BY <1>1, <1>2, <2>1 DEF OutcomesHold, RebuildInductive, ScriptsInv
<1>5. VerdictHolds'
  BY <1>1, <1>2, VerdictStays DEF RebuildInductive, ScriptsInv
<1> QED
  BY <1>3, <1>4, <1>5 DEF ScriptsInv

\* A row gets its outcome, and the next one is in hand.
LEMMA ScriptsAfterDone ==
  ASSUME RebuildInductive, UNCHANGED <<smtp, raws, rows, index, verifyVars>>,
         script \in {"push", "poll"}, at \in 1 .. Len(Source), Here \in RowsOf,
         NEW result \in Outcomes \ {"none"}, NEW id \in Ids, Done(result, id),
         result \in {"inserted", "duplicate"} => \E row \in rows : row.key = RowKey[Here] /\ row.id = id,
         result = "skipped" => ToSkip
  PROVE  ScriptsInv'
<1>1. /\ outcome' = [outcome EXCEPT ![Here] = result] /\ newId' = [newId EXCEPT ![Here] = id]
      /\ at' = at + 1 /\ script' = "push"
      /\ UNCHANGED <<run, force, known, filed, report, seen, raws, rows, index>>
  BY DEF Done, verifyVars
<1>2. PICK here : here = Here
  OBVIOUS
<1>3. RebuildTypeOK /\ OutcomesHold /\ VerdictHolds
  BY DEF RebuildInductive, ScriptsInv
<1>4. /\ outcome \in [RowsOf -> Outcomes] /\ newId \in [RowsOf -> Ids] /\ at \in Nat
      /\ Len(Source) \in Nat
  <2>1. Source \in Seq(Raws)
    BY RebuildAssumption
  <2> QED
    BY <1>3, <2>1, LenProperties DEF RebuildTypeOK
<1>5. /\ outcome' \in [RowsOf -> Outcomes] /\ newId' \in [RowsOf -> Ids]
      /\ at' \in 1 .. Len(Source) + 1
  BY <1>1, <1>4
<1>6. RebuildTypeOK'
  BY <1>1, <1>3, <1>5 DEF RebuildTypeOK
<1>7. /\ outcome'[here] = result /\ newId'[here] = id
      /\ \A r \in RowsOf : r # here => outcome'[r] = outcome[r] /\ newId'[r] = newId[r]
  BY <1>1, <1>2, <1>4
<1>8. OutcomesHold'
  <2>1. ASSUME NEW r \in RowsOf
        PROVE  /\ outcome'[r] \in {"inserted", "duplicate"} =>
                    \E row \in rows' : row.key = RowKey[r] /\ row.id = newId'[r]
               /\ outcome'[r] = "skipped" => ~force' /\ known'[RowKey[r]].status # "none"
    <3>1. CASE r = here
      BY <1>1, <1>2, <1>7, <3>1 DEF ToSkip
    <3>2. CASE r # here
      BY <1>1, <1>3, <1>7, <3>2 DEF OutcomesHold
    <3> QED
      BY <3>1, <3>2
  <2>2. ASSUME NEW i \in 1 .. Len(Source), i < at', Source[i] \in raws'
        PROVE  outcome'[Source[i]] # "none"
    <3>1. CASE Source[i] = here
      BY <1>7, <3>1
    <3>2. CASE Source[i] # here
      <4>1. i < at /\ Source[i] \in RowsOf
        BY <1>1, <1>2, <1>4, <2>2, <3>2 DEF Here, RowsOf
      <4> QED
        BY <1>1, <1>3, <1>7, <2>2, <3>2, <4>1 DEF OutcomesHold
    <3> QED
      BY <3>1, <3>2
  <2> QED
    BY <1>1, <2>1, <2>2 DEF OutcomesHold
<1>9. VerdictHolds'
  BY <1>1, <1>3, VerdictStays
<1> QED
  BY <1>6, <1>8, <1>9 DEF ScriptsInv

\* Steps of the script that touch no outcome.
LEMMA ScriptsAfterMove ==
  ASSUME RebuildInductive, UNCHANGED <<raws, rows, index, verifyVars, run, force, known, outcome, newId>>,
         filed \subseteq filed', filed' \subseteq Ids,
         at' \in 1 .. Len(Source) + 1,
         \A i \in 1 .. Len(Source) : i < at' /\ Source[i] \in raws => i < at,
         script' \in {"push", "poll", "restore", "pass", "fail", "died"},
         script' = "poll" => at' <= Len(Source),
         script' = "pass" => /\ at' = Len(Source) + 1
                             /\ \A r \in RowsOf : outcome[r] \notin {"conflict", "timeout", "push_failed"}
  PROVE  ScriptsInv'
<1>1. RebuildTypeOK /\ OutcomesHold /\ VerdictHolds
  BY DEF RebuildInductive, ScriptsInv
<1>2. RebuildTypeOK'
  BY <1>1 DEF RebuildTypeOK, verifyVars
<1>3. OutcomesHold'
  BY <1>1 DEF OutcomesHold
<1>4. VerdictHolds'
  BY <1>1, VerdictStays DEF verifyVars
<1> QED
  BY <1>2, <1>3, <1>4 DEF ScriptsInv

\* A new plan forgets the outcomes of the run before.
LEMMA ScriptsAfterPlan ==
  ASSUME RebuildInductive, NEW forced \in BOOLEAN, Plan(forced), UNCHANGED verifyVars
  PROVE  ScriptsInv'
<1>1. /\ run' = run + 1 /\ run' \in Runs /\ force' = forced /\ known' = events /\ at' = 1
      /\ outcome' = [r \in RowsOf |-> "none"] /\ newId' = [r \in RowsOf |-> NoId]
      /\ script' = "push"
      /\ UNCHANGED <<filed, report, seen, smtp, raws, rows, index>>
  BY DEF Plan, ingestVars, mailVars, verifyVars
<1>2. RebuildTypeOK /\ VerdictHolds /\ IngestTypeOK /\ Len(Source) \in Nat
  <2>1. Source \in Seq(Raws)
    BY RebuildAssumption
  <2> QED
    BY <2>1, LenProperties DEF RebuildInductive, ScriptsInv, IngestInductive, QueueInv
<1>3. RebuildTypeOK'
  <2>1. known' \in [Keys -> EventRow]
    BY <1>1, <1>2 DEF IngestTypeOK
  <2>2. outcome' \in [RowsOf -> Outcomes] /\ newId' \in [RowsOf -> Ids]
    BY <1>1, Basics DEF Outcomes
  <2>3. at' \in 1 .. Len(Source) + 1 /\ run' \in {0} \cup Runs
    BY <1>1, <1>2
  <2> QED
    BY <1>1, <1>2, <2>1, <2>2, <2>3 DEF RebuildTypeOK
<1>4. OutcomesHold'
  BY <1>1 DEF OutcomesHold
<1>5. VerdictHolds'
  BY <1>1, <1>2, VerdictStays
<1> QED
  BY <1>3, <1>4, <1>5 DEF ScriptsInv

LEMMA PlanKeeps ==
  ASSUME RebuildInductive, NEW forced \in BOOLEAN, Plan(forced), UNCHANGED verifyVars
  PROVE  RebuildInductive'
<1>1. /\ run' = run + 1 /\ run' \in Runs /\ at' = 1 /\ known' = events /\ UNCHANGED ingestVars
      /\ script' = "push"
  BY DEF Plan
<1>2. run \in Nat /\ run' \in Nat
  <2>1. Runs \subseteq Nat
    BY RebuildAssumption, Zenon
  <2>2. run \in {0} \cup Runs
    BY DEF RebuildInductive, ScriptsInv, RebuildTypeOK
  <2> QED
    BY <1>1, <2>1, <2>2
<1>3. \A q \in Runs, i \in 1 .. Len(Source) : Ahead(q, i)' => Ahead(q, i)
  <2>1. Runs \subseteq Nat
    BY RebuildAssumption, Zenon
  <2> QED
    BY <1>1, <1>2, <2>1 DEF Ahead
<1>4. IngestInductive' /\ ReplayInv'
  BY <1>1, <1>3, ReplayAfterScript DEF RebuildInductive
<1> QED
  BY <1>4, ScriptsAfterPlan DEF RebuildInductive

\* The outcome of a row, whichever it is.
LEMMA DoneKeeps ==
  ASSUME RebuildInductive, UNCHANGED <<ingestVars, verifyVars>>,
         script \in {"push", "poll"}, at \in 1 .. Len(Source),
         NEW result \in Outcomes \ {"none"}, NEW id \in Ids, Done(result, id),
         result \in {"inserted", "duplicate"} => \E row \in rows : row.key = RowKey[Here] /\ row.id = id,
         result = "skipped" => ToSkip
  PROVE  RebuildInductive'
<1>1. /\ run' = run /\ known' = known /\ at' = at + 1 /\ script' = "push" /\ script # "off"
      /\ UNCHANGED <<smtp, raws, rows, index>>
  BY DEF Done, ingestVars, mailVars
<1>2. Here \in RowsOf
  BY DEF Here, RowsOf
<1>3. at \in Nat /\ Len(Source) \in Nat
  <2>1. Source \in Seq(Raws)
    BY RebuildAssumption
  <2> QED
    BY <2>1, LenProperties DEF RebuildInductive, ScriptsInv, RebuildTypeOK
<1>4. \A q \in Runs, i \in 1 .. Len(Source) : Ahead(q, i)' => Ahead(q, i)
  BY <1>1, <1>3 DEF Ahead
<1>5. run \in Runs
  BY <1>1 DEF RebuildInductive, ReplayInv, QueueIsReplay
<1>6. IngestInductive' /\ ReplayInv'
  BY <1>1, <1>4, <1>5, ReplayAfterScript DEF RebuildInductive
<1>7. ScriptsInv'
  BY <1>1, <1>2, ScriptsAfterDone
<1> QED
  BY <1>6, <1>7 DEF RebuildInductive

\* The script moves on, and the row in hand stays or has nothing to replay.
LEMMA MoveKeeps ==
  ASSUME RebuildInductive, UNCHANGED <<ingestVars, verifyVars, run, force, known, outcome, newId>>,
         script # "off", filed \subseteq filed', filed' \subseteq Ids,
         at' \in 1 .. Len(Source) + 1, at' >= at,
         \A i \in 1 .. Len(Source) : i < at' /\ Source[i] \in raws => i < at,
         script' \in {"push", "pass", "fail", "died"},
         script' = "push" => script = "push",
         script' = "pass" => /\ at' = Len(Source) + 1
                             /\ \A r \in RowsOf : outcome[r] \notin {"conflict", "timeout", "push_failed"}
  PROVE  RebuildInductive'
<1>1. UNCHANGED <<smtp, raws, rows, index>>
  BY DEF ingestVars, mailVars
<1>2. at \in Nat /\ at' \in Nat /\ Len(Source) \in Nat
  <2>1. Source \in Seq(Raws)
    BY RebuildAssumption
  <2>2. Len(Source) \in Nat
    BY <2>1, LenProperties
  <2> QED
    BY <2>2 DEF RebuildInductive, ScriptsInv, RebuildTypeOK
<1>3. \A q \in Runs, i \in 1 .. Len(Source) : Ahead(q, i)' => Ahead(q, i)
  BY <1>2 DEF Ahead
<1>4. run \in Runs
  BY DEF RebuildInductive, ReplayInv, QueueIsReplay
<1>5. IngestInductive' /\ ReplayInv'
  BY <1>3, <1>4, ReplayAfterScript DEF RebuildInductive
<1>6. ScriptsInv'
  BY <1>1, ScriptsAfterMove
<1> QED
  BY <1>5, <1>6 DEF RebuildInductive

LEMMA PassOverKeeps ==
  ASSUME RebuildInductive, PassOver, UNCHANGED verifyVars
  PROVE  RebuildInductive'
<1>1. /\ script = "push" /\ at \in 1 .. Len(Source) /\ UNCHANGED ingestVars
      /\ Here = Source[at] /\ Here \in RowsOf
  BY DEF PassOver, RebuildInductive, ScriptsInv, RebuildTypeOK, Here, RowsOf
<1>2. CASE Here \notin Rebuildable /\ at' = at + 1
           /\ UNCHANGED <<run, force, script, known, outcome, newId, filed>>
  <2>1. filed \subseteq Ids
    BY DEF RebuildInductive, ScriptsInv, RebuildTypeOK
  <2>2. at \in Nat /\ Len(Source) \in Nat /\ at' \in 1 .. Len(Source) + 1
    <3>1. Source \in Seq(Raws)
      BY RebuildAssumption
    <3>2. Len(Source) \in Nat
      BY <3>1, LenProperties
    <3> QED
      BY <1>1, <1>2, <3>2
  <2>3. \A i \in 1 .. Len(Source) : i < at' /\ Source[i] \in raws => i < at
    <3>1. Source[at] \notin raws
      BY <1>1, <1>2 DEF Rebuildable
    <3> QED
      BY <1>2, <2>2, <3>1
  <2> QED
    BY <1>1, <1>2, <2>1, <2>2, <2>3, MoveKeeps
<1>3. CASE ToSkip /\ Done("skipped", Prior)
  <2>1. Prior \in Ids
    <3>1. RowKey[Here] \in Keys /\ known \in [Keys -> EventRow]
      <4>1. Here \in Raws
        BY <1>1, RebuildAssumption, ElementOfSeq
      <4> QED
        BY <4>1, RebuildAssumption DEF RebuildInductive, ScriptsInv, RebuildTypeOK
    <3> QED
      BY <3>1 DEF Prior, EventRow
  <2>2. "skipped" \in Outcomes \ {"none"}
    BY DEF Outcomes
  <2>3. PICK result : result = "skipped"
    OBVIOUS
  <2> QED
    BY <1>1, <1>3, <2>1, <2>2, <2>3, DoneKeeps
<1> QED
  BY <1>2, <1>3 DEF PassOver

LEMMA PublishKeeps ==
  ASSUME RebuildInductive, Publish, UNCHANGED verifyVars
  PROVE  RebuildInductive'
<1>1. /\ script = "push" /\ at \in 1 .. Len(Source)
      /\ UNCHANGED <<smtp, raws, tries, work, mailVars>>
      /\ RebuildTypeOK /\ filed \subseteq Ids
  BY DEF Publish, RebuildInductive, ScriptsInv, RebuildTypeOK
<1>2. CASE script' = "poll" /\ UNCHANGED <<run, force, known, at, outcome, newId, filed>>
  <2>1. IngestInductive' /\ ReplayInv'
    <3>1. queue' = [queue EXCEPT ![Push] = "waiting"]
      BY <1>2 DEF Publish, Done
    <3> QED
      BY <1>1, <3>1, ReplayAfterPush DEF RebuildInductive
  <2>2. at' \in 1 .. Len(Source) + 1 /\ at' <= Len(Source)
    BY <1>1, <1>2 DEF RebuildTypeOK
  <2>3. ScriptsInv'
    BY <1>1, <1>2, <2>2, ScriptsAfterMove DEF mailVars
  <2> QED
    BY <2>1, <2>3 DEF RebuildInductive
<1>3. CASE /\ Done("push_failed", NoId)
           /\ queue' \in {queue, [queue EXCEPT ![Push] = "waiting"]}
  <2>1. PICK result : result = "push_failed"
    OBVIOUS
  <2>2. result \in Outcomes \ {"none"} /\ NoId \in Ids /\ Done(result, NoId)
    BY <1>3, <2>1, Basics DEF Outcomes
  <2>3. CASE queue' = queue
    <3>1. UNCHANGED ingestVars
      BY <1>1, <2>3 DEF ingestVars
    <3> QED
      BY <1>1, <2>1, <2>2, <3>1, DoneKeeps
  <2>4. CASE queue' = [queue EXCEPT ![Push] = "waiting"]
    <3>1. IngestInductive' /\ ReplayInv'
      BY <1>1, <2>4, ReplayAfterPush DEF RebuildInductive
    <3>2. Here \in RowsOf /\ UNCHANGED <<rows, index>>
      BY <1>1 DEF Here, RowsOf, mailVars
    <3>3. ScriptsInv'
      BY <1>1, <2>1, <2>2, <3>2, ScriptsAfterDone
    <3> QED
      BY <3>1, <3>3 DEF RebuildInductive
  <2> QED
    BY <1>3, <2>3, <2>4
<1> QED
  BY <1>2, <1>3 DEF Publish

LEMMA HereIsTyped ==
  ASSUME RebuildTypeOK, at \in 1 .. Len(Source)
  PROVE  Here \in Raws /\ Here \in RowsOf /\ RowKey[Here] \in Keys /\ Prior \in Ids
<1>1. Here \in Raws /\ Here \in RowsOf
  BY RebuildAssumption, ElementOfSeq DEF Here, RowsOf
<1>2. RowKey[Here] \in Keys
  BY <1>1, RebuildAssumption
<1> QED
  BY <1>1, <1>2 DEF RebuildTypeOK, Prior, EventRow

\* A settled row is a failure, or names a message the object stored after the
\* plan: the row of the backup has the id the plan saw.
LEMMA PollKeeps ==
  ASSUME RebuildInductive, Poll, UNCHANGED verifyVars
  PROVE  RebuildInductive'
<1>1. /\ script = "poll" /\ at \in 1 .. Len(Source) /\ UNCHANGED ingestVars /\ RebuildTypeOK
      /\ IngestTypeOK /\ MailInv /\ BackupIsKnown
  BY DEF Poll, RebuildInductive, ScriptsInv, RebuildTypeOK, OutcomesHold, IngestInductive,
         QueueInv, ReplayInv
<1>2. PICK k, row : k \in Keys /\ k = RowKey[Here] /\ row = events[k]
  BY <1>1, HereIsTyped
<1>3. row \in EventRow /\ row.status \in {"processed", "failed"} /\ row.id \in Ids
      /\ (Prior # NoId => row.id # Prior)
  BY <1>1, <1>2 DEF Poll, Settles, IngestTypeOK, EventRow
<1>4. CASE row.status = "failed"
  <2>1. Done("conflict", NoId)
    BY <1>2, <1>4 DEF Poll
  <2>2. PICK result : result = "conflict"
    OBVIOUS
  <2> QED
    BY <1>1, <2>1, <2>2, Basics, DoneKeeps DEF Outcomes
<1>5. CASE row.status = "processed"
  <2>1. row.id[1] \in Deliveries
    <3>1. known[k].id = Prior
      BY <1>2 DEF Prior
    <3> QED
      BY <1>1, <1>2, <1>3, <1>5, <3>1 DEF BackupIsKnown
  <2>2. \E x \in rows : x.key = RowKey[Here] /\ x.id = row.id
    BY <1>1, <1>2, <1>5, <2>1 DEF MailInv, ProjectionNeverLeads, Held
  <2>3. PICK result : result = IF row.id = Prior THEN "duplicate" ELSE "inserted"
    OBVIOUS
  <2>4. Done(result, row.id) /\ result \in Outcomes \ {"none"} /\ result # "skipped"
    <3>1. Done(IF row.id = Prior THEN "duplicate" ELSE "inserted", row.id)
      BY <1>2, <1>5 DEF Poll
    <3> QED
      BY <2>3, <3>1 DEF Outcomes
  <2> QED
    BY <1>1, <1>3, <2>2, <2>4, DoneKeeps
<1> QED
  BY <1>3, <1>4, <1>5

LEMMA TimeOutKeeps ==
  ASSUME RebuildInductive, TimeOut, UNCHANGED verifyVars
  PROVE  RebuildInductive'
<1>1. /\ script = "poll" /\ at \in 1 .. Len(Source) /\ UNCHANGED ingestVars /\ RebuildTypeOK
  BY DEF TimeOut, RebuildInductive, ScriptsInv, RebuildTypeOK, OutcomesHold
<1>2. PICK result : result = IF Prior # NoId THEN "unverified" ELSE "timeout"
  OBVIOUS
<1>3. Done(result, Prior) /\ result \in {"unverified", "timeout"}
  BY <1>2 DEF TimeOut
<1> QED
  BY <1>1, <1>3, HereIsTyped, DoneKeeps DEF Outcomes

LEMMA FinishKeeps ==
  ASSUME RebuildInductive, Finish, UNCHANGED verifyVars
  PROVE  RebuildInductive'
<1>1. /\ script = "push" /\ at = Len(Source) + 1 /\ RebuildTypeOK
      /\ UNCHANGED <<ingestVars, run, force, known, at, outcome, newId>>
      /\ filed' = filed \cup ({newId[r] : r \in Restorable} \cap index)
  BY DEF Finish, RebuildInductive, ScriptsInv
<1>2. filed \subseteq filed' /\ filed' \subseteq Ids
  BY <1>1 DEF RebuildTypeOK, RebuildInductive, IngestInductive, QueueInv, IngestTypeOK
<1>3. /\ script' \in {"fail", "pass"}
      /\ script' = "pass" => \A r \in RowsOf : outcome[r] \notin {"conflict", "timeout", "push_failed"}
  BY DEF Finish
<1>4. /\ at' \in 1 .. Len(Source) + 1 /\ at' >= at /\ at' = Len(Source) + 1
      /\ \A i \in 1 .. Len(Source) : i < at' /\ Source[i] \in raws => i < at
  BY <1>1 DEF RebuildTypeOK
<1> QED
  BY <1>1, <1>2, <1>3, <1>4, MoveKeeps

LEMMA DeathKeeps ==
  ASSUME RebuildInductive, ScriptDies, UNCHANGED verifyVars
  PROVE  RebuildInductive'
<1>1. /\ script \in {"push", "poll"} /\ script' = "died" /\ RebuildTypeOK
      /\ UNCHANGED <<ingestVars, run, force, known, at, outcome, newId, filed>>
  BY DEF ScriptDies, RebuildInductive, ScriptsInv
<1>2. filed' \subseteq Ids /\ at' \in 1 .. Len(Source) + 1 /\ at' >= at
  BY <1>1 DEF RebuildTypeOK
<1> QED
  BY <1>1, <1>2, MoveKeeps

--------------------------------------------------------------------------------
(* The rebuild as a whole.                                                 *)

LEMMA ReadKeeps ==
  ASSUME RebuildInductive, ReadObject \/ Verify
  PROVE  RebuildInductive'
<1>1. UNCHANGED <<ingestVars, scriptVars>>
  BY DEF ReadObject, Verify
<1>2. /\ UNCHANGED <<run, force, script, known, at, outcome, newId, filed>>
      /\ UNCHANGED <<smtp, raws, rows, index>>
  BY <1>1 DEF scriptVars, ingestVars, mailVars
<1>3. RebuildTypeOK /\ OutcomesHold /\ VerdictHolds /\ rows \subseteq Row
  BY DEF RebuildInductive, ScriptsInv, IngestInductive, QueueInv, IngestTypeOK
<1>4. IngestInductive' /\ ReplayInv'
  <2>1. \A q \in Runs, i \in 1 .. Len(Source) : Ahead(q, i)' => Ahead(q, i)
    BY <1>2 DEF Ahead
  <2>2. script # "off" => run \in Runs
    BY DEF RebuildInductive, ReplayInv, QueueIsReplay
  <2> QED
    BY <1>1, <1>2, <2>1, <2>2, ReplayAfterScript DEF RebuildInductive
<1>5. OutcomesHold'
  BY <1>2, <1>3 DEF OutcomesHold
<1>6. RebuildTypeOK' /\ VerdictHolds'
  <2>1. CASE ReadObject
    <3>1. seen' = rows /\ report' = "read"
      BY <2>1 DEF ReadObject
    <3> QED
      BY <1>2, <1>3, <3>1 DEF RebuildTypeOK, VerdictHolds
  <2>2. CASE Verify
    <3>1. /\ report = "read" /\ report' \in {"pass", "fail"} /\ seen' = seen
          /\ report' = "pass" => /\ Missing \cup Damaged \cup Unindexed \cup Unexplained = {}
                                 /\ Unaccounted = {}
      BY <2>2 DEF Verify
    <3>2. /\ Missing' = Missing /\ Damaged' = Damaged /\ Unindexed' = Unindexed
          /\ Unexplained' = Unexplained /\ Unaccounted' = Unaccounted
      BY <1>2, <3>1 DEF Missing, Damaged, Unindexed, Unexplained, Unaccounted, Rebuildable, Matches
    <3> QED
      BY <1>2, <1>3, <3>1, <3>2 DEF RebuildTypeOK, VerdictHolds
  <2> QED
    BY <2>1, <2>2
<1> QED
  BY <1>4, <1>5, <1>6 DEF RebuildInductive, ScriptsInv

LEMMA RebuildStarts == RebuildInit => RebuildInductive
<1> SUFFICES ASSUME RebuildInit PROVE RebuildInductive
  OBVIOUS
<1>1. PICK b \in Backups : events = Backup(b)
  BY DEF RebuildInit
<1>2. PICK lost \in Lost : raws = RowsOf \ (Sent \cup lost)
  BY DEF RebuildInit
<1>3. /\ events \in [Keys -> EventRow]
      /\ \A k \in Keys : /\ events[k].id \in {StaleId, NoId}
                         /\ events[k].status = "processed" => events[k].id = StaleId
  <2>1. b \in [Keys -> {"none", "processed", "failed"}]
    BY RebuildAssumption
  <2>2. \A k \in Keys : events[k] = [NoEvent EXCEPT !.status = b[k],
                                                    !.id = IF b[k] = "processed" THEN StaleId ELSE NoId]
    BY <1>1 DEF Backup
  <2>3. StaleId \in Ids
    BY Basics DEF StaleId, Ids
  <2>4. NoEvent \in EventRow /\ NoId \in Ids
    BY Basics
  <2>5. \A k \in Keys : /\ events[k] \in EventRow /\ events[k].id \in {StaleId, NoId}
                        /\ events[k].status = "processed" => events[k].id = StaleId
    <3> SUFFICES ASSUME NEW k \in Keys
                 PROVE  /\ events[k] \in EventRow /\ events[k].id \in {StaleId, NoId}
                        /\ events[k].status = "processed" => events[k].id = StaleId
      OBVIOUS
    <3>1. PICK status, id : status = b[k] /\ id = IF b[k] = "processed" THEN StaleId ELSE NoId
      OBVIOUS
    <3>2. /\ status \in {"none", "processed", "failed"} /\ id \in Ids /\ id \in {StaleId, NoId}
          /\ status = "processed" => id = StaleId
      BY <2>1, <2>3, <2>4, <3>1
    <3>3. events[k] = [NoEvent EXCEPT !.status = status, !.id = id]
      BY <2>2, <3>1
    <3> QED
      BY <2>4, <3>2, <3>3 DEF EventRow
  <2>6. events = [k \in Keys |-> events[k]]
    BY <1>1 DEF Backup
  <2> QED
    BY <2>5, <2>6
<1>4. /\ StaleId # NoId /\ StaleId[1] \notin Deliveries /\ NoId[1] \notin Deliveries
  BY IngestAssumption DEF StaleId, NoId
<1>5. RowsOf \subseteq Raws
  <2>1. Source \in Seq(Raws)
    BY RebuildAssumption
  <2>2. \A i \in 1 .. Len(Source) : Source[i] \in Raws
    BY <2>1, ElementOfSeq
  <2> QED
    BY <2>2 DEF RowsOf
<1>6. /\ queue = [d \in Deliveries |-> "none"] /\ tries = [d \in Deliveries |-> 0]
      /\ work = [w \in Workers |-> Idle] /\ rows = {} /\ parts = {} /\ index = {}
      /\ notices = [d \in Deliveries |-> 0] /\ smtp = [d \in Deliveries |-> "failed"]
  BY DEF RebuildInit
<1>7. IngestInductive
  <2>1. IngestTypeOK
    BY <1>2, <1>3, <1>5, <1>6, Basics DEF IngestTypeOK, Work
  <2>2. RequestsTyped /\ RequestsDiffer /\ AnswersHold
    BY <1>6 DEF RequestsTyped, RequestsDiffer, AnswersHold, AnswerHolds, Active, Announcing, Idle
  <2>3. TriesLeft /\ NoticesHold /\ Unsent
    BY <1>6, Basics DEF TriesLeft, NoticesHold, Unsent
  <2>4. OneMessagePerKey /\ ProjectionNeverLeads
    BY <1>3, <1>4, <1>6 DEF OneMessagePerKey, ProjectionNeverLeads
  <2> QED
    BY <2>1, <2>2, <2>3, <2>4 DEF IngestInductive, QueueInv, MailInv
<1>8. ReplayInv
  <2>1. QueueIsReplay
    <3>1. \A q \in Runs, i \in 1 .. Len(Source) : Source[i] \in raws => PushOf[q, Source[i]] \in Deliveries
      BY <1>2, <1>5, RebuildAssumption
    <3> QED
      <4>1. script = "off"
        BY DEF RebuildInit, Fresh
      <4>2. \A d \in Deliveries : queue[d] = "none" /\ smtp[d] = "failed"
        BY <1>6
      <4>3. \A w \in Workers : ~Active(w)
        BY <1>6 DEF Active, Idle
      <4> QED
        BY <1>2, <3>1, <4>1, <4>2, <4>3 DEF QueueIsReplay
  <2>2. RowsAreReplayed
    BY <1>6, FS_EmptySet DEF RowsAreReplayed
  <2>3. BackupIsKnown
    BY <1>3, <1>4 DEF BackupIsKnown, RebuildInit, Fresh
  <2> QED
    BY <2>1, <2>2, <2>3 DEF ReplayInv
<1>9. ScriptsInv
  <2>1. /\ run = 0 /\ force = FALSE /\ script = "off" /\ at = 1
        /\ known = [k \in Keys |-> NoEvent] /\ outcome = [r \in RowsOf |-> "none"]
        /\ newId = [r \in RowsOf |-> NoId] /\ filed = {} /\ report = "off" /\ seen = {}
    BY DEF RebuildInit, Fresh
  <2>2. at \in 1 .. Len(Source) + 1
    <3>1. Source \in Seq(Raws)
      BY RebuildAssumption
    <3> QED
      BY <2>1, <3>1, LenProperties
  <2>3. known \in [Keys -> EventRow] /\ outcome \in [RowsOf -> Outcomes] /\ newId \in [RowsOf -> Ids]
    BY <2>1, Basics DEF Outcomes
  <2>4. RebuildTypeOK
    BY <2>1, <2>2, <2>3 DEF RebuildTypeOK
  <2>5. OutcomesHold /\ VerdictHolds
    BY <2>1 DEF OutcomesHold, VerdictHolds
  <2> QED
    BY <2>4, <2>5 DEF ScriptsInv
<1> QED
  BY <1>7, <1>8, <1>9 DEF RebuildInductive

LEMMA RebuildKeeps ==
  ASSUME RebuildInductive, [RebuildNext]_allVars
  PROVE  RebuildInductive'
<1>1. CASE QueueStep /\ UNCHANGED rebuildVars
  BY <1>1, ReplayAfterQueueStep, ScriptsAfterQueueStep DEF RebuildInductive
<1>2. CASE Reingest
  BY <1>2, PlanKeeps, PassOverKeeps, PublishKeeps, PollKeeps, TimeOutKeeps, FinishKeeps, DeathKeeps
  DEF Reingest
<1>3. CASE Verifier
  BY <1>3, ReadKeeps DEF Verifier
<1>4. CASE UNCHANGED allVars
  <2>1. UNCHANGED <<ingestVars, scriptVars, verifyVars>>
    BY <1>4 DEF allVars, rebuildVars
  <2>2. /\ UNCHANGED <<run, force, script, known, at, outcome, newId, filed, report, seen>>
        /\ UNCHANGED <<smtp, raws, rows, index>>
    BY <2>1 DEF scriptVars, verifyVars, ingestVars, mailVars
  <2>3. RebuildTypeOK /\ OutcomesHold /\ VerdictHolds
    BY DEF RebuildInductive, ScriptsInv
  <2>4. RebuildTypeOK' /\ OutcomesHold'
    BY <2>2, <2>3 DEF RebuildTypeOK, OutcomesHold
  <2>5. VerdictHolds'
    BY <2>2, <2>3, VerdictStays
  <2>6. \A q \in Runs, i \in 1 .. Len(Source) : Ahead(q, i)' => Ahead(q, i)
    BY <2>2 DEF Ahead
  <2>7. script # "off" => run \in Runs
    BY DEF RebuildInductive, ReplayInv, QueueIsReplay
  <2>8. IngestInductive' /\ ReplayInv'
    BY <2>1, <2>2, <2>6, <2>7, ReplayAfterScript DEF RebuildInductive
  <2> QED
    BY <2>4, <2>5, <2>8 DEF RebuildInductive, ScriptsInv
<1> QED
  BY <1>1, <1>2, <1>3, <1>4 DEF RebuildNext

\* A verified mailbox: what the verifier read has one row per raw object that is
\* left, and a row that came later would have a key that is taken.
LEMMA VerifiedRebuild ==
  ASSUME RebuildInductive
  PROVE  VerifiedIsRebuilt
<1> SUFFICES ASSUME report = "pass"
             PROVE  /\ \A r \in RowsOf \ Sent :
                         \E row \in rows : /\ row.raw = r /\ row.parse = "parsed" /\ row.id \in index
                                           /\ r \in Filed => row.id \in filed
                    /\ Cardinality(rows) = Cardinality(RowsOf \ Sent)
  BY DEF VerifiedIsRebuilt
<1>1. /\ seen \subseteq rows /\ IsFiniteSet(rows) /\ raws \subseteq RowsOf \ Sent
      /\ \A row \in rows : row.raw \in raws /\ row.key = RowKey[row.raw]
      /\ \A x, y \in rows : x.key = y.key => x = y
      /\ Missing = {} /\ Damaged = {} /\ Unindexed = {} /\ Unexplained = {}
  BY DEF RebuildInductive, ScriptsInv, VerdictHolds, ReplayInv, RowsAreReplayed, QueueIsReplay,
         IngestInductive, MailInv, OneMessagePerKey
<1>2. Rebuildable = RowsOf \ Sent /\ raws = RowsOf \ Sent
  BY <1>1 DEF Unexplained, Rebuildable
<1>3. ASSUME NEW r \in RowsOf \ Sent
      PROVE  \E row \in seen : row.raw = r
  <2>1. Cardinality(Matches(r)) = 1
    BY <1>1, <1>2 DEF Missing
  <2>2. Matches(r) # {}
    BY <2>1, FS_EmptySet
  <2> QED
    BY <2>2 DEF Matches
<1>4. ASSUME NEW r \in RowsOf \ Sent
      PROVE  \E row \in rows : /\ row.raw = r /\ row.parse = "parsed" /\ row.id \in index
                               /\ r \in Filed => row.id \in filed
  <2>1. PICK row \in seen : row.raw = r
    BY <1>3
  <2>2. row \in Matches(r) /\ row \in rows
    BY <1>1, <2>1 DEF Matches
  <2>3. row.parse = "parsed" /\ row.id \in index /\ (r \in Filed => row.id \in filed)
    BY <1>1, <1>2, <2>2 DEF Damaged, Unindexed
  <2> QED
    BY <2>1, <2>2, <2>3
<1>5. Cardinality(rows) = Cardinality(RowsOf \ Sent)
  <2> DEFINE f == [row \in rows |-> row.raw]
  <2>1. f \in [rows -> RowsOf \ Sent]
    BY <1>1, <1>2
  <2>2. \A x, y \in rows : f[x] = f[y] => x = y
    BY <1>1
  <2>3. \A r \in RowsOf \ Sent : \E row \in rows : f[row] = r
    BY <1>1, <1>3
  <2>4. f \in Bijection(rows, RowsOf \ Sent)
    BY <2>1, <2>2, <2>3 DEF Bijection, Injection, Surjection, IsInjective
  <2> QED
    BY <1>1, <2>4, FS_Bijection DEF ExistsBijection
<1> QED
  BY <1>4, <1>5

\* Whatever backup the target had, bytes R2 lost, redeliveries the queue made
\* and runs that died: what the replay says of a row and of its run, and the
\* verifier of the mailbox, is so.
THEOREM VerdictsAreTrue == RebuildSpec => []RebuildInvariant
<1>1. RebuildInductive => RebuildInvariant
  <2> SUFFICES ASSUME RebuildInductive PROVE RebuildInvariant
    OBVIOUS
  <2>1. RebuildTypeOK /\ OutcomesHold
    BY DEF RebuildInductive, ScriptsInv
  <2>2. InsertedIsStored
    BY <2>1 DEF OutcomesHold, InsertedIsStored
  <2>3. PassedIsIngested
    <3> SUFFICES ASSUME script = "pass", NEW r \in Rebuildable
                 PROVE  \/ \E row \in rows : row.key = RowKey[r]
                        \/ outcome[r] = "unverified"
                        \/ ~force /\ known[RowKey[r]].status # "none"
      BY DEF PassedIsIngested
    <3>1. PICK i \in 1 .. Len(Source) : r = Source[i]
      BY DEF Rebuildable, RowsOf
    <3>2. r \in RowsOf /\ r \in raws /\ at = Len(Source) + 1 /\ Len(Source) \in Nat
      <4>1. Source \in Seq(Raws)
        BY RebuildAssumption
      <4> QED
        BY <2>1, <4>1, LenProperties DEF Rebuildable, OutcomesHold
    <3>3. outcome[r] \in Outcomes \ {"none", "conflict", "timeout", "push_failed"}
      BY <2>1, <3>1, <3>2 DEF OutcomesHold, RebuildTypeOK
    <3> QED
      BY <2>1, <3>2, <3>3 DEF OutcomesHold, Outcomes
  <2> QED
    BY <2>1, <2>2, <2>3, VerifiedRebuild DEF RebuildInvariant
<1> QED
  BY RebuildStarts, RebuildKeeps, <1>1, PTL DEF RebuildSpec

LEMMA RunIsCounted ==
  ASSUME RebuildInductive, run > 0
  PROVE  run \in Runs
<1>1. run \in {0} \cup Runs /\ run \in Nat
  <2>1. Runs \subseteq Nat
    BY RebuildAssumption, Zenon
  <2> QED
    BY <2>1 DEF RebuildInductive, ScriptsInv, RebuildTypeOK
<1> QED
  BY <1>1

LEMMA RowsBehindAreSettled ==
  ASSUME RebuildInductive, NEW i \in 1 .. Len(Source), NEW j \in 1 .. Len(Source), i < j,
         ~Ahead(run, j), Source[i] \in raws
  PROVE  outcome[Source[i]] # "none"
<1>1. Len(Source) \in Nat /\ at \in Nat
  <2>1. Source \in Seq(Raws)
    BY RebuildAssumption
  <2>2. Len(Source) \in Nat
    BY <2>1, LenProperties
  <2>3. at \in 1 .. Len(Source) + 1
    BY DEF RebuildInductive, ScriptsInv, RebuildTypeOK
  <2> QED
    BY <2>2, <2>3
<1>2. i < at
  BY <1>1 DEF Ahead
<1> QED
  BY <1>2 DEF RebuildInductive, ScriptsInv, OutcomesHold

\* A message of this run is stored only when every older row has its outcome,
\* however slow the queue is: it was pushed, so the script is past the older ones.
THEOREM OldestFirst == RebuildSpec => ReplayInOrder
<1> DEFINE InOrder == \A row \in rows' \ rows : \A i, j \in 1 .. Len(Source) :
              run > 0 /\ i < j /\ {Source[i], Source[j]} \subseteq Rebuildable =>
                (row.id[1] = PushOf[run, Source[j]] => outcome[Source[i]] # "none")
<1>1. ASSUME RebuildInductive, [RebuildNext]_allVars
      PROVE  [InOrder]_allVars
  <2> SUFFICES ASSUME NEW row \in rows' \ rows, NEW i \in 1 .. Len(Source), NEW j \in 1 .. Len(Source),
                      run > 0, i < j, {Source[i], Source[j]} \subseteq Rebuildable,
                      row.id[1] = PushOf[run, Source[j]]
               PROVE  outcome[Source[i]] # "none"
    OBVIOUS
  <2>1. QueueStep
    BY <1>1 DEF RebuildNext, Reingest, Plan, PassOver, Publish, Poll, TimeOut, Finish, ScriptDies,
                Verifier, ReadObject, Verify, ingestVars, mailVars, allVars
  <2>2. PICK w \in Workers : Active(w) /\ row.id[1] = work[w].of
    BY <1>1, <2>1, RowsComeFromRequests DEF RebuildInductive, ReplayInv, RowsAreReplayed
  <2>3. queue[PushOf[run, Source[j]]] # "none"
    BY <1>1, <2>2 DEF RebuildInductive, ReplayInv, QueueIsReplay
  <2>4. run \in Runs
    BY <1>1, RunIsCounted
  <2>5. Source[i] \in raws /\ Source[j] \in raws
    BY DEF Rebuildable
  <2>6. ~Ahead(run, j)
    BY <1>1, <2>3, <2>4, <2>5 DEF RebuildInductive, ReplayInv, QueueIsReplay
  <2> QED
    BY <1>1, <2>5, <2>6, RowsBehindAreSettled
<1> QED
  BY RebuildStarts, RebuildKeeps, <1>1, PTL DEF RebuildSpec, ReplayInOrder

--------------------------------------------------------------------------------
(* The schema of a mailbox object.                                         *)

\* What a storage has for the version it records.
ColumnsFit(d) ==
  /\ d.version >= 1 /\ "messages" \in d.tables => "thread_id" \in d.cols
  /\ d.version >= 2 /\ "outbound_drafts" \in d.tables => "idempotency_key" \in d.cols
  /\ d.version >= 2 => d.unique
  /\ d.version >= 3 /\ "transactional_requests" \in d.tables => "delivery_status" \in d.cols
  /\ d.version >= 4 /\ "outbound_drafts" \in d.tables => "parent_message_id" \in d.cols
  /\ d.version >= 5 /\ "transactional_requests" \in d.tables => "resolved_via" \in d.cols
  /\ d.version >= 6 /\ "api_keys" \in d.tables => "sender_name" \in d.cols
  /\ d.version >= 6 /\ "api_key_events" \in d.tables => "sender_name_updated" \in d.cols
  /\ d.drafts <= 1

\* A table moved aside keeps its rows until the new one has them, and none is
\* moved onto it.
RowsFit(d) ==
  /\ /\ "messages" \in d.tables
     /\ "messages_legacy_v0" \in d.tables \/ d.rows["messages_legacy_v0"] # {}
     => "thread_id" \in d.cols
  /\ "api_key_events" \in d.tables /\ d.rows["api_key_events_old"] # {} =>
       "sender_name_updated" \in d.cols
  /\ d.rows["messages"] \cup d.rows["messages_legacy_v0"] \subseteq Mails
  /\ d.searchable \subseteq d.rows["messages"]
  /\ d.searchable # {} => "thread_id" \in d.cols
  /\ owed \subseteq d.rows["messages"] \cup d.rows["messages_legacy_v0"]
                    \cup d.rows["api_key_events"] \cup d.rows["api_key_events_old"]
  /\ d.version >= 1 /\ ~swallowed =>
       d.rows["messages_legacy_v0"] = {} /\ d.searchable = d.rows["messages"]

CopyFits(d) ==
  /\ d.draft = "edited" => edited # "never"
  /\ edited = "after" => d.late
  /\ d.body = "edited" => edited = "during"

StorageFits(d) == d \in Storage /\ ColumnsFit(d) /\ RowsFit(d) /\ CopyFits(d)

\* The steps of the constructor that come after one.
AfterEvents == {"backfill", "record", "up"}
AfterSenderName == {"events", "events_create", "events_copy", "events_drop"} \cup AfterEvents
AfterResolved == {"sender_name"} \cup AfterSenderName
AfterParent == {"resolved"} \cup AfterResolved
AfterDelivery == {"parent"} \cup AfterParent
AfterUnique == {"delivery"} \cup AfterDelivery
AfterIdempotency == {"unique"} \cup AfterUnique
AfterLegacy == {"drafts"} \cup AfterIdempotency
AfterTables == {"rebuild", "legacy"} \cup AfterLegacy

\* What the constructor has made sure of where it is.
ColumnsMade ==
  /\ pc = "schema" /\ "messages" \in db.tables => "thread_id" \in db.cols
  /\ pc \in {"rebuild", "legacy"} => db.version = 0
  /\ pc \in AfterTables =>
       /\ Tables \ {"api_key_events"} \subseteq db.tables
       /\ pc # "events_create" => "api_key_events" \in db.tables
       /\ "thread_id" \in db.cols
  /\ pc = "events_create" => "api_key_events" \notin db.tables
  /\ pc \in AfterIdempotency => "idempotency_key" \in db.cols
  /\ pc \in AfterUnique => db.unique
  /\ pc \in AfterDelivery => "delivery_status" \in db.cols
  /\ pc \in AfterParent => "parent_message_id" \in db.cols
  /\ pc \in AfterResolved => "resolved_via" \in db.cols
  /\ pc \in AfterSenderName => "sender_name" \in db.cols
  /\ pc \in {"events_copy", "events_drop"} \cup AfterEvents => "sender_name_updated" \in db.cols

RowsMoved ==
  /\ pc \in {"legacy"} \cup AfterLegacy /\ ~swallowed => db.rows["messages_legacy_v0"] = {}
  /\ pc \in AfterLegacy /\ ~swallowed => db.searchable = db.rows["messages"]
  /\ pc = "events_drop" => db.rows["api_key_events_old"] \subseteq db.rows["api_key_events"]
  /\ throws = 0 /\ pc \notin {"events_create", "events_copy", "events_drop"} =>
       db.rows["api_key_events_old"] = {}

SchemaVarTypes ==
  /\ pc \in Steps \cup {"down", "up"}
  /\ saved \in Storage
  /\ edited \in {"never", "during", "after"}
  /\ owed \subseteq Mails \cup Audits \cup {Rename} /\ throws \in 0 .. MaxThrows /\ swallowed \in BOOLEAN

SchemaInductive ==
  /\ SchemaVarTypes
  /\ StorageFits(db)
  /\ pc \in Steps => StorageFits(saved) /\ saved.version = db.version
  /\ ColumnsMade
  /\ RowsMoved

\* A statement that moves only the place and the storage.
LEMMA RunKeeps ==
  ASSUME SchemaInductive, NEW here \in Steps, NEW next \in Steps, Run(here, next),
         NEW d, db' = d, d \in Storage, ColumnsFit(d), RowsFit(d), CopyFits(d),
         d.version = db.version, ColumnsMade', RowsMoved'
  PROVE  SchemaInductive'
<1>1. /\ pc = here /\ pc' = next
      /\ UNCHANGED <<saved, edited, owed, throws, swallowed>>
  BY DEF Run
<1>2. SchemaVarTypes'
  BY <1>1 DEF SchemaInductive, SchemaVarTypes
<1>3. StorageFits(d)'
  BY <1>1 DEF StorageFits, ColumnsFit, RowsFit, CopyFits
<1>4. StorageFits(db)'
  BY <1>3 DEF StorageFits, ColumnsFit, RowsFit, CopyFits
<1>5. PICK s : s = saved
  OBVIOUS
<1>6. StorageFits(s) /\ s.version = db.version
  BY <1>1, <1>5 DEF SchemaInductive
<1>7. StorageFits(s)'
  BY <1>1, <1>6 DEF StorageFits, ColumnsFit, RowsFit, CopyFits
<1>8. StorageFits(saved)' /\ saved'.version = d.version
  BY <1>1, <1>5, <1>6, <1>7 DEF StorageFits, ColumnsFit, RowsFit, CopyFits
<1> QED
  BY <1>2, <1>4, <1>8 DEF SchemaInductive

\* A storage that has some more columns, or the index.
Widened(d) ==
  /\ d \in Storage /\ d.version = db.version /\ d.tables = db.tables
  /\ db.cols \subseteq d.cols /\ (db.unique => d.unique)
  /\ d.rows = db.rows /\ d.searchable = db.searchable
  /\ d.body = db.body /\ d.draft = db.draft /\ d.late = db.late /\ d.drafts = db.drafts

LEMMA WidenedFits ==
  ASSUME StorageFits(db), NEW d, Widened(d)
  PROVE  ColumnsFit(d) /\ RowsFit(d) /\ CopyFits(d)
<1>1. ColumnsFit(d)
  BY DEF StorageFits, ColumnsFit, Widened
<1>2. RowsFit(d)
  BY DEF StorageFits, RowsFit, Widened
<1>3. CopyFits(d)
  BY DEF StorageFits, CopyFits, Widened
<1> QED
  BY <1>1, <1>2, <1>3

LEMMA AddedColumn ==
  ASSUME SchemaInductive, NEW v, NEW c \in AllColumns, NEW here, NEW next,
         addColumn(v, c, here, next)
  PROVE  /\ Widened(db') /\ Run(here, next)
         /\ saved.version < v => c \in db'.cols
         /\ \A t \in Steps : pc = t => saved.version = db.version
<1>1. db \in Storage
  BY DEF SchemaInductive, StorageFits
<1>2. Run(here, next) /\ db' = IF saved.version < v THEN [db EXCEPT !.cols = db.cols \cup {c}] ELSE db
  BY DEF addColumn, Pending, getAppliedSchemaVersion
<1>3. CASE saved.version < v
  <2>1. PICK cols : cols = db.cols \cup {c}
    OBVIOUS
  <2>2. cols \in SUBSET AllColumns
    BY <1>1, <2>1 DEF Storage
  <2>3. db' = [db EXCEPT !.cols = cols]
    BY <1>2, <1>3, <2>1
  <2> HIDE DEF AllColumns
  <2>4. Widened(db') /\ c \in db'.cols
    BY <1>1, <2>1, <2>2, <2>3 DEF Widened, Storage
  <2> QED
    BY <1>2, <2>4 DEF SchemaInductive
<1>4. CASE ~(saved.version < v)
  BY <1>1, <1>2, <1>4 DEF Widened, SchemaInductive
<1> QED
  BY <1>3, <1>4

\* Where each step stands.
LEMMA After ==
  /\ AfterEvents = {"backfill", "record", "up"}
  /\ AfterSenderName = {"events", "events_create", "events_copy", "events_drop",
                        "backfill", "record", "up"}
  /\ AfterResolved = {"sender_name", "events", "events_create", "events_copy", "events_drop",
                      "backfill", "record", "up"}
  /\ AfterParent = {"resolved", "sender_name", "events", "events_create", "events_copy",
                    "events_drop", "backfill", "record", "up"}
  /\ AfterDelivery = {"parent", "resolved", "sender_name", "events", "events_create",
                      "events_copy", "events_drop", "backfill", "record", "up"}
  /\ AfterUnique = {"delivery", "parent", "resolved", "sender_name", "events", "events_create",
                    "events_copy", "events_drop", "backfill", "record", "up"}
  /\ AfterIdempotency = {"unique", "delivery", "parent", "resolved", "sender_name", "events",
                         "events_create", "events_copy", "events_drop", "backfill", "record", "up"}
  /\ AfterLegacy = {"drafts", "unique", "delivery", "parent", "resolved", "sender_name", "events",
                    "events_create", "events_copy", "events_drop", "backfill", "record", "up"}
  /\ AfterTables = {"rebuild", "legacy", "drafts", "unique", "delivery", "parent", "resolved",
                    "sender_name", "events", "events_create", "events_copy", "events_drop",
                    "backfill", "record", "up"}
BY DEF AfterEvents, AfterSenderName, AfterResolved, AfterParent, AfterDelivery, AfterUnique,
       AfterIdempotency, AfterLegacy, AfterTables

LEMMA IdempotencyKeeps ==
  ASSUME SchemaInductive, addColumn(2, "idempotency_key", "drafts", "unique")
  PROVE  SchemaInductive'
<1>1. "idempotency_key" \in AllColumns
  BY DEF AllColumns, Tables, Columns
<1>2. /\ Widened(db') /\ Run("drafts", "unique")
      /\ saved.version < 2 => "idempotency_key" \in db'.cols
  BY <1>1, AddedColumn
<1>3. pc = "drafts" /\ pc' = "unique" /\ "drafts" \in Steps /\ "unique" \in Steps
  BY <1>2 DEF Run, Steps
<1>4. "idempotency_key" \in db'.cols
  <2>1. saved.version = db.version /\ db.version \in Nat /\ saved.version \in Nat
    BY <1>3 DEF SchemaInductive, StorageFits, Storage, MAILBOX_SCHEMA_VERSION
  <2>2. "outbound_drafts" \in db.tables
    BY <1>3, After DEF SchemaInductive, ColumnsMade, Tables, Columns
  <2>3. saved.version >= 2 => "idempotency_key" \in db.cols
    BY <2>1, <2>2 DEF SchemaInductive, StorageFits, ColumnsFit
  <2> QED
    BY <1>2, <2>1, <2>3 DEF Widened
<1>5. ColumnsMade'
  BY <1>2, <1>3, <1>4, After DEF Widened, SchemaInductive, ColumnsMade
<1>6. RowsMoved'
  BY <1>2, <1>3, After DEF Widened, Run, SchemaInductive, RowsMoved
<1>7. PICK d : d = db'
  OBVIOUS
<1>8. Widened(d) /\ StorageFits(db)
  BY <1>2, <1>7 DEF SchemaInductive
<1> QED
  BY <1>2, <1>3, <1>5, <1>6, <1>7, <1>8, WidenedFits, RunKeeps DEF Widened

LEMMA DeliveryKeeps ==
  ASSUME SchemaInductive, migrateDeliveryEventColumns
  PROVE  SchemaInductive'
<1>1. "delivery_status" \in AllColumns
  BY DEF AllColumns, Tables, Columns
<1>2. /\ Widened(db') /\ Run("delivery", "parent")
      /\ saved.version < 3 => "delivery_status" \in db'.cols
  BY <1>1, AddedColumn DEF migrateDeliveryEventColumns
<1>3. pc = "delivery" /\ pc' = "parent" /\ "delivery" \in Steps /\ "parent" \in Steps
  BY <1>2 DEF Run, Steps
<1>4. "delivery_status" \in db'.cols
  <2>1. saved.version = db.version /\ db.version \in Nat /\ saved.version \in Nat
    BY <1>3 DEF SchemaInductive, StorageFits, Storage, MAILBOX_SCHEMA_VERSION
  <2>2. "transactional_requests" \in db.tables
    BY <1>3, After DEF SchemaInductive, ColumnsMade, Tables, Columns
  <2>3. saved.version >= 3 => "delivery_status" \in db.cols
    BY <2>1, <2>2 DEF SchemaInductive, StorageFits, ColumnsFit
  <2> QED
    BY <1>2, <2>1, <2>3 DEF Widened
<1>5. ColumnsMade'
  BY <1>2, <1>3, <1>4, After DEF Widened, SchemaInductive, ColumnsMade
<1>6. RowsMoved'
  BY <1>2, <1>3, After DEF Widened, Run, SchemaInductive, RowsMoved
<1>7. PICK d : d = db'
  OBVIOUS
<1>8. Widened(d) /\ StorageFits(db)
  BY <1>2, <1>7 DEF SchemaInductive
<1> QED
  BY <1>2, <1>3, <1>5, <1>6, <1>7, <1>8, WidenedFits, RunKeeps DEF Widened

LEMMA ParentKeeps ==
  ASSUME SchemaInductive, migrateDraftParentMessage
  PROVE  SchemaInductive'
<1>1. "parent_message_id" \in AllColumns
  BY DEF AllColumns, Tables, Columns
<1>2. /\ Widened(db') /\ Run("parent", "resolved")
      /\ saved.version < 4 => "parent_message_id" \in db'.cols
  BY <1>1, AddedColumn DEF migrateDraftParentMessage
<1>3. pc = "parent" /\ pc' = "resolved" /\ "parent" \in Steps /\ "resolved" \in Steps
  BY <1>2 DEF Run, Steps
<1>4. "parent_message_id" \in db'.cols
  <2>1. saved.version = db.version /\ db.version \in Nat /\ saved.version \in Nat
    BY <1>3 DEF SchemaInductive, StorageFits, Storage, MAILBOX_SCHEMA_VERSION
  <2>2. "outbound_drafts" \in db.tables
    BY <1>3, After DEF SchemaInductive, ColumnsMade, Tables, Columns
  <2>3. saved.version >= 4 => "parent_message_id" \in db.cols
    BY <2>1, <2>2 DEF SchemaInductive, StorageFits, ColumnsFit
  <2> QED
    BY <1>2, <2>1, <2>3 DEF Widened
<1>5. ColumnsMade'
  BY <1>2, <1>3, <1>4, After DEF Widened, SchemaInductive, ColumnsMade
<1>6. RowsMoved'
  BY <1>2, <1>3, After DEF Widened, Run, SchemaInductive, RowsMoved
<1>7. PICK d : d = db'
  OBVIOUS
<1>8. Widened(d) /\ StorageFits(db)
  BY <1>2, <1>7 DEF SchemaInductive
<1> QED
  BY <1>2, <1>3, <1>5, <1>6, <1>7, <1>8, WidenedFits, RunKeeps DEF Widened

LEMMA ResolvedKeeps ==
  ASSUME SchemaInductive, migrateResolvedViaColumn
  PROVE  SchemaInductive'
<1>1. "resolved_via" \in AllColumns
  BY DEF AllColumns, Tables, Columns
<1>2. /\ Widened(db') /\ Run("resolved", "sender_name")
      /\ saved.version < 5 => "resolved_via" \in db'.cols
  BY <1>1, AddedColumn DEF migrateResolvedViaColumn
<1>3. pc = "resolved" /\ pc' = "sender_name" /\ "resolved" \in Steps /\ "sender_name" \in Steps
  BY <1>2 DEF Run, Steps
<1>4. "resolved_via" \in db'.cols
  <2>1. saved.version = db.version /\ db.version \in Nat /\ saved.version \in Nat
    BY <1>3 DEF SchemaInductive, StorageFits, Storage, MAILBOX_SCHEMA_VERSION
  <2>2. "transactional_requests" \in db.tables
    BY <1>3, After DEF SchemaInductive, ColumnsMade, Tables, Columns
  <2>3. saved.version >= 5 => "resolved_via" \in db.cols
    BY <2>1, <2>2 DEF SchemaInductive, StorageFits, ColumnsFit
  <2> QED
    BY <1>2, <2>1, <2>3 DEF Widened
<1>5. ColumnsMade'
  BY <1>2, <1>3, <1>4, After DEF Widened, SchemaInductive, ColumnsMade
<1>6. RowsMoved'
  BY <1>2, <1>3, After DEF Widened, Run, SchemaInductive, RowsMoved
<1>7. PICK d : d = db'
  OBVIOUS
<1>8. Widened(d) /\ StorageFits(db)
  BY <1>2, <1>7 DEF SchemaInductive
<1> QED
  BY <1>2, <1>3, <1>5, <1>6, <1>7, <1>8, WidenedFits, RunKeeps DEF Widened

LEMMA SenderNameKeeps ==
  ASSUME SchemaInductive, migrateApiKeySenderName
  PROVE  SchemaInductive'
<1>1. "sender_name" \in AllColumns
  BY DEF AllColumns, Tables, Columns
<1>2. /\ Widened(db') /\ Run("sender_name", "events")
      /\ saved.version < 6 => "sender_name" \in db'.cols
  BY <1>1, AddedColumn DEF migrateApiKeySenderName
<1>3. pc = "sender_name" /\ pc' = "events" /\ "sender_name" \in Steps /\ "events" \in Steps
  BY <1>2 DEF Run, Steps
<1>4. "sender_name" \in db'.cols
  <2>1. saved.version = db.version /\ db.version \in Nat /\ saved.version \in Nat
    BY <1>3 DEF SchemaInductive, StorageFits, Storage, MAILBOX_SCHEMA_VERSION
  <2>2. "api_keys" \in db.tables
    BY <1>3, After DEF SchemaInductive, ColumnsMade, Tables, Columns
  <2>3. saved.version >= 6 => "sender_name" \in db.cols
    BY <2>1, <2>2 DEF SchemaInductive, StorageFits, ColumnsFit
  <2> QED
    BY <1>2, <2>1, <2>3 DEF Widened
<1>5. ColumnsMade'
  BY <1>2, <1>3, <1>4, After DEF Widened, SchemaInductive, ColumnsMade
<1>6. RowsMoved'
  BY <1>2, <1>3, After DEF Widened, Run, SchemaInductive, RowsMoved
<1>7. PICK d : d = db'
  OBVIOUS
<1>8. Widened(d) /\ StorageFits(db)
  BY <1>2, <1>7 DEF SchemaInductive
<1> QED
  BY <1>2, <1>3, <1>5, <1>6, <1>7, <1>8, WidenedFits, RunKeeps DEF Widened

LEMMA UniqueKeeps ==
  ASSUME SchemaInductive, Run("unique", "delivery"),
         db' = IF Pending(2) THEN [db EXCEPT !.unique = TRUE] ELSE db
  PROVE  SchemaInductive'
<1>1. pc = "unique" /\ pc' = "delivery" /\ "unique" \in Steps /\ "delivery" \in Steps
  BY DEF Run, Steps
<1>2. db \in Storage /\ saved.version = db.version /\ db.version \in Nat /\ StorageFits(db)
  BY <1>1 DEF SchemaInductive, StorageFits, Storage, MAILBOX_SCHEMA_VERSION
<1>3. Widened(db') /\ db'.unique
  <2>1. CASE saved.version < 2
    <3>1. db' = [db EXCEPT !.unique = TRUE]
      BY <2>1 DEF Pending, getAppliedSchemaVersion
    <3> QED
      BY <1>2, <3>1 DEF Widened, Storage
  <2>2. CASE ~(saved.version < 2)
    BY <1>2, <2>2 DEF Widened, StorageFits, ColumnsFit, Pending, getAppliedSchemaVersion
  <2> QED
    BY <2>1, <2>2
<1>4. ColumnsMade'
  BY <1>1, <1>3, After DEF Widened, SchemaInductive, ColumnsMade
<1>5. RowsMoved'
  BY <1>1, <1>3, After DEF Widened, Run, SchemaInductive, RowsMoved
<1>6. PICK d : d = db'
  OBVIOUS
<1> QED
  BY <1>1, <1>2, <1>3, <1>4, <1>5, <1>6, WidenedFits, RunKeeps DEF Widened

\* A table moved aside, and tables created.
LEMMA Moved ==
  ASSUME db \in Storage,
         NEW from \in {"messages", "api_key_events"},
         NEW to \in Aside, NEW d, d = Move(from, to)
  PROVE  /\ d \in Storage
         /\ d.version = db.version /\ d.unique = db.unique /\ d.drafts = db.drafts
         /\ d.searchable = db.searchable
         /\ d.body = db.body /\ d.draft = db.draft /\ d.late = db.late
         /\ d.tables = (db.tables \ {from}) \cup {to}
         /\ d.cols = db.cols \ Columns[from]
         /\ d.rows[to] = db.rows[from] /\ d.rows[from] = {}
         /\ \A t \in Kept \ {from, to} : d.rows[t] = db.rows[t]
<1>1. PICK tables, cols, held :
        /\ tables = (db.tables \ {from}) \cup {to}
        /\ cols = db.cols \ Columns[from]
        /\ held = [db.rows EXCEPT ![to] = db.rows[from], ![from] = {}]
  OBVIOUS
<1>2. from \in Kept /\ to \in Kept /\ from # to /\ from \in Tables
  BY DEF Kept, Aside, Tables, Columns
<1>3. d = [db EXCEPT !.tables = tables, !.cols = cols, !.rows = held]
  BY <1>1 DEF Move, Storage
<1>4. /\ tables \in SUBSET (Tables \cup Aside) /\ cols \in SUBSET AllColumns
      /\ held \in [Kept -> SUBSET (Mails \cup Audits \cup {Rename})]
      /\ held[to] = db.rows[from] /\ held[from] = {}
      /\ \A t \in Kept \ {from, to} : held[t] = db.rows[t]
  BY <1>1, <1>2 DEF Storage
<1> QED
  BY <1>1, <1>3, <1>4 DEF Storage

LEMMA Created ==
  ASSUME db \in Storage, NEW tables \in SUBSET Tables, NEW d, d = Create(tables)
  PROVE  /\ d \in Storage
         /\ d.version = db.version /\ d.unique = db.unique /\ d.drafts = db.drafts
         /\ d.searchable = db.searchable /\ d.rows = db.rows
         /\ d.body = db.body /\ d.draft = db.draft /\ d.late = db.late
         /\ d.tables = db.tables \cup tables
         /\ db.cols \subseteq d.cols
         /\ \A t \in tables \ db.tables : Columns[t] \subseteq d.cols
<1>1. PICK all, cols : /\ all = db.tables \cup tables
                       /\ cols = db.cols \cup UNION {Columns[t] : t \in tables \ db.tables}
  OBVIOUS
<1>2. d = [db EXCEPT !.tables = all, !.cols = cols]
  BY <1>1 DEF Create
<1>3. /\ db.cols \subseteq cols /\ cols \in SUBSET AllColumns
      /\ \A t \in tables \ db.tables : Columns[t] \subseteq cols
  BY <1>1 DEF Storage, AllColumns
<1>4. all \in SUBSET (Tables \cup Aside)
  BY <1>1 DEF Storage
<1> QED
  BY <1>1, <1>2, <1>3, <1>4 DEF Storage

LEMMA Names ==
  /\ Tables = {"messages", "outbound_drafts", "transactional_requests", "api_keys", "api_key_events"}
  /\ Aside = {"messages_legacy_v0", "api_key_events_old"}
  /\ Kept = {"messages", "api_key_events", "messages_legacy_v0", "api_key_events_old"}
  /\ Columns["messages"] = {"thread_id"}
  /\ Columns["outbound_drafts"] = {"idempotency_key", "parent_message_id"}
  /\ Columns["transactional_requests"] = {"delivery_status", "resolved_via"}
  /\ Columns["api_keys"] = {"sender_name"}
  /\ Columns["api_key_events"] = {"sender_name_updated"}
BY DEF Tables, Columns, Kept, Aside

LEMMA RenameKeeps ==
  ASSUME SchemaInductive, renameLegacyMessagesBeforeSchema
  PROVE  SchemaInductive'
<1>1. /\ pc = "rename" /\ pc' = "schema" /\ Run("rename", "schema")
      /\ "rename" \in Steps /\ "schema" \in Steps
  BY DEF renameLegacyMessagesBeforeSchema, Run, Steps
<1>2. /\ db \in Storage /\ saved.version = db.version /\ db.version \in Nat /\ StorageFits(db)
      /\ ColumnsFit(db) /\ RowsFit(db) /\ CopyFits(db)
  BY <1>1 DEF SchemaInductive, StorageFits, Storage, MAILBOX_SCHEMA_VERSION
<1>3. throws = 0 => db.rows["api_key_events_old"] = {}
  BY <1>1 DEF SchemaInductive, RowsMoved
<1>4. CASE db.version < 1 /\ "messages" \in db.tables /\ "messages_legacy_v0" \notin db.tables
           /\ "thread_id" \notin db.cols
  <2>1. PICK d : d = Move("messages", "messages_legacy_v0")
    OBVIOUS
  <2>2. db' = d
    BY <1>2, <1>4, <2>1 DEF renameLegacyMessagesBeforeSchema, Pending, getAppliedSchemaVersion
  <2>3. /\ d \in Storage
        /\ d.version = db.version /\ d.unique = db.unique /\ d.drafts = db.drafts
        /\ d.searchable = db.searchable
        /\ d.body = db.body /\ d.draft = db.draft /\ d.late = db.late
        /\ d.tables = (db.tables \ {"messages"}) \cup {"messages_legacy_v0"}
        /\ d.cols = db.cols \ {"thread_id"}
        /\ d.rows["messages_legacy_v0"] = db.rows["messages"] /\ d.rows["messages"] = {}
        /\ d.rows["api_key_events"] = db.rows["api_key_events"]
        /\ d.rows["api_key_events_old"] = db.rows["api_key_events_old"]
    BY <1>2, <2>1, Moved, Names
  <2>4. ColumnsFit(d)
    BY <1>2, <1>4, <2>3 DEF ColumnsFit
  <2>5. RowsFit(d)
    BY <1>2, <1>4, <2>3 DEF RowsFit
  <2>6. CopyFits(d)
    BY <1>2, <2>3 DEF CopyFits
  <2>7. ColumnsMade' /\ RowsMoved'
    BY <1>1, <1>3, <2>2, <2>3, After DEF ColumnsMade, RowsMoved, Run
  <2> QED
    BY <1>1, <2>2, <2>3, <2>4, <2>5, <2>6, <2>7, RunKeeps
<1>5. CASE ~(db.version < 1 /\ "messages" \in db.tables /\ "messages_legacy_v0" \notin db.tables
             /\ "thread_id" \notin db.cols)
  <2>1. db' = db
    BY <1>2, <1>5 DEF renameLegacyMessagesBeforeSchema, Pending, getAppliedSchemaVersion
  <2>2. "messages" \in db.tables => "thread_id" \in db.cols
    BY <1>2, <1>5 DEF ColumnsFit, RowsFit
  <2>3. ColumnsMade' /\ RowsMoved'
    BY <1>1, <1>3, <2>1, <2>2, After DEF ColumnsMade, RowsMoved, Run
  <2> QED
    BY <1>1, <1>2, <2>1, <2>3, RunKeeps
<1> QED
  BY <1>4, <1>5

LEMMA SchemaKeeps ==
  ASSUME SchemaInductive, MailboxSchemaSql
  PROVE  SchemaInductive'
<1>1. /\ pc = "schema" /\ pc' = AfterSchema /\ Run("schema", AfterSchema)
      /\ "schema" \in Steps /\ AfterSchema \in Steps /\ AfterSchema \in {"rebuild", "drafts"}
  BY DEF MailboxSchemaSql, Run, Steps, AfterSchema
<1>2. /\ db \in Storage /\ saved.version = db.version /\ db.version \in Nat /\ StorageFits(db)
      /\ ColumnsFit(db) /\ RowsFit(db) /\ CopyFits(db)
  BY <1>1 DEF SchemaInductive, StorageFits, Storage, MAILBOX_SCHEMA_VERSION
<1>3. /\ throws = 0 => db.rows["api_key_events_old"] = {}
      /\ "messages" \in db.tables => "thread_id" \in db.cols
  BY <1>1 DEF SchemaInductive, RowsMoved, ColumnsMade
<1>4. PICK d : d = Create(Tables)
  OBVIOUS
<1>5. db' = d
  BY <1>4 DEF MailboxSchemaSql
<1>6. /\ d \in Storage
      /\ d.version = db.version /\ d.unique = db.unique /\ d.drafts = db.drafts
      /\ d.searchable = db.searchable /\ d.rows = db.rows
      /\ d.body = db.body /\ d.draft = db.draft /\ d.late = db.late
      /\ d.tables = db.tables \cup Tables
      /\ db.cols \subseteq d.cols
      /\ \A t \in Tables \ db.tables : Columns[t] \subseteq d.cols
  BY <1>2, <1>4, Created
<1>7. /\ "messages" \in db.tables \/ "thread_id" \in d.cols
      /\ "outbound_drafts" \in db.tables \/ {"idempotency_key", "parent_message_id"} \subseteq d.cols
      /\ "transactional_requests" \in db.tables \/ {"delivery_status", "resolved_via"} \subseteq d.cols
      /\ "api_keys" \in db.tables \/ "sender_name" \in d.cols
      /\ "api_key_events" \in db.tables \/ "sender_name_updated" \in d.cols
  BY <1>6, Names
<1>8. "thread_id" \in d.cols
  BY <1>3, <1>6, <1>7
<1>9. ColumnsFit(d)
  BY <1>2, <1>6, <1>7, <1>8 DEF ColumnsFit
<1>10. RowsFit(d)
  BY <1>2, <1>6, <1>7, <1>8 DEF RowsFit
<1>11. CopyFits(d)
  BY <1>2, <1>6 DEF CopyFits
<1>12. ColumnsMade'
  <2>1. AfterSchema = "rebuild" => db.version = 0
    BY <1>2 DEF AfterSchema, Pending, getAppliedSchemaVersion
  <2> QED
    BY <1>1, <1>5, <1>6, <1>8, <2>1, After, Names DEF ColumnsMade
<1>13. RowsMoved'
  <2>1. AfterSchema = "drafts" => db.version >= 1
    BY <1>2 DEF AfterSchema, Pending, getAppliedSchemaVersion
  <2> QED
    BY <1>1, <1>2, <1>3, <1>5, <1>6, <2>1, After DEF RowsMoved, RowsFit, Run
<1> QED
  BY <1>1, <1>5, <1>6, <1>9, <1>10, <1>11, <1>12, <1>13, RunKeeps

\* A storage whose rows changed, and its table list where the old one is dropped.
Rerowed(d, dropped) ==
  /\ d \in Storage /\ d.version = db.version /\ d.tables = db.tables \ dropped
  /\ d.cols = db.cols /\ d.unique = db.unique
  /\ d.body = db.body /\ d.draft = db.draft /\ d.late = db.late /\ d.drafts = db.drafts

IsRerowed(d, t, held, dropped) ==
  d = [db EXCEPT !.tables = db.tables \ dropped, !.rows = [db.rows EXCEPT ![t] = held]]

RowsAre(d, t, held) ==
  /\ d.searchable = db.searchable
  /\ d.rows[t] = held /\ \A u \in Kept \ {t} : d.rows[u] = db.rows[u]

LEMMA RowsSet ==
  ASSUME db \in Storage, NEW t \in Kept, NEW held \in SUBSET (Mails \cup Audits \cup {Rename}),
         NEW dropped \in SUBSET Aside,
         NEW d, IsRerowed(d, t, held, dropped)
  PROVE  Rerowed(d, dropped) /\ RowsAre(d, t, held)
<1>1. PICK all, new : all = db.tables \ dropped /\ new = [db.rows EXCEPT ![t] = held]
  OBVIOUS
<1>2. d = [db EXCEPT !.tables = all, !.rows = new]
  BY <1>1 DEF IsRerowed
<1>3. all \in SUBSET (Tables \cup Aside)
  BY <1>1 DEF Storage
<1>4. new \in [Kept -> SUBSET (Mails \cup Audits \cup {Rename})]
  BY <1>1 DEF Storage
<1>5. new[t] = held /\ \A u \in Kept \ {t} : new[u] = db.rows[u]
  BY <1>1 DEF Storage
<1> QED
  BY <1>1, <1>2, <1>3, <1>4, <1>5 DEF Rerowed, Storage, RowsAre

\* Rows that change leave the columns and the sent copy as they are.
LEMMA RerowedFits ==
  ASSUME StorageFits(db), NEW d, NEW dropped, dropped \in SUBSET Aside, Rerowed(d, dropped)
  PROVE  ColumnsFit(d) /\ CopyFits(d)
<1>1. ColumnsFit(d)
  BY Names DEF StorageFits, ColumnsFit, Rerowed
<1> QED
  BY <1>1 DEF StorageFits, CopyFits, Rerowed

LEMMA RerowedMakes ==
  ASSUME ColumnsMade, NEW d, NEW dropped, dropped \in SUBSET Aside, Rerowed(d, dropped),
         db' = d, NEW next, pc' = next,
         \/ pc = "rebuild" /\ next \in {"rebuild", "legacy"}
         \/ pc = "legacy" /\ next = "drafts"
         \/ pc = "events_copy" /\ next = "events_drop"
         \/ pc = "events_drop" /\ next = "backfill"
  PROVE  ColumnsMade'
<1>1. d.cols = db.cols /\ d.unique = db.unique /\ d.version = db.version
      /\ d.tables = db.tables \ dropped
  BY DEF Rerowed
<1>2. Tables \cap Aside = {}
  BY Names
<1> QED
  BY <1>1, <1>2, After, Names DEF ColumnsMade

LEMMA CopyRowKeeps ==
  ASSUME SchemaInductive, Run("rebuild", "rebuild"),
         NEW m \in db.rows["messages_legacy_v0"] \ db.rows["messages"],
         NEW d, db' = d, NEW held, held = db.rows["messages"] \cup {m},
         IsRerowed(d, "messages", held, {})
  PROVE  SchemaInductive'
<1>1. pc = "rebuild" /\ pc' = "rebuild" /\ "rebuild" \in Steps
  BY DEF Run, Steps
<1>2. /\ db \in Storage /\ StorageFits(db) /\ RowsFit(db) /\ db.version = 0
  BY <1>1 DEF SchemaInductive, StorageFits, ColumnsMade
<1>3. held \in SUBSET (Mails \cup Audits \cup {Rename}) /\ "messages" \in Kept
  BY <1>2, Names DEF Storage
<1>4. /\ Rerowed(d, {}) /\ d.searchable = db.searchable /\ d.rows["messages"] = held
      /\ \A u \in Kept \ {"messages"} : d.rows[u] = db.rows[u]
  <2>1. PICK t, gone : t = "messages" /\ gone = {}
    OBVIOUS
  <2>2. /\ db \in Storage /\ t \in Kept /\ gone \in SUBSET Aside
        /\ held \in SUBSET (Mails \cup Audits \cup {Rename}) /\ IsRerowed(d, t, held, gone)
    BY <1>2, <1>3, <2>1
  <2>3. Rerowed(d, gone) /\ RowsAre(d, t, held)
    BY <2>2, RowsSet
  <2> QED
    BY <2>1, <2>3 DEF RowsAre
<1>5. RowsFit(d)
  BY <1>2, <1>4, Names DEF RowsFit, Rerowed
<1>6. ColumnsFit(d) /\ CopyFits(d)
  BY <1>2, <1>4, RerowedFits
<1>7. ColumnsMade'
  BY <1>1, <1>4, RerowedMakes DEF SchemaInductive
<1>8. RowsMoved'
  BY <1>1, <1>4, After, Names DEF RowsMoved, Run, SchemaInductive
<1> QED
  BY <1>1, <1>4, <1>5, <1>6, <1>7, <1>8, RunKeeps DEF Rerowed

LEMMA DropLegacyKeeps ==
  ASSUME SchemaInductive, Run("rebuild", "legacy"),
         db.rows["messages_legacy_v0"] \subseteq db.rows["messages"],
         NEW d, db' = d, NEW held, held = {}, NEW dropped, dropped = {"messages_legacy_v0"},
         IsRerowed(d, "messages_legacy_v0", held, dropped)
  PROVE  SchemaInductive'
<1>1. pc = "rebuild" /\ pc' = "legacy" /\ "rebuild" \in Steps /\ "legacy" \in Steps
  BY DEF Run, Steps
<1>2. /\ db \in Storage /\ StorageFits(db) /\ RowsFit(db) /\ db.version = 0
  BY <1>1 DEF SchemaInductive, StorageFits, ColumnsMade
<1>3. /\ held \in SUBSET (Mails \cup Audits \cup {Rename}) /\ "messages_legacy_v0" \in Kept
      /\ dropped \in SUBSET Aside
  BY Names
<1>4. /\ Rerowed(d, dropped) /\ d.searchable = db.searchable /\ d.rows["messages_legacy_v0"] = {}
      /\ \A u \in Kept \ {"messages_legacy_v0"} : d.rows[u] = db.rows[u]
  <2>1. PICK t, gone : t = "messages_legacy_v0" /\ gone = dropped
    OBVIOUS
  <2>2. /\ db \in Storage /\ t \in Kept /\ gone \in SUBSET Aside
        /\ held \in SUBSET (Mails \cup Audits \cup {Rename}) /\ IsRerowed(d, t, held, gone)
    BY <1>2, <1>3, <2>1
  <2>3. Rerowed(d, gone) /\ RowsAre(d, t, held)
    BY <2>2, RowsSet
  <2> QED
    BY <2>1, <2>3 DEF RowsAre
<1>5. RowsFit(d)
  BY <1>2, <1>4, Names DEF RowsFit, Rerowed
<1>6. ColumnsFit(d) /\ CopyFits(d)
  BY <1>2, <1>3, <1>4, RerowedFits
<1>7. ColumnsMade'
  BY <1>1, <1>3, <1>4, RerowedMakes DEF SchemaInductive
<1>8. RowsMoved'
  BY <1>1, <1>4, After, Names DEF RowsMoved, Run, SchemaInductive
<1> QED
  BY <1>1, <1>4, <1>5, <1>6, <1>7, <1>8, RunKeeps DEF Rerowed

LEMMA LegacyKeeps ==
  ASSUME SchemaInductive, migrateLegacySchema
  PROVE  SchemaInductive'
<1>1. /\ pc = "legacy" /\ pc' = "drafts" /\ "legacy" \in Steps /\ "drafts" \in Steps
      /\ Run("legacy", "drafts")
  BY DEF migrateLegacySchema, Run, Steps
<1>2. /\ db \in Storage /\ StorageFits(db) /\ RowsFit(db) /\ db.version = 0
      /\ "thread_id" \in db.cols
  BY <1>1, After DEF SchemaInductive, StorageFits, ColumnsMade
<1>3. PICK found, d : /\ found = db.searchable \cup db.rows["messages"]
                      /\ d = [db EXCEPT !.searchable = found]
  OBVIOUS
<1>4. db' = d
  BY <1>3 DEF migrateLegacySchema
<1>5. found = db.rows["messages"]
  BY <1>2, <1>3 DEF RowsFit
<1>6. db.rows["messages"] \in SUBSET Mails
  BY <1>2 DEF RowsFit
<1>7. Rerowed(d, {}) /\ d.rows = db.rows /\ d.searchable = found
  BY <1>2, <1>3, <1>5, <1>6 DEF Rerowed, Storage
<1>8. RowsFit(d)
  BY <1>2, <1>5, <1>7 DEF RowsFit, Rerowed
<1>9. ColumnsFit(d) /\ CopyFits(d)
  BY <1>2, <1>7, RerowedFits
<1>10. ColumnsMade'
  BY <1>1, <1>4, <1>7, RerowedMakes DEF SchemaInductive
<1>11. RowsMoved'
  BY <1>1, <1>4, <1>5, <1>7, After DEF RowsMoved, Run, SchemaInductive
<1> QED
  BY <1>1, <1>4, <1>7, <1>8, <1>9, <1>10, <1>11, RunKeeps DEF Rerowed

LEMMA MoveEventsKeeps ==
  ASSUME SchemaInductive, Run("events", "events_create"),
         "sender_name_updated" \notin db.cols, db' = Move("api_key_events", "api_key_events_old")
  PROVE  SchemaInductive'
<1>1. pc = "events" /\ pc' = "events_create" /\ "events" \in Steps /\ "events_create" \in Steps
  BY DEF Run, Steps
<1>2. /\ db \in Storage /\ StorageFits(db) /\ RowsFit(db) /\ ColumnsFit(db) /\ CopyFits(db)
      /\ "api_key_events" \in db.tables
  BY <1>1, After DEF SchemaInductive, StorageFits, ColumnsMade
<1>3. PICK d : d = db'
  OBVIOUS
<1>4. /\ d \in Storage
      /\ d.version = db.version /\ d.unique = db.unique /\ d.drafts = db.drafts
      /\ d.searchable = db.searchable
      /\ d.body = db.body /\ d.draft = db.draft /\ d.late = db.late
      /\ d.tables = (db.tables \ {"api_key_events"}) \cup {"api_key_events_old"}
      /\ d.cols = db.cols \ {"sender_name_updated"}
      /\ d.rows["api_key_events_old"] = db.rows["api_key_events"] /\ d.rows["api_key_events"] = {}
      /\ d.rows["messages"] = db.rows["messages"]
      /\ d.rows["messages_legacy_v0"] = db.rows["messages_legacy_v0"]
  BY <1>2, <1>3, Moved, Names
<1>5. ColumnsFit(d)
  BY <1>2, <1>4 DEF ColumnsFit
<1>6. RowsFit(d)
  BY <1>2, <1>4 DEF RowsFit
<1>7. CopyFits(d)
  BY <1>2, <1>4 DEF CopyFits
<1>8. ColumnsMade'
  BY <1>1, <1>3, <1>4, After, Names DEF ColumnsMade, SchemaInductive
<1>9. RowsMoved'
  BY <1>1, <1>3, <1>4, After DEF RowsMoved, Run, SchemaInductive
<1> QED
  BY <1>1, <1>3, <1>4, <1>5, <1>6, <1>7, <1>8, <1>9, RunKeeps

LEMMA CreateEventsKeeps ==
  ASSUME SchemaInductive, Run("events_create", "events_copy"), db' = Create({"api_key_events"})
  PROVE  SchemaInductive'
<1>1. /\ pc = "events_create" /\ pc' = "events_copy"
      /\ "events_create" \in Steps /\ "events_copy" \in Steps
  BY DEF Run, Steps
<1>2. /\ db \in Storage /\ StorageFits(db) /\ RowsFit(db) /\ ColumnsFit(db) /\ CopyFits(db)
      /\ "api_key_events" \notin db.tables
  BY <1>1, After DEF SchemaInductive, StorageFits, ColumnsMade
<1>3. PICK d, tables : d = db' /\ tables = {"api_key_events"}
  OBVIOUS
<1>4. tables \in SUBSET Tables
  BY <1>3, Names
<1>5. /\ d \in Storage
      /\ d.version = db.version /\ d.unique = db.unique /\ d.drafts = db.drafts
      /\ d.searchable = db.searchable /\ d.rows = db.rows
      /\ d.body = db.body /\ d.draft = db.draft /\ d.late = db.late
      /\ d.tables = db.tables \cup {"api_key_events"}
      /\ db.cols \subseteq d.cols /\ "sender_name_updated" \in d.cols
  BY <1>2, <1>3, <1>4, Created, Names
<1>6. ColumnsFit(d)
  BY <1>2, <1>5 DEF ColumnsFit
<1>7. RowsFit(d)
  BY <1>2, <1>5 DEF RowsFit
<1>8. CopyFits(d)
  BY <1>2, <1>5 DEF CopyFits
<1>9. ColumnsMade'
  BY <1>1, <1>3, <1>5, After, Names DEF ColumnsMade, SchemaInductive
<1>10. RowsMoved'
  BY <1>1, <1>3, <1>5, After DEF RowsMoved, Run, SchemaInductive
<1> QED
  BY <1>1, <1>3, <1>5, <1>6, <1>7, <1>8, <1>9, <1>10, RunKeeps

LEMMA CopyEventsKeeps ==
  ASSUME SchemaInductive, Run("events_copy", "events_drop"),
         NEW d, db' = d,
         NEW held, held = db.rows["api_key_events"] \cup db.rows["api_key_events_old"],
         IsRerowed(d, "api_key_events", held, {})
  PROVE  SchemaInductive'
<1>1. /\ pc = "events_copy" /\ pc' = "events_drop"
      /\ "events_copy" \in Steps /\ "events_drop" \in Steps
  BY DEF Run, Steps
<1>2. db \in Storage /\ StorageFits(db) /\ RowsFit(db)
  BY <1>1 DEF SchemaInductive, StorageFits
<1>3. held \in SUBSET (Mails \cup Audits \cup {Rename}) /\ "api_key_events" \in Kept
  BY <1>2, Names DEF Storage
<1>4. /\ Rerowed(d, {}) /\ d.searchable = db.searchable /\ d.rows["api_key_events"] = held
      /\ \A u \in Kept \ {"api_key_events"} : d.rows[u] = db.rows[u]
  <2>1. PICK t, gone : t = "api_key_events" /\ gone = {}
    OBVIOUS
  <2>2. /\ db \in Storage /\ t \in Kept /\ gone \in SUBSET Aside
        /\ held \in SUBSET (Mails \cup Audits \cup {Rename}) /\ IsRerowed(d, t, held, gone)
    BY <1>2, <1>3, <2>1
  <2>3. Rerowed(d, gone) /\ RowsAre(d, t, held)
    BY <2>2, RowsSet
  <2> QED
    BY <2>1, <2>3 DEF RowsAre
<1>5. RowsFit(d)
  BY <1>2, <1>4, Names DEF RowsFit, Rerowed
<1>6. ColumnsFit(d) /\ CopyFits(d)
  BY <1>2, <1>4, RerowedFits
<1>7. ColumnsMade'
  BY <1>1, <1>4, RerowedMakes DEF SchemaInductive
<1>8. RowsMoved'
  BY <1>1, <1>4, After, Names DEF RowsMoved, Run, SchemaInductive
<1> QED
  BY <1>1, <1>4, <1>5, <1>6, <1>7, <1>8, RunKeeps DEF Rerowed

LEMMA DropEventsKeeps ==
  ASSUME SchemaInductive, Run("events_drop", "backfill"),
         NEW d, db' = d, NEW held, held = {}, NEW dropped, dropped = {"api_key_events_old"},
         IsRerowed(d, "api_key_events_old", held, dropped)
  PROVE  SchemaInductive'
<1>1. /\ pc = "events_drop" /\ pc' = "backfill"
      /\ "events_drop" \in Steps /\ "backfill" \in Steps
  BY DEF Run, Steps
<1>2. /\ db \in Storage /\ StorageFits(db) /\ RowsFit(db)
      /\ db.rows["api_key_events_old"] \subseteq db.rows["api_key_events"]
  BY <1>1 DEF SchemaInductive, StorageFits, RowsMoved
<1>3. /\ held \in SUBSET (Mails \cup Audits \cup {Rename}) /\ "api_key_events_old" \in Kept
      /\ dropped \in SUBSET Aside
  BY Names
<1>4. /\ Rerowed(d, dropped) /\ d.searchable = db.searchable /\ d.rows["api_key_events_old"] = {}
      /\ \A u \in Kept \ {"api_key_events_old"} : d.rows[u] = db.rows[u]
  <2>1. PICK t, gone : t = "api_key_events_old" /\ gone = dropped
    OBVIOUS
  <2>2. /\ db \in Storage /\ t \in Kept /\ gone \in SUBSET Aside
        /\ held \in SUBSET (Mails \cup Audits \cup {Rename}) /\ IsRerowed(d, t, held, gone)
    BY <1>2, <1>3, <2>1
  <2>3. Rerowed(d, gone) /\ RowsAre(d, t, held)
    BY <2>2, RowsSet
  <2> QED
    BY <2>1, <2>3 DEF RowsAre
<1>5. RowsFit(d)
  BY <1>2, <1>4, Names DEF RowsFit, Rerowed
<1>6. ColumnsFit(d) /\ CopyFits(d)
  BY <1>2, <1>3, <1>4, RerowedFits
<1>7. ColumnsMade'
  BY <1>1, <1>3, <1>4, RerowedMakes DEF SchemaInductive
<1>8. RowsMoved'
  BY <1>1, <1>4, After, Names DEF RowsMoved, Run, SchemaInductive
<1> QED
  BY <1>1, <1>4, <1>5, <1>6, <1>7, <1>8, RunKeeps DEF Rerowed

LEMMA EventsKeeps ==
  ASSUME SchemaInductive, migrateApiKeyEventTypes
  PROVE  SchemaInductive'
<1> DEFINE widen == Pending(6) /\ "sender_name_updated" \notin db.cols
<1>1. CASE ~widen /\ Run("events", "backfill") /\ db' = db
  <2>1. /\ pc = "events" /\ pc' = "backfill" /\ "events" \in Steps /\ "backfill" \in Steps
    BY <1>1 DEF Run, Steps
  <2>2. /\ db \in Storage /\ saved.version = db.version /\ db.version \in Nat
        /\ ColumnsFit(db) /\ RowsFit(db) /\ CopyFits(db) /\ "api_key_events" \in db.tables
    BY <2>1, After DEF SchemaInductive, StorageFits, Storage, MAILBOX_SCHEMA_VERSION, ColumnsMade
  <2>3. "sender_name_updated" \in db.cols
    BY <1>1, <2>2 DEF ColumnsFit, Pending, getAppliedSchemaVersion
  <2>4. ColumnsMade'
    BY <1>1, <2>1, <2>3, After DEF ColumnsMade, SchemaInductive
  <2>5. RowsMoved'
    BY <1>1, <2>1, After DEF RowsMoved, Run, SchemaInductive
  <2> QED
    BY <1>1, <2>1, <2>2, <2>4, <2>5, RunKeeps
<1>2. CASE widen /\ Run("events", "events_create") /\ db' = Move("api_key_events", "api_key_events_old")
  BY <1>2, MoveEventsKeeps
<1>3. CASE Run("events_create", "events_copy") /\ db' = Create({"api_key_events"})
  BY <1>3, CreateEventsKeeps
<1>4. CASE /\ Run("events_copy", "events_drop")
           /\ db' = [db EXCEPT !.rows["api_key_events"] = @ \cup db.rows["api_key_events_old"]]
  <2>1. PICK held, d : /\ held = db.rows["api_key_events"] \cup db.rows["api_key_events_old"]
                       /\ d = db'
    OBVIOUS
  <2>2. db \in Storage
    BY DEF SchemaInductive, StorageFits
  <2>3. IsRerowed(d, "api_key_events", held, {})
    BY <1>4, <2>1, <2>2 DEF IsRerowed, Storage
  <2> QED
    BY <1>4, <2>1, <2>3, CopyEventsKeeps
<1>5. CASE /\ Run("events_drop", "backfill")
           /\ db' = [db EXCEPT !.tables = @ \ {"api_key_events_old"}, !.rows["api_key_events_old"] = {}]
  <2>1. PICK held, dropped, d : held = {} /\ dropped = {"api_key_events_old"} /\ d = db'
    OBVIOUS
  <2>2. db \in Storage
    BY DEF SchemaInductive, StorageFits
  <2>3. IsRerowed(d, "api_key_events_old", held, dropped)
    BY <1>5, <2>1, <2>2 DEF IsRerowed, Storage
  <2> QED
    BY <1>5, <2>1, <2>3, DropEventsKeeps
<1> QED
  BY <1>1, <1>2, <1>3, <1>4, <1>5 DEF migrateApiKeyEventTypes

LEMMA RebuildTableKeeps ==
  ASSUME SchemaInductive, rebuildLegacyMessagesTable
  PROVE  SchemaInductive'
<1>1. db \in Storage
  BY DEF SchemaInductive, StorageFits
<1>2. ASSUME NEW m \in db.rows["messages_legacy_v0"] \ db.rows["messages"],
             Run("rebuild", "rebuild"), db' = [db EXCEPT !.rows["messages"] = @ \cup {m}]
      PROVE  SchemaInductive'
  <2>1. PICK held, d : held = db.rows["messages"] \cup {m} /\ d = db'
    OBVIOUS
  <2>2. IsRerowed(d, "messages", held, {})
    BY <1>1, <1>2, <2>1 DEF IsRerowed, Storage
  <2> QED
    BY <1>2, <2>1, <2>2, CopyRowKeeps
<1>3. CASE /\ Run("rebuild", "legacy")
           /\ db.rows["messages_legacy_v0"] \subseteq db.rows["messages"]
           /\ db' = [db EXCEPT !.tables = @ \ {"messages_legacy_v0"}, !.rows["messages_legacy_v0"] = {}]
  <2>1. PICK held, dropped, d : held = {} /\ dropped = {"messages_legacy_v0"} /\ d = db'
    OBVIOUS
  <2>2. IsRerowed(d, "messages_legacy_v0", held, dropped)
    BY <1>1, <1>3, <2>1 DEF IsRerowed, Storage
  <2> QED
    BY <1>3, <2>1, <2>2, DropLegacyKeeps
<1> QED
  BY <1>2, <1>3 DEF rebuildLegacyMessagesTable

LEMMA BackfillKeeps ==
  ASSUME SchemaInductive, backfillSentBodyText
  PROVE  SchemaInductive'
<1>1. /\ pc = "backfill" /\ pc' = "record" /\ Run("backfill", "record")
      /\ "backfill" \in Steps /\ "record" \in Steps
  BY DEF backfillSentBodyText, Run, Steps
<1>2. db \in Storage /\ ColumnsFit(db) /\ RowsFit(db) /\ CopyFits(db)
      /\ edited \in {"never", "during", "after"}
  BY DEF SchemaInductive, StorageFits, SchemaVarTypes
<1>3. PICK d : d = db'
  OBVIOUS
<1>4. d = db \/ (~db.late /\ d = [db EXCEPT !.body = db.draft])
  BY <1>3 DEF backfillSentBodyText
<1>5. /\ d \in Storage /\ d.version = db.version /\ d.tables = db.tables /\ d.cols = db.cols
      /\ d.unique = db.unique /\ d.rows = db.rows /\ d.searchable = db.searchable
      /\ d.draft = db.draft /\ d.late = db.late /\ d.drafts = db.drafts
      /\ d.body = db.body \/ (~db.late /\ d.body = db.draft)
  BY <1>2, <1>4 DEF Storage
<1>6. ColumnsFit(d)
  BY <1>2, <1>5 DEF ColumnsFit
<1>7. RowsFit(d)
  BY <1>2, <1>5 DEF RowsFit
<1>8. CopyFits(d)
  BY <1>2, <1>5 DEF CopyFits
<1>9. ColumnsMade'
  BY <1>1, <1>3, <1>5, After DEF ColumnsMade, SchemaInductive
<1>10. RowsMoved'
  BY <1>1, <1>3, <1>5, After DEF RowsMoved, Run, SchemaInductive
<1> QED
  BY <1>1, <1>3, <1>5, <1>6, <1>7, <1>8, <1>9, <1>10, RunKeeps

\* Outside the constructor only what the storage is counts.
LEMMA RestKeeps ==
  ASSUME NEW d, db' = d, StorageFits(d)', SchemaVarTypes', pc' \notin Steps, ColumnsMade', RowsMoved'
  PROVE  SchemaInductive'
<1>1. StorageFits(db)'
  BY DEF StorageFits, ColumnsFit, RowsFit, CopyFits
<1> QED
  BY <1>1 DEF SchemaInductive

LEMMA RecordKeeps ==
  ASSUME SchemaInductive, RecordVersion
  PROVE  SchemaInductive'
<1>1. /\ pc = "record" /\ pc' = "up" /\ pc' \notin Steps
      /\ UNCHANGED <<saved, edited, owed, throws, swallowed>>
  BY DEF RecordVersion, Run, Steps
<1>2. db \in Storage /\ ColumnsFit(db) /\ RowsFit(db) /\ CopyFits(db)
  BY DEF SchemaInductive, StorageFits
<1>3. PICK d, v : d = db' /\ v = MAILBOX_SCHEMA_VERSION
  OBVIOUS
<1>4. d = [db EXCEPT !.version = v] /\ v \in 0 .. MAILBOX_SCHEMA_VERSION
  BY <1>3 DEF RecordVersion, MAILBOX_SCHEMA_VERSION
<1>5. /\ d \in Storage /\ d.tables = db.tables /\ d.cols = db.cols
      /\ d.unique = db.unique /\ d.rows = db.rows /\ d.searchable = db.searchable
      /\ d.draft = db.draft /\ d.late = db.late /\ d.drafts = db.drafts /\ d.body = db.body
  BY <1>2, <1>4 DEF Storage
<1>6. ColumnsFit(d)
  BY <1>1, <1>2, <1>5, After DEF ColumnsFit, ColumnsMade, SchemaInductive
<1>7. RowsFit(d)
  BY <1>1, <1>2, <1>5, After DEF RowsFit, RowsMoved, SchemaInductive
<1>8. CopyFits(d)
  BY <1>2, <1>5 DEF CopyFits
<1>9. StorageFits(d)'
  BY <1>1, <1>5, <1>6, <1>7, <1>8 DEF StorageFits, ColumnsFit, RowsFit, CopyFits
<1>10. ColumnsMade'
  BY <1>1, <1>3, <1>5, After DEF ColumnsMade, SchemaInductive
<1>11. RowsMoved'
  BY <1>1, <1>3, <1>5, After DEF RowsMoved, SchemaInductive
<1>12. SchemaVarTypes'
  BY <1>1 DEF SchemaVarTypes, SchemaInductive
<1> QED
  BY <1>1, <1>3, <1>9, <1>10, <1>11, <1>12, RestKeeps

LEMMA ColdStartKeeps ==
  ASSUME SchemaInductive, ColdStart
  PROVE  SchemaInductive'
<1>1. /\ pc = "down" /\ pc' = "rename" /\ "rename" \in Steps /\ saved' = db
      /\ UNCHANGED <<db, edited, owed, throws, swallowed>>
  BY DEF ColdStart, Steps
<1>2. PICK d : d = db
  OBVIOUS
<1>3. StorageFits(d) /\ d \in Storage
  BY <1>2 DEF SchemaInductive, StorageFits
<1>4. StorageFits(d)'
  BY <1>1, <1>3 DEF StorageFits, ColumnsFit, RowsFit, CopyFits
<1>5. StorageFits(db)' /\ StorageFits(saved)' /\ saved'.version = db'.version
  BY <1>1, <1>2, <1>4 DEF StorageFits, ColumnsFit, RowsFit, CopyFits
<1>6. SchemaVarTypes'
  BY <1>1, <1>2, <1>3 DEF SchemaVarTypes, SchemaInductive
<1>7. ColumnsMade'
  BY <1>1, After DEF ColumnsMade
<1>8. RowsMoved'
  BY <1>1, After DEF RowsMoved, SchemaInductive
<1> QED
  BY <1>5, <1>6, <1>7, <1>8 DEF SchemaInductive

LEMMA FailureKeeps ==
  ASSUME SchemaInductive, ConstructorFails
  PROVE  SchemaInductive'
<1>1. /\ pc \in Steps /\ pc' = "down" /\ pc' \notin Steps /\ throws < MaxThrows
      /\ throws' = throws + 1 /\ db' \in {db, saved}
      /\ UNCHANGED <<saved, edited, owed, swallowed>>
  BY DEF ConstructorFails, Steps
<1>2. throws \in Nat /\ throws' # 0 /\ SchemaVarTypes'
  BY <1>1, SchemaAssumption DEF SchemaVarTypes, SchemaInductive
<1>3. PICK d : d = db'
  OBVIOUS
<1>4. StorageFits(d)
  BY <1>1, <1>3 DEF SchemaInductive
<1>5. StorageFits(d)'
  BY <1>1, <1>4 DEF StorageFits, ColumnsFit, RowsFit, CopyFits
<1>6. ColumnsMade' /\ RowsMoved'
  BY <1>1, <1>2, After DEF ColumnsMade, RowsMoved
<1> QED
  BY <1>1, <1>2, <1>3, <1>5, <1>6, RestKeeps

LEMMA LegacyFailureKeeps ==
  ASSUME SchemaInductive, LegacyFails
  PROVE  SchemaInductive'
<1>1. /\ pc \in {"rebuild", "legacy"} /\ pc \in Steps /\ pc' = "drafts" /\ throws < MaxThrows
      /\ throws' = throws + 1 /\ swallowed' = TRUE
      /\ UNCHANGED <<db, saved, edited, owed>>
  BY DEF LegacyFails, Steps
<1>2. throws \in Nat /\ throws' # 0 /\ SchemaVarTypes'
  BY <1>1, SchemaAssumption DEF SchemaVarTypes, SchemaInductive, Steps
<1>3. PICK d, s : d = db /\ s = saved
  OBVIOUS
<1>4. StorageFits(d) /\ StorageFits(s) /\ s.version = d.version
  BY <1>1, <1>3 DEF SchemaInductive
<1>5. StorageFits(d)' /\ StorageFits(s)'
  BY <1>1, <1>4 DEF StorageFits, ColumnsFit, RowsFit, CopyFits
<1>6. StorageFits(db)' /\ StorageFits(saved)' /\ saved'.version = db'.version
  BY <1>1, <1>3, <1>4, <1>5 DEF StorageFits, ColumnsFit, RowsFit, CopyFits
<1>7. ColumnsMade' /\ RowsMoved'
  BY <1>1, <1>2, After DEF ColumnsMade, RowsMoved, SchemaInductive
<1> QED
  BY <1>2, <1>6, <1>7 DEF SchemaInductive

LEMMA EvictKeeps ==
  ASSUME SchemaInductive, evict
  PROVE  SchemaInductive'
<1>1. /\ pc = "up" /\ pc' = "down" /\ pc' \notin Steps
      /\ UNCHANGED <<db, saved, edited, owed, throws, swallowed>>
  BY DEF evict, Steps
<1>2. PICK d : d = db
  OBVIOUS
<1>3. StorageFits(d)'
  BY <1>1, <1>2 DEF SchemaInductive, StorageFits, ColumnsFit, RowsFit, CopyFits
<1>4. ColumnsMade' /\ RowsMoved' /\ SchemaVarTypes'
  BY <1>1, After DEF ColumnsMade, RowsMoved, SchemaInductive, SchemaVarTypes
<1> QED
  BY <1>1, <1>2, <1>3, <1>4, RestKeeps

LEMMA DraftKeeps ==
  ASSUME SchemaInductive, createDraft
  PROVE  SchemaInductive'
<1>1. /\ pc = "up" /\ pc' = "up" /\ pc' \notin Steps
      /\ db' = IF db.unique /\ db.drafts > 0 THEN db ELSE [db EXCEPT !.drafts = db.drafts + 1]
      /\ UNCHANGED <<saved, edited, owed, throws, swallowed>>
  BY DEF createDraft, Steps
<1>2. /\ db \in Storage /\ ColumnsFit(db) /\ RowsFit(db) /\ CopyFits(db)
      /\ db.unique
  BY <1>1, After DEF SchemaInductive, StorageFits, ColumnsMade
<1>3. PICK d : d = db'
  OBVIOUS
<1>4. PICK n : n = db.drafts + 1
  OBVIOUS
<1>5. db.drafts \in 0 .. 2 /\ db.drafts <= 1
  BY <1>2 DEF Storage, ColumnsFit
<1>6. d = db \/ (d = [db EXCEPT !.drafts = n] /\ n = 1)
  BY <1>1, <1>2, <1>3, <1>4, <1>5
<1>7. /\ d \in Storage /\ d.version = db.version /\ d.tables = db.tables /\ d.cols = db.cols
      /\ d.unique = db.unique /\ d.rows = db.rows /\ d.searchable = db.searchable
      /\ d.draft = db.draft /\ d.late = db.late /\ d.body = db.body /\ d.drafts <= 1
  <2>1. CASE d = db
    <3>1. db \in Storage
      BY <1>2
    <3> QED
      BY <1>5, <2>1, <3>1
  <2>2. CASE d = [db EXCEPT !.drafts = n] /\ n = 1
    <3>1. db \in Storage /\ n \in 0 .. 2 /\ n <= 1
      BY <1>2, <2>2
    <3>2. d = [db EXCEPT !.drafts = n]
      BY <2>2
    <3>3. d \in Storage /\ d.drafts = n
      BY <3>1, <3>2 DEF Storage
    <3>4. /\ d.version = db.version /\ d.tables = db.tables /\ d.cols = db.cols
          /\ d.unique = db.unique /\ d.rows = db.rows /\ d.searchable = db.searchable
          /\ d.draft = db.draft /\ d.late = db.late /\ d.body = db.body
      BY <3>1, <3>2 DEF Storage
    <3> QED
      BY <3>1, <3>3, <3>4
  <2> QED
    BY <1>6, <2>1, <2>2
<1>8. ColumnsFit(d)
  BY <1>2, <1>7 DEF ColumnsFit
<1>9. RowsFit(d) /\ CopyFits(d)
  BY <1>2, <1>7 DEF RowsFit, CopyFits
<1>10. StorageFits(d)'
  BY <1>1, <1>7, <1>8, <1>9 DEF StorageFits, ColumnsFit, RowsFit, CopyFits
<1>11. ColumnsMade' /\ RowsMoved' /\ SchemaVarTypes'
  BY <1>1, <1>3, <1>7, After DEF ColumnsMade, RowsMoved, SchemaInductive, SchemaVarTypes
<1> QED
  BY <1>1, <1>3, <1>10, <1>11, RestKeeps

LEMMA RenamedKeyKeeps ==
  ASSUME SchemaInductive, updateApiKeySenderName
  PROVE  SchemaInductive'
<1>1. /\ pc = "up" /\ pc' = "up" /\ pc' \notin Steps /\ owed' = owed \cup {Rename}
      /\ UNCHANGED <<saved, edited, throws, swallowed>>
  BY DEF updateApiKeySenderName, Steps
<1>2. /\ db \in Storage /\ StorageFits(db) /\ RowsFit(db)
      /\ "sender_name_updated" \in db.cols
  BY <1>1, After DEF SchemaInductive, StorageFits, ColumnsMade
<1>3. PICK d, held, t, none : /\ d = db' /\ held = db.rows["api_key_events"] \cup {Rename}
                              /\ t = "api_key_events" /\ none = {}
  OBVIOUS
<1>4. IsRerowed(d, t, held, none)
  BY <1>2, <1>3 DEF IsRerowed, Storage, updateApiKeySenderName
<1>5. held \in SUBSET (Mails \cup Audits \cup {Rename}) /\ t \in Kept /\ none \in SUBSET Aside
  BY <1>2, <1>3, Names DEF Storage
<1>6. Rerowed(d, none) /\ RowsAre(d, t, held)
  <2>1. db \in Storage
    BY <1>2
  <2> QED
    BY <1>4, <1>5, <2>1, RowsSet
<1>7. /\ d.searchable = db.searchable /\ d.rows["api_key_events"] = held
      /\ d.rows["messages"] = db.rows["messages"]
      /\ d.rows["messages_legacy_v0"] = db.rows["messages_legacy_v0"]
      /\ d.rows["api_key_events_old"] = db.rows["api_key_events_old"]
      /\ d.cols = db.cols /\ d.tables = db.tables /\ d.version = db.version /\ d.unique = db.unique
      /\ d.drafts = db.drafts
  BY <1>3, <1>6, Names DEF RowsAre, Rerowed
<1>8. RowsFit(d)'
  BY <1>1, <1>2, <1>3, <1>7 DEF RowsFit
<1>9. ColumnsFit(d) /\ CopyFits(d)
  BY <1>2, <1>5, <1>6, RerowedFits
<1>10. StorageFits(d)'
  BY <1>1, <1>6, <1>8, <1>9 DEF StorageFits, ColumnsFit, CopyFits, Rerowed
<1>11. ColumnsMade'
  BY <1>1, <1>3, <1>7, After DEF ColumnsMade, SchemaInductive
<1>12. RowsMoved'
  BY <1>1, <1>3, <1>7, After DEF RowsMoved, SchemaInductive
<1>13. SchemaVarTypes'
  BY <1>1 DEF SchemaInductive, SchemaVarTypes
<1> QED
  BY <1>1, <1>3, <1>10, <1>11, <1>12, <1>13, RestKeeps

LEMMA SchemaStarts ==
  ASSUME SchemaInit
  PROVE  SchemaInductive
<1>1. /\ pc = "down" /\ edited \in {"never", "during", "after"} /\ saved = db
      /\ owed = UNION {db.rows[t] : t \in Kept} /\ throws = 0 /\ swallowed = FALSE
  BY DEF SchemaInit
<1>2. PICK v, tables :
         /\ v \in 0 .. 7
         /\ tables \in {Tables} \cup (IF v < 6 THEN {{"messages", "outbound_drafts"}} ELSE {})
                                \cup (IF v = 0 THEN {{}} ELSE {})
         /\ db = Release(v, tables)
  BY DEF SchemaInit, MAILBOX_SCHEMA_VERSION
<1>3. tables \in SUBSET Tables /\ (v > 0 => "messages" \in tables)
  BY <1>2, Names
<1>4. PICK cols, held :
        /\ cols = {c \in AllColumns : Since[c] <= v /\ \E t \in tables : c \in Columns[t]}
        /\ held = [t \in Kept |-> IF t \notin tables THEN {}
                                  ELSE IF t = "messages" THEN Mails ELSE Audits]
  OBVIOUS
<1>5. db = [ version |-> v, tables |-> tables, cols |-> cols, unique |-> v >= 2, rows |-> held,
             searchable |-> IF v = 0 THEN {} ELSE Mails,
             body |-> IF v = 7 THEN "sent" ELSE "none",
             draft |-> IF edited = "never" THEN "sent" ELSE "edited",
             late |-> edited = "after", drafts |-> 0 ]
  BY <1>2, <1>4 DEF Release, MAILBOX_SCHEMA_VERSION
<1>6. /\ held \in [Kept -> SUBSET (Mails \cup Audits \cup {Rename})]
      /\ held["messages"] = IF "messages" \in tables THEN Mails ELSE {}
      /\ held["messages_legacy_v0"] = {} /\ held["api_key_events_old"] = {}
      /\ held["api_key_events"] \subseteq Audits
  BY <1>3, <1>4, Names
<1>7. cols \in SUBSET AllColumns
  BY <1>4
<1>8. /\ db.version = v /\ db.tables = tables /\ db.cols = cols /\ db.rows = held
      /\ db.unique = (v >= 2) /\ db.searchable = IF v = 0 THEN {} ELSE Mails
      /\ db.body \in {"none", "sent"} /\ db.draft = IF edited = "never" THEN "sent" ELSE "edited"
      /\ db.late = (edited = "after") /\ db.drafts = 0
  BY <1>5
<1>9. db \in Storage
  <2>1. /\ v \in 0 .. MAILBOX_SCHEMA_VERSION /\ tables \in SUBSET (Tables \cup Aside)
        /\ (v >= 2) \in BOOLEAN /\ (edited = "after") \in BOOLEAN
    BY <1>2, <1>3 DEF MAILBOX_SCHEMA_VERSION
  <2> QED
    BY <1>5, <1>6, <1>7, <2>1 DEF Storage
<1>10. ColumnsFit(db)
  <2>1. /\ v >= 1 /\ "messages" \in tables => "thread_id" \in cols
        /\ v >= 2 /\ "outbound_drafts" \in tables => "idempotency_key" \in cols
        /\ v >= 3 /\ "transactional_requests" \in tables => "delivery_status" \in cols
        /\ v >= 4 /\ "outbound_drafts" \in tables => "parent_message_id" \in cols
        /\ v >= 5 /\ "transactional_requests" \in tables => "resolved_via" \in cols
        /\ v >= 6 /\ "api_keys" \in tables => "sender_name" \in cols
        /\ v >= 6 /\ "api_key_events" \in tables => "sender_name_updated" \in cols
    <3>1. {"thread_id", "idempotency_key", "delivery_status", "parent_message_id", "resolved_via",
           "sender_name", "sender_name_updated"} \subseteq AllColumns
      BY DEF AllColumns, Tables, Columns
    <3>2. /\ Since["thread_id"] = 1 /\ Since["idempotency_key"] = 2 /\ Since["delivery_status"] = 3
          /\ Since["parent_message_id"] = 4 /\ Since["resolved_via"] = 5 /\ Since["sender_name"] = 6
          /\ Since["sender_name_updated"] = 6
      BY DEF Since
    <3> QED
      BY <1>2, <1>4, <3>1, <3>2, Names
  <2>2. db.version >= 2 => db.unique
    BY <1>8
  <2>3. db.drafts <= 1 /\ db.version = v /\ db.tables = tables /\ db.cols = cols
    BY <1>8
  <2> QED
    BY <2>1, <2>2, <2>3 DEF ColumnsFit
<1>11. RowsFit(db)
  <2>1. owed \subseteq held["messages"] \cup held["messages_legacy_v0"]
                       \cup held["api_key_events"] \cup held["api_key_events_old"]
    BY <1>1, <1>8, Names
  <2>2. v >= 1 /\ "messages" \in tables => "thread_id" \in cols
    BY <1>8, <1>10 DEF ColumnsFit
  <2>3. "messages_legacy_v0" \notin tables
    BY <1>3, Names
  <2> QED
    BY <1>1, <1>2, <1>3, <1>6, <1>8, <2>1, <2>2, <2>3 DEF RowsFit
<1>12. CopyFits(db)
  BY <1>8 DEF CopyFits
<1>13. SchemaVarTypes
  <2>1. owed \subseteq Mails \cup Audits \cup {Rename}
    BY <1>1, <1>6, <1>8
  <2>2. pc \in Steps \cup {"down", "up"} /\ saved \in Storage
    BY <1>1, <1>9
  <2>3. throws \in 0 .. MaxThrows
    BY <1>1, SchemaAssumption
  <2>4. swallowed \in BOOLEAN
    BY <1>1
  <2> QED
    BY <1>1, <2>1, <2>2, <2>3, <2>4 DEF SchemaVarTypes
<1>14. ColumnsMade /\ RowsMoved
  BY <1>1, <1>6, <1>8, After DEF ColumnsMade, RowsMoved
<1>15. pc \notin Steps
  BY <1>1 DEF Steps
<1> QED
  BY <1>9, <1>10, <1>11, <1>12, <1>13, <1>14, <1>15 DEF SchemaInductive, StorageFits

\* A mailbox that answers has every column and index, has lost no row on the
\* way, and shows of a sent mail what went out: from every earlier release,
\* wherever cold starts break off.
THEOREM MigrationsAreSafe == SchemaSpec => []SchemaInvariant
<1>1. SchemaInit => SchemaInductive
  BY SchemaStarts
<1>2. SchemaInductive /\ [SchemaNext]_schemaVars => SchemaInductive'
  <2> SUFFICES ASSUME SchemaInductive, [SchemaNext]_schemaVars
               PROVE  SchemaInductive'
    OBVIOUS
  <2>1. CASE constructor
    <3>1. CASE migrateDraftIdempotency
      BY <3>1, IdempotencyKeeps, UniqueKeeps DEF migrateDraftIdempotency
    <3> QED
      BY <2>1, <3>1, ColdStartKeeps, RenameKeeps, SchemaKeeps, RebuildTableKeeps, LegacyKeeps,
         DeliveryKeeps, ParentKeeps, ResolvedKeeps, SenderNameKeeps, EventsKeeps, BackfillKeeps,
         RecordKeeps DEF constructor
  <2>2. CASE UNCHANGED schemaVars
    BY <2>2 DEF schemaVars, SchemaInductive, SchemaVarTypes, StorageFits, ColumnsFit, RowsFit,
                CopyFits, ColumnsMade, RowsMoved
  <2> QED
    BY <2>1, <2>2, FailureKeeps, LegacyFailureKeeps, EvictKeeps, DraftKeeps, RenamedKeyKeeps
    DEF SchemaNext
<1>3. SchemaInductive => SchemaInvariant
  <2> SUFFICES ASSUME SchemaInductive
               PROVE  SchemaInvariant
    OBVIOUS
  <2>1. ServesWhole
    <3>1. pc = "up" => AllColumns \subseteq db.cols /\ db.unique
      <4>1. AllColumns = {"thread_id", "idempotency_key", "parent_message_id", "delivery_status",
                          "resolved_via", "sender_name", "sender_name_updated"}
        BY DEF AllColumns, Tables, Columns
      <4> QED
        BY <4>1, After DEF SchemaInductive, ColumnsMade
    <3> QED
      BY <3>1 DEF SchemaInductive, StorageFits, ColumnsFit, ServesWhole
  <2>2. NothingLost
    <3>1. owed \subseteq Mailed \cup Audited
      BY DEF SchemaInductive, StorageFits, RowsFit, Mailed, Audited
    <3> QED
      BY <3>1, After DEF SchemaInductive, RowsMoved, NothingLost
  <2>3. CopyIsWhatWentOut
    BY DEF SchemaInductive, StorageFits, CopyFits, CopyIsWhatWentOut
  <2>4. SchemaTypeOK
    BY DEF SchemaInductive, SchemaVarTypes, StorageFits, SchemaTypeOK
  <2> QED
    BY <2>1, <2>2, <2>3, <2>4 DEF SchemaInvariant
<1> QED
  BY <1>1, <1>2, <1>3, PTL DEF SchemaSpec
================================================================================
