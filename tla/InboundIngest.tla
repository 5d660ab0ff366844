------------------------------ MODULE InboundIngest ------------------------------
(***************************************************************************)
(* Inbound mail: the SMTP handler stores the raw MIME in R2 and enqueues   *)
(* it, the queue consumer has the mailbox object ingest it, and D1 gets an *)
(* index row, an ingest row and a notification job afterwards.             *)
(*                                                                         *)
(* A delivery is one run of the handler, and so one message on the queue:  *)
(* a sender that retries makes a second one, with the same key (mailbox    *)
(* and Message-ID) and perhaps other bytes.  Queues delivers at least      *)
(* once, and an object goes on with a request whose caller is gone, so two *)
(* requests about one delivery can meet inside the object: between its     *)
(* look at the ledger and its transaction it awaits R2.                    *)
(*                                                                         *)
(* Routing has chosen a mailbox here (module MailRouting), all mail is for *)
(* one mailbox, and threads are left out.                                  *)
(***************************************************************************)
EXTENDS Naturals, FiniteSets

CONSTANTS
  Deliveries,   \* queue messages
  Keys, Raws,   \* idempotency keys; raw objects in R2
  KeyOf, RawOf, \* [Deliveries -> Keys], [Deliveries -> Raws]
  ShaOf,        \* the digest of a raw object
  Malformed,    \* raw objects that do not parse
  Workers,      \* slots for requests in progress, numbered
  NoDelivery,
  MaxRetries, DeadRetries

ASSUME IngestAssumption ==
  /\ KeyOf \in [Deliveries -> Keys] /\ RawOf \in [Deliveries -> Raws]
  /\ DOMAIN ShaOf = Raws /\ Malformed \subseteq Raws /\ Raws # {}
  /\ NoDelivery \notin Deliveries /\ Workers \subseteq Nat
  /\ MaxRetries \in Nat /\ DeadRetries \in Nat

VARIABLES
  smtp,     \* the handler's progress with each delivery
  raws,     \* raw objects in R2
  queue,    \* where each message is
  tries,    \* message.attempts
  work,     \* the requests in progress
  rows,     \* the object's messages, with their ingest_events row
  parts,    \* message ids whose body and attachments are in R2
  index,    \* D1: message_index, by local id
  events,   \* D1: ingest_events, by key
  notices   \* ids sent to the notification queue, with how often

mailVars == <<rows, parts, index, events, notices>>
ingestVars == <<smtp, raws, queue, tries, work, mailVars>>

MaxTries == MaxRetries + DeadRetries + 2
Ids == (Deliveries \cup {NoDelivery}) \X (0 .. MaxTries)
NoId == <<NoDelivery, 0>>
Row == [id : Ids, key : Keys, raw : Raws, parse : {"parsed", "failed"}]
NoEvent == [status |-> "none", id |-> NoId, raw |-> CHOOSE r \in Raws : TRUE]
EventRow == [status : {"none", "processed", "failed"}, id : Ids, raw : Raws]
Idle == [pc |-> "idle", of |-> NoDelivery, try |-> 0, id |-> NoId, heard |-> TRUE]
Stages == {"idle", "check", "parsing", "storing", "storing_failed", "conflict",
           "conflict_ops", "duplicate", "index", "event", "notify", "done"}

IngestTypeOK ==
  /\ smtp \in [Deliveries -> {"new", "stored", "sent", "failed"}]
  /\ raws \subseteq Raws
  /\ queue \in [Deliveries -> {"none", "waiting", "busy", "acked", "dead", "buried", "lost"}]
  /\ tries \in [Deliveries -> 0 .. MaxTries]
  /\ work \in [Workers -> [pc : Stages, of : Deliveries \cup {NoDelivery},
                           try : 0 .. MaxTries, id : Ids, heard : BOOLEAN]]
  /\ rows \subseteq Row /\ parts \subseteq Ids /\ index \subseteq Ids
  /\ events \in [Keys -> EventRow]
  /\ notices \in [Deliveries -> Nat]

IngestInit ==
  /\ smtp = [d \in Deliveries |-> "new"]
  /\ raws = {}
  /\ queue = [d \in Deliveries |-> "none"]
  /\ tries = [d \in Deliveries |-> 0]
  /\ work = [w \in Workers |-> Idle]
  /\ rows = {} /\ parts = {} /\ index = {}
  /\ events = [k \in Keys |-> NoEvent]
  /\ notices = [d \in Deliveries |-> 0]

-----------------------------------------------------------------------------
(* The SMTP handler: R2 first, then the queue; the sender sees a failure of  *)
(* either and comes back as another delivery.                                *)

PutRaw(d) ==
  /\ smtp[d] = "new"
  /\ raws' = raws \cup {RawOf[d]}
  /\ smtp' = [smtp EXCEPT ![d] = "stored"]
  /\ UNCHANGED <<queue, tries, work, mailVars>>

SendToQueue(d) ==
  /\ smtp[d] = "stored"
  /\ smtp' = [smtp EXCEPT ![d] = "sent"]
  /\ queue' = [queue EXCEPT ![d] = "waiting"]
  /\ UNCHANGED <<raws, tries, work, mailVars>>

HandlerFails(d) ==
  /\ smtp[d] \in {"new", "stored"}
  /\ smtp' = [smtp EXCEPT ![d] = "failed"]
  /\ UNCHANGED <<raws, queue, tries, work, mailVars>>

handleEmail(d) == PutRaw(d) \/ SendToQueue(d) \/ HandlerFails(d)

-----------------------------------------------------------------------------
(* The queue. *)

\* A message that failed goes back, until its attempts are spent.
Retry(d) ==
  queue' = [queue EXCEPT ![d] = IF tries[d] > MaxRetries THEN "dead" ELSE "waiting"]

Take(w, d) ==
  /\ work[w] = Idle /\ queue[d] = "waiting"
  /\ \A v \in Workers : v < w => work[v] # Idle    \* slots are alike: the first free one
  /\ queue' = [queue EXCEPT ![d] = "busy"]
  /\ tries' = [tries EXCEPT ![d] = @ + 1]
  /\ work' = [work EXCEPT ![w] = [Idle EXCEPT !.pc = "check", !.of = d, !.try = tries[d] + 1]]
  /\ UNCHANGED <<smtp, raws, mailVars>>

\* Consumer code runs while someone listens to its worker.
At(w, pc) == work[w].pc = pc
Consuming(w) ==
  work[w].heard /\ work[w].pc \notin {"idle", "parsing", "storing", "storing_failed"}
InObject(w) == work[w].pc \in {"parsing", "storing", "storing_failed"}
GoTo(w, pc) == work' = [work EXCEPT ![w].pc = pc]

\* Mutant: a failure is acknowledged.
FailureIsAcked(w) ==
  /\ Consuming(w)
  /\ work' = [work EXCEPT ![w] = Idle]
  /\ queue' = [queue EXCEPT ![work[w].of] = "acked"]
  /\ UNCHANGED <<smtp, raws, tries, mailVars>>

\* Any awaited call of the consumer can throw, D1 and R2 alike: the catch asks
\* for a retry.  A consumer that is killed leaves the message to redelivery.
ConsumerFails(w) ==
  /\ Consuming(w)
  /\ work' = [work EXCEPT ![w] = Idle]
  /\ Retry(work[w].of)
  /\ UNCHANGED <<smtp, raws, tries, mailVars>>

\* Mutant: nobody redelivers for a caller that is gone.
CallerForgotten(w) ==
  /\ InObject(w) /\ work[w].heard
  /\ work' = [work EXCEPT ![w].heard = FALSE]
  /\ UNCHANGED <<smtp, raws, queue, tries, mailVars>>

\* The caller is gone but the object works on.
CallerGone(w) ==
  /\ InObject(w) /\ work[w].heard
  /\ work' = [work EXCEPT ![w].heard = FALSE]
  /\ Retry(work[w].of)
  /\ UNCHANGED <<smtp, raws, tries, mailVars>>

-----------------------------------------------------------------------------
(* The object's /ingest. *)

Held(k) == {row \in rows : row.key = k}
NewId(w) == <<work[w].of, work[w].try>>

\* What the caller is told about a key that is taken.
Taken(d, row) == IF ShaOf[row.raw] # ShaOf[RawOf[d]] THEN "conflict" ELSE "duplicate"

\* An answer reaches the consumer that waits for it, or nobody.
Answer(w, pc, id) ==
  work' = [work EXCEPT ![w] = IF work[w].heard THEN [@ EXCEPT !.pc = pc, !.id = id] ELSE Idle]

\* head() of the raw object, then the object's look at its own ledger.
Check(w) ==
  LET d == work[w].of
  IN /\ At(w, "check") /\ RawOf[d] \in raws
     /\ IF Held(KeyOf[d]) = {} THEN GoTo(w, "parsing")
        ELSE \E row \in Held(KeyOf[d]) : Answer(w, Taken(d, row), row.id)
     /\ UNCHANGED <<smtp, raws, queue, tries, mailVars>>

\* Parse and put the body and the attachments.  A put that fails is treated
\* as a message that does not parse.
ParseAndPut(w) ==
  /\ At(w, "parsing")
  /\ \/ /\ RawOf[work[w].of] \notin Malformed
        /\ parts' = parts \cup {NewId(w)}
        /\ GoTo(w, "storing")
     \/ /\ GoTo(w, "storing_failed")
        /\ parts' = parts
  /\ UNCHANGED <<smtp, raws, queue, tries, rows, index, events, notices>>

\* The transaction, parsed or not.  The key is UNIQUE: who comes second is told
\* what a look at the ledger would have said.
resolveConcurrentIdempotencyConflict(w) ==
  \E row \in Held(KeyOf[work[w].of]) :
    /\ Answer(w, Taken(work[w].of, row), row.id)
    /\ rows' = rows

\* Mutant: the answer does not depend on the transaction.
AnswerAnyway(w, parse) ==
  /\ \/ rows' = rows \cup {[id |-> NewId(w), key |-> KeyOf[work[w].of],
                            raw |-> RawOf[work[w].of], parse |-> parse]}
     \/ rows' = rows
  /\ Answer(w, "index", NewId(w))

Insert(w, parse) ==
  /\ rows' = rows \cup {[id |-> NewId(w), key |-> KeyOf[work[w].of],
                         raw |-> RawOf[work[w].of], parse |-> parse]}
  /\ Answer(w, "index", NewId(w))

\* Mutant: the look at the ledger before the awaits is relied on.
StoreUnchecked(w) ==
  /\ At(w, "storing") \/ At(w, "storing_failed")
  /\ Insert(w, IF At(w, "storing") THEN "parsed" ELSE "failed")
  /\ UNCHANGED <<smtp, raws, queue, tries, parts, index, events, notices>>

Store(w) ==
  /\ At(w, "storing") \/ At(w, "storing_failed")
  /\ IF Held(KeyOf[work[w].of]) # {} THEN resolveConcurrentIdempotencyConflict(w)
     ELSE Insert(w, IF At(w, "storing") THEN "parsed" ELSE "failed")
  /\ UNCHANGED <<smtp, raws, queue, tries, parts, index, events, notices>>

ingestInboundEmail(w) == Check(w) \/ ParseAndPut(w) \/ Store(w)

-----------------------------------------------------------------------------
(* The consumer after the object answered. *)

EventWrite(w, status, id) ==
  events' = [events EXCEPT ![KeyOf[work[w].of]] =
               [status |-> status, id |-> id, raw |-> RawOf[work[w].of]]]

RecordConflict(w) ==
  /\ At(w, "conflict")
  /\ EventWrite(w, "failed", NoId)
  /\ GoTo(w, "conflict_ops")
  /\ UNCHANGED <<smtp, raws, queue, tries, rows, parts, index, notices>>

OpsConflict(w) ==
  /\ At(w, "conflict_ops") /\ GoTo(w, "done")
  /\ UNCHANGED <<smtp, raws, queue, tries, mailVars>>

\* Mutant: a duplicate is indexed and notified like a new message.
DuplicateNotifies(w) ==
  /\ At(w, "duplicate") /\ GoTo(w, "index")
  /\ UNCHANGED <<smtp, raws, queue, tries, mailVars>>

RecordDuplicate(w) ==
  /\ At(w, "duplicate")
  /\ EventWrite(w, "processed", work[w].id)
  /\ GoTo(w, "done")
  /\ UNCHANGED <<smtp, raws, queue, tries, rows, parts, index, notices>>

IndexMail(w) ==
  /\ At(w, "index")
  /\ index' = index \cup {work[w].id}
  /\ GoTo(w, "event")
  /\ UNCHANGED <<smtp, raws, queue, tries, rows, parts, events, notices>>

RecordProcessed(w) ==
  /\ At(w, "event")
  /\ EventWrite(w, "processed", work[w].id)
  /\ GoTo(w, "notify")
  /\ UNCHANGED <<smtp, raws, queue, tries, rows, parts, index, notices>>

\* A notification that cannot be enqueued is logged and given up.
Notify(w) ==
  /\ At(w, "notify") /\ GoTo(w, "done")
  /\ \/ notices' = [notices EXCEPT ![work[w].of] = @ + 1]
     \/ notices' = notices
  /\ UNCHANGED <<smtp, raws, queue, tries, rows, parts, index, events>>

Ack(w) ==
  /\ At(w, "done")
  /\ queue' = [queue EXCEPT ![work[w].of] = "acked"]
  /\ work' = [work EXCEPT ![w] = Idle]
  /\ UNCHANGED <<smtp, raws, tries, mailVars>>

handleInboundQueue(w) ==
  \/ \E d \in Deliveries : Take(w, d)
  \/ ingestInboundEmail(w)
  \/ RecordConflict(w) \/ OpsConflict(w) \/ RecordDuplicate(w)
  \/ IndexMail(w) \/ RecordProcessed(w) \/ Notify(w) \/ Ack(w)

\* The dead-letter consumer writes a tombstone, and retries when D1 fails.
handleDeadLetterQueue(d) ==
  /\ queue[d] = "dead"
  /\ \/ queue' = [queue EXCEPT ![d] = "buried"] /\ tries' = tries
     \/ /\ tries' = [tries EXCEPT ![d] = @ + 1]
        /\ queue' = [queue EXCEPT ![d] = IF tries[d] = MaxTries - 1 THEN "lost" ELSE "dead"]
  /\ UNCHANGED <<smtp, raws, work, mailVars>>

QueueStep ==
  \/ \E w \in Workers : handleInboundQueue(w) \/ ConsumerFails(w) \/ CallerGone(w)
  \/ \E d \in Deliveries : handleDeadLetterQueue(d)

IngestNext == QueueStep \/ \E d \in Deliveries : handleEmail(d)

\* The platform goes on with the requests it started and delivers what waits;
\* a sender's run of the handler ends.
IngestFairness ==
  /\ \A w \in Workers : WF_ingestVars(handleInboundQueue(w))
  /\ \A d \in Deliveries : WF_ingestVars(handleDeadLetterQueue(d))

IngestSpec == IngestInit /\ [][IngestNext]_ingestVars /\ IngestFairness

-----------------------------------------------------------------------------
(* Properties. *)

Stored(id) == \E row \in rows : row.id = id

\* However deliveries and their redeliveries meet inside the object, a key
\* names one message, and one that parsed has its body and attachments in R2.
OneMessagePerKey ==
  /\ \A a, b \in rows : a.key = b.key => a = b
  /\ \A row \in rows : row.parse = "parsed" => row.id \in parts

\* D1 follows the object: an index row or a processed ingest row names a
\* message the object holds, the ingest row under the key it is filed by.
ProjectionNeverLeads ==
  /\ \A id \in index : Stored(id)
  /\ \A k \in Keys : events[k].status = "processed" /\ events[k].id[1] \in Deliveries =>
       \E row \in Held(k) : row.id = events[k].id

\* "After the mail is durably indexed, never before", and once per message:
\* redelivery after a lost ack tells nobody twice.
NotifiedOnceIndexed ==
  \A k \in Keys : LET told == {d \in Deliveries : KeyOf[d] = k /\ notices[d] > 0}
    IN /\ Cardinality(told) <= 1
       /\ \A d \in told : /\ notices[d] = 1
                          /\ \E row \in Held(k) : row.id \in index /\ row.id[1] = d

\* Safety of the pipeline: one message per key, D1 behind the object, and one
\* notification, after the index row.
IngestInvariant ==
  /\ IngestTypeOK
  /\ OneMessagePerKey
  /\ ProjectionNeverLeads
  /\ NotifiedOnceIndexed

\* Mail leaves the queue as done only when the mailbox holds its bytes under
\* its key, or holds other bytes there and the sender reused a Message-ID.
AckedIsKept ==
  \A d \in Deliveries : queue[d] = "acked" =>
    /\ RawOf[d] \in raws
    /\ \E row \in Held(KeyOf[d]) :
         ShaOf[row.raw] = ShaOf[RawOf[d]] \/ events[KeyOf[d]].status # "none"

\* What the handler accepted is stored, or buried with a tombstone, or lost
\* after the tombstone could not be written: nothing stays on the queue.
AcceptedEnds ==
  \A d \in Deliveries :
    smtp[d] = "sent" ~> queue[d] \in {"acked", "buried", "lost"}

\* docs/IMPLEMENTATION.md: the object's idempotency makes a retry after a failed
\* D1 write safe.  The retry is a duplicate, which writes no index row.
ProcessedIsIndexed ==
  \A k \in Keys : events[k].status = "processed" /\ events[k].id[1] \in Deliveries =>
    events[k].id \in index
================================================================================
