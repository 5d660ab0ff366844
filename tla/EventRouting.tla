------------------------------ MODULE EventRouting ------------------------------
(***************************************************************************)
(* Delivery events on their way from the provider to the mailbox object:   *)
(* the queue, the consumer that finds the mailbox through D1, the object's *)
(* answer, and the D1 rows the consumer updates afterwards.                *)
(*                                                                         *)
(* TransactionalSend lets an event reach the object whenever it likes.     *)
(* Here it arrives only when the consumer forwards it, and the object's    *)
(* steps are the ones of that module.  The log of requests in D1 is        *)
(* written by the object without waiting (waitUntil) from a snapshot of    *)
(* the row, so a snapshot may land late, or never.                         *)
(*                                                                         *)
(* The three lookups of resolveMailboxIdFromEvent are one step.  A mail a  *)
(* person confirmed shares its envelope with no API send.  Revocation,     *)
(* expiry, crashes of the object and the reconciler do not touch routing   *)
(* and stay with TransactionalSend; an open outcome that D1 does not know, *)
(* which is what they leave behind, comes here from a lost log row.        *)
(***************************************************************************)
EXTENDS TransactionalSend

CONSTANTS
  HumanMails, AddressOf,   \* mail confirmed by a person, and its recipient
  Traffic,                 \* the sets of mail the provider may report on
  MaxRetries,              \* max_retries of the events queue
  DeadRetries              \* max_retries of the dead-letter queue

ASSUME RoutingAssumption ==
  /\ HumanMails \cap (Requests \cup {NoRequest}) = {}
  /\ AddressOf \in [HumanMails -> Recipients]
  /\ Traffic \subseteq SUBSET (Requests \cup HumanMails)
  /\ MaxRetries \in Nat /\ DeadRetries \in Nat

VARIABLES
  log,        \* D1: transactional_request_log by request_id
  writing,    \* upserts of the log the object did not wait for
  outbound,   \* D1: outbound_sends rows that hold a provider id
  mirror,     \* D1: recipient_suppressions
  humanSeen,  \* the object's ledger: events of mail people confirmed
  reported,   \* the mail reported on in this behaviour: chosen once
  queue,      \* where each event is
  tries,      \* message.attempts
  stage,      \* how far the consumer is with each event
  hint,       \* the request the consumer takes the event to be about
  news        \* resolvedStatus in the object's answer

d1Vars == <<log, outbound, mirror>>
queueVars == <<queue, tries, stage, hint, news>>
ledgerVars == <<humanSeen, reported>>
routingVars == <<log, writing, outbound, mirror, humanSeen, reported, queueVars>>
allVars == <<vars, routingVars>>

Event == (Requests \cup HumanMails) \X Reports
NoLog == [status |-> "none", mail |-> NoRequest, inferred |-> FALSE,
          delivery |-> "none"]
LogRow == [status : {"none"} \cup RowStatus, mail : Requests \cup {NoRequest},
           inferred : BOOLEAN, delivery : DeliveryStatus]
QueueState == {"none", "waiting", "acked", "dead", "buried", "lost"}
Stages == {"idle", "routed", "settled", "dated", "suppressed"}

RoutingTypeOK ==
  /\ log \in [Requests -> LogRow]
  /\ writing \subseteq Requests \X LogRow
  /\ outbound \subseteq HumanMails
  /\ mirror \in [Recipients -> {"none", "hard_bounce", "complaint"}]
  /\ humanSeen \subseteq HumanMails \X EventTypes
  /\ reported \in Traffic
  /\ queue \in [Event -> QueueState]
  /\ tries \in [Event -> 0 .. MaxRetries + DeadRetries + 2]
  /\ stage \in [Event -> Stages]
  /\ hint \in [Event -> Requests \cup {NoRequest}]
  /\ news \in [Event -> {"nothing", "sent", "failed"}]

RoutingInit ==
  /\ Init
  /\ log = [q \in Requests |-> NoLog]
  /\ writing = {}
  /\ outbound = {}
  /\ mirror = [r \in Recipients |-> "none"]
  /\ humanSeen = {}
  /\ reported \in Traffic
  /\ queue = [e \in Event |-> "none"]
  /\ tries = [e \in Event |-> 0]
  /\ stage = [e \in Event |-> "idle"]
  /\ hint = [e \in Event |-> NoRequest]
  /\ news = [e \in Event |-> "nothing"]

--------------------------------------------------------------------------------
(* The log of requests: a snapshot of the row, taken when the handler      *)
(* answers, written some time later or not at all.                         *)

Snapshot(row) == [status |-> row.status, mail |-> row.mail,
                  inferred |-> row.inferred, delivery |-> row.delivery]

\* Fresh answers and replays alike are projected, except while pending.
ProjectAnswer(q) ==
  writing' = IF answer'[q] \in {"sent", "permanent_failure", "unknown"}
             THEN LET row == rows'[Slot(q)]
                  IN writing \cup {<<row.request, Snapshot(row)>>}
             ELSE writing

HandlerAnswers(q) ==
  /\ SendSettles(q) \/ Compare(q)
  /\ ProjectAnswer(q)
  /\ UNCHANGED <<d1Vars, ledgerVars, queueVars>>

OtherTxStep ==
  /\ \/ \E q \in Requests :
          \/ \E p \in Payloads : ReadKey(q, p)
          \/ Refuse(q) \/ Authorize(q) \/ CheckSuppression(q)
          \/ FindExisting(q) \/ OverQuota(q) \/ Reserve(q)
          \/ ProviderStep(q)
     \/ \E r \in Recipients : RemoveSuppression(r)
  /\ UNCHANGED routingVars

\* INSERT OR REPLACE: the whole row is the snapshot.
upsertTransactionalRequestLog(w) ==
  /\ w \in writing
  /\ log' = [log EXCEPT ![w[1]] = w[2]]
  /\ writing' = writing \ {w}
  /\ UNCHANGED <<vars, outbound, mirror, ledgerVars, queueVars>>

\* catch(() => {}), or the object is evicted first.
LogWriteLost(w) ==
  /\ w \in writing
  /\ writing' = writing \ {w}
  /\ UNCHANGED <<vars, d1Vars, ledgerVars, queueVars>>

\* The send saga stores the provider id of a confirmed mail (external here).
OutboundSettles(h) ==
  /\ h \in reported \ outbound
  /\ outbound' = outbound \cup {h}
  /\ UNCHANGED <<vars, log, writing, mirror, ledgerVars, queueVars>>

--------------------------------------------------------------------------------
(* The queue.                                                              *)

\* The provider publishes an event (external).
Publish(e) ==
  /\ e[1] \in reported
  /\ queue[e] = "none"
  /\ IF e[1] \in HumanMails THEN e[2] \in {"delivered", "deferred"} \cup Bounces
                            ELSE e[2] \in Reportable(e[1])
  /\ \A other \in Contrary(e[2]) : <<e[1], other>> \in Event => queue[<<e[1], other>>] = "none"
  /\ queue' = [queue EXCEPT ![e] = "waiting"]
  /\ UNCHANGED <<vars, writing, d1Vars, ledgerVars, tries, stage, hint, news>>

Busy(e) == stage[e] # "idle"
Receivable(e) == queue[e] = "waiting" /\ ~Busy(e)

\* Mutant: a retry is a fresh message.
RetryForever(e) ==
  /\ queue' = [queue EXCEPT ![e] = "waiting"]
  /\ tries' = tries
  /\ stage' = [stage EXCEPT ![e] = "idle"]
  /\ hint' = [hint EXCEPT ![e] = NoRequest]
  /\ news' = [news EXCEPT ![e] = "nothing"]

\* message.retry, a batch that throws or a consumer that dies: the attempt is
\* spent, and after the last one the message moves to the dead-letter queue.
Retry(e) ==
  /\ queue' = [queue EXCEPT ![e] = IF tries[e] = MaxRetries THEN "dead" ELSE @]
  /\ tries' = [tries EXCEPT ![e] = @ + 1]
  /\ stage' = [stage EXCEPT ![e] = "idle"]
  /\ hint' = [hint EXCEPT ![e] = NoRequest]
  /\ news' = [news EXCEPT ![e] = "nothing"]

--------------------------------------------------------------------------------
(* The consumer.                                                           *)

\* What D1 says of the event's mail, as sets of requests.
lookupTransactionalRequestByProviderMessageId(e) ==
  {q \in Requests : log[q].status # "none" /\ log[q].mail = e[1]}
lookupUnresolvedTransactionalRequestsByEnvelope(e) ==
  {q \in Requests : /\ log[q].status = "unknown"
                    /\ log[q].mail = NoRequest
                    /\ Envelope(q) = Envelope(e[1])}

\* The one request D1 names, if it names one.
Routes(e) ==
  IF e[1] \in HumanMails THEN {}
  ELSE LET known == lookupTransactionalRequestByProviderMessageId(e)
           open == lookupUnresolvedTransactionalRequestsByEnvelope(e)
       IN IF known # {} THEN {q \in known : Envelope(q) = Envelope(e[1])}
          ELSE IF Cardinality(open) = 1 THEN open ELSE {}

resolveMailboxIdFromEvent(e) ==
  /\ Receivable(e)
  /\ \/ \E q \in Routes(e) : hint' = [hint EXCEPT ![e] = q]
     \/ e[1] \in outbound /\ hint' = [hint EXCEPT ![e] = NoRequest]
  /\ stage' = [stage EXCEPT ![e] = "routed"]
  /\ UNCHANGED <<vars, writing, d1Vars, ledgerVars, queue, tries, news>>

\* No row yet, two candidates, or D1 cannot be read: retry.
Unresolved(e) ==
  /\ Receivable(e)
  /\ Retry(e)
  /\ UNCHANGED <<vars, writing, d1Vars, ledgerVars>>

Recorded(e) == e \in events \cup humanSeen

\* Mutant: an event that is in the ledger already is taken for done.
DuplicateIsDone(e) ==
  /\ stage[e] = "routed"
  /\ Recorded(e)
  /\ queue' = [queue EXCEPT ![e] = "acked"]
  /\ stage' = [stage EXCEPT ![e] = "idle"]
  /\ hint' = [hint EXCEPT ![e] = NoRequest]
  /\ UNCHANGED <<vars, writing, d1Vars, ledgerVars, tries, news>>

\* Already in the ledger: the answer names no request and no status.
ForwardAgain(e) ==
  /\ stage[e] = "routed"
  /\ Recorded(e)
  /\ stage' = [stage EXCEPT ![e] = "settled"]
  /\ UNCHANGED <<vars, writing, d1Vars, ledgerVars, queue, tries, hint, news>>

\* By provider id the object ignores the hint; by envelope it must agree.
Correlates(e) ==
  /\ correlate(e[1]) # {}
  /\ ByProviderId(e[1]) = {} => correlate(e[1]) = {Slot(hint[e])}

\* Mutant: the row D1 named is settled, whatever the object's rows say.
SettleNamed(e, s) ==
  /\ rows' = [rows EXCEPT ![Slot(hint[e])] = Resolved(@, e[1], e[2])]
  /\ events' = events \cup {e}
  /\ addSuppression(RecipientOf[body[e[1]]], e[2])
  /\ UNCHANGED <<marker, keyStatus, usage, callVars, window, provider>>

\* The object settles the slot it has found.
Settle(e, s) == DeliveryEvent(e[1], e[2]) /\ SettleSlot(s, e[1], e[2])

\* handleDeliveryEvent of the object, and what it tells the consumer of the
\* row it settled.
ForwardTransactional(e) ==
  /\ stage[e] = "routed"
  /\ e[1] \in Requests /\ ~Recorded(e)
  /\ Correlates(e)
  /\ \E s \in correlate(e[1]) :
       /\ Settle(e, s)
       /\ hint' = [hint EXCEPT ![e] = rows[s].request]
       /\ news' = [news EXCEPT ![e] =
                     IF rows[s].status = "unknown"
                     THEN statusProvenBy(e[2]) ELSE "nothing"]
  /\ stage' = [stage EXCEPT ![e] = "settled"]
  /\ UNCHANGED <<writing, d1Vars, ledgerVars, queue, tries>>

\* Mutant: a refusal of the object counts as an answer.
RefusedIsDone(e) ==
  /\ stage[e] = "routed"
  /\ e[1] \in Requests /\ ~Recorded(e)
  /\ ~Correlates(e)
  /\ stage' = [stage EXCEPT ![e] = "settled"]
  /\ UNCHANGED <<vars, writing, d1Vars, ledgerVars, queue, tries, hint, news>>

\* 404 (no such request) or 409 (two candidates, or not the one D1 named).
ForwardRefused(e) ==
  /\ stage[e] = "routed"
  /\ e[1] \in Requests /\ ~Recorded(e)
  /\ ~Correlates(e)
  /\ Retry(e)
  /\ UNCHANGED <<vars, writing, d1Vars, ledgerVars>>

\* Mutant: the recipient is suppressed before the ledger is looked at.
ForwardHumanAlways(e) ==
  /\ stage[e] = "routed"
  /\ e[1] \in HumanMails
  /\ humanSeen' = humanSeen \cup {e}
  /\ addSuppression(AddressOf[e[1]], e[2])
  /\ stage' = [stage EXCEPT ![e] = "settled"]
  /\ UNCHANGED <<keyStatus, rows, usage, marker, events, callVars, window,
                 provider, writing, d1Vars, reported, queue, tries, hint, news>>

\* handleOutboundDeliveryEvent: the ledger and the suppression list.
ForwardHuman(e) ==
  /\ stage[e] = "routed"
  /\ e[1] \in HumanMails /\ ~Recorded(e)
  /\ humanSeen' = humanSeen \cup {e}
  /\ addSuppression(AddressOf[e[1]], e[2])
  /\ stage' = [stage EXCEPT ![e] = "settled"]
  /\ UNCHANGED <<keyStatus, rows, usage, marker, events, callVars, window,
                 provider, writing, d1Vars, reported, queue, tries, hint, news>>

\* Mutant: the event's own verdict is mirrored, not the object's.
MirrorVerdict(e) ==
  /\ stage[e] = "settled"
  /\ log' = IF hint[e] # NoRequest /\ statusProvenBy(e[2]) # "nothing"
            THEN [log EXCEPT ![hint[e]] = IF @.status = "none" THEN @ ELSE
                    [@ EXCEPT !.status = statusProvenBy(e[2])]]
            ELSE log
  /\ stage' = [stage EXCEPT ![e] = "dated"]
  /\ UNCHANGED <<vars, writing, outbound, mirror, ledgerVars, queue, tries, hint,
                 news>>

\* The status that is now proven, and the id of the mail if there was none.
Proven(row, status, mail) ==
  IF row.status = "none" THEN row
  ELSE [row EXCEPT !.status = status,
                   !.mail = IF row.mail = NoRequest THEN mail ELSE row.mail,
                   !.inferred = TRUE]

\* updateTransactionalRequestResolutionProjection, when the object resolved.
MirrorResolution(e) ==
  /\ stage[e] = "settled"
  /\ log' = IF news[e] = "nothing" THEN log
            ELSE [log EXCEPT ![hint[e]] = Proven(@, news[e], e[1])]
  /\ stage' = [stage EXCEPT ![e] = "dated"]
  /\ UNCHANGED <<vars, writing, outbound, mirror, ledgerVars, queue, tries, hint,
                 news>>

\* updateTransactionalRequestDeliveryProjection.
MirrorDelivery(e) ==
  /\ stage[e] = "dated"
  /\ log' = IF hint[e] = NoRequest THEN log
            ELSE [log EXCEPT ![hint[e]] = IF @.status = "none" THEN @ ELSE
                    [@ EXCEPT !.delivery = deliveryStatus(e[2])]]
  /\ stage' = [stage EXCEPT ![e] = "suppressed"]
  /\ UNCHANGED <<vars, writing, outbound, mirror, ledgerVars, queue, tries, hint,
                 news>>

Addressee(e) ==
  IF e[1] \in HumanMails THEN AddressOf[e[1]] ELSE RecipientOf[body[e[1]]]

\* upsertSuppressionProjection, replacing what was there; then ack.
MirrorSuppression(e) ==
  /\ stage[e] = "suppressed"
  /\ mirror' = [mirror EXCEPT ![Addressee(e)] =
                  IF classifyReason(e[2]) = "none" THEN @
                  ELSE classifyReason(e[2])]
  /\ queue' = [queue EXCEPT ![e] = "acked"]
  /\ stage' = [stage EXCEPT ![e] = "idle"]
  /\ hint' = [hint EXCEPT ![e] = NoRequest]
  /\ news' = [news EXCEPT ![e] = "nothing"]
  /\ UNCHANGED <<vars, writing, log, outbound, ledgerVars, tries>>

\* A call to the object or to D1 fails, or the consumer dies between two.
ConsumerFails(e) ==
  /\ Busy(e)
  /\ Retry(e)
  /\ UNCHANGED <<vars, writing, d1Vars, ledgerVars>>

--------------------------------------------------------------------------------
(* The dead-letter queue: a tombstone, or nothing when D1 stays down.      *)

handleDeadLetterQueue(e) ==
  /\ queue[e] = "dead"
  /\ queue' = [queue EXCEPT ![e] = "buried"]
  /\ UNCHANGED <<vars, writing, d1Vars, ledgerVars, tries, stage, hint, news>>

TombstoneFails(e) ==
  /\ queue[e] = "dead"
  /\ tries' = [tries EXCEPT ![e] = @ + 1]
  /\ queue' = [queue EXCEPT ![e] =
                 IF tries[e] = MaxRetries + DeadRetries + 1 THEN "lost" ELSE @]
  /\ UNCHANGED <<vars, writing, d1Vars, ledgerVars, stage, hint, news>>

--------------------------------------------------------------------------------

Consume(e) ==
  \/ resolveMailboxIdFromEvent(e) \/ Unresolved(e)
  \/ ForwardAgain(e) \/ ForwardTransactional(e) \/ ForwardRefused(e)
  \/ ForwardHuman(e)
  \/ MirrorResolution(e) \/ MirrorDelivery(e) \/ MirrorSuppression(e)
  \/ ConsumerFails(e)

Bury(e) == handleDeadLetterQueue(e) \/ TombstoneFails(e)

RoutingNext ==
  \/ \E q \in Requests : HandlerAnswers(q)
  \/ OtherTxStep
  \/ \E w \in writing : upsertTransactionalRequestLog(w) \/ LogWriteLost(w)
  \/ \E h \in HumanMails : OutboundSettles(h)
  \/ \E e \in Event : Publish(e) \/ Consume(e) \/ Bury(e)

\* The platform keeps delivering a message until it is acked or out of
\* attempts, and keeps running the consumer it started.
RoutingFairness == \A e \in Event : WF_allVars(Consume(e) \/ Bury(e))

RoutingSpec == RoutingInit /\ [][RoutingNext]_allVars /\ RoutingFairness

--------------------------------------------------------------------------------
(* Properties.                                                             *)

\* D1 never claims an outcome the object does not hold: late snapshots,
\* redelivered events and a stale hint leave the log behind, never ahead.
MirrorNeverLeads ==
  \A q \in Requests :
    log[q].status \in {"sent", "failed"} =>
      /\ rows[Slot(q)].request = q
      /\ rows[Slot(q)].status = log[q].status

\* An event leaves the queue as done only when the object has it in its
\* ledger; otherwise it is retried until it is dead.
AckedIsRecorded == \A e \in Event : queue[e] = "acked" => Recorded(e)

\* D1's list of suppressed recipients misses nobody an acknowledged bounce or
\* complaint is about, however often the consumer died after the object had
\* recorded it, and has nobody on it for an event the object has not recorded.
SuppressionIsMirrored ==
  /\ \A e \in Event :
       queue[e] = "acked" /\ classifyReason(e[2]) # "none" => mirror[Addressee(e)] # "none"
  /\ \A r \in Recipients :
       mirror[r] # "none" =>
         \E e \in Event : Recorded(e) /\ Addressee(e) = r /\ classifyReason(e[2]) = mirror[r]

\* Safety of the route an event takes.
EventInvariant ==
  /\ RoutingTypeOK
  /\ MirrorNeverLeads
  /\ AckedIsRecorded
  /\ SuppressionIsMirrored

\* A recipient an operator removed from the list comes back only with an event
\* the object had not seen: redelivery, however late, does not suppress again.
RemovedStaysRemoved ==
  [][\A r \in Recipients :
       suppression[r] = "none" /\ suppression'[r] # "none" =>
         events' \cup humanSeen' # events \cup humanSeen]_allVars

\* An event about a mail whose provider id the object has settles the row that
\* has it and no other, though D1, behind, took it for another request's.
KnownMailSettlesItsRow ==
  [][\A e \in events' \ events, s \in Slots :
       rows'[s] # rows[s] /\ ByProviderId(e[1]) # {} => s \in ByProviderId(e[1])]_allVars

\* Every event the provider publishes ends: done, buried with a tombstone, or
\* lost after the dead-letter queue gave up.  None is retried for ever.
EventEnds ==
  \A e \in Event :
    queue[e] = "waiting" ~> queue[e] \in {"acked", "buried", "lost"}

\* Comment of the consumer: the settled status is mirrored before the delivery
\* status, so the log is never self-contradictory.
LogNotContradictory ==
  \A q \in Requests :
    log[q].status = "unknown" =>
      log[q].delivery \in {"none", "deferred"}
================================================================================
