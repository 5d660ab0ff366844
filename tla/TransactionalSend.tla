--------------------------- MODULE TransactionalSend ---------------------------
(***************************************************************************)
(* The transactional API inside one mailbox Durable Object: requests that  *)
(* carry an API key and an idempotency key, the provider call each of them *)
(* may make, and the delivery events that later settle an open outcome.    *)
(*                                                                         *)
(* handleTransactionalSend awaits four times before it sends: the secret,  *)
(* the import of the suppression module, the payload hash and, for a       *)
(* replay, the stored hash.  Between two awaits it is one action here, and *)
(* every other request, revocation, event and reconciliation of the same   *)
(* mailbox may run in between.  From the lookup of the idempotency key to  *)
(* the provider call there is no await: reserve, charge, mark and hand     *)
(* over are one step.                                                      *)
(*                                                                         *)
(* An event reaches the object here at any time after the provider made    *)
(* it; how the queue and the D1 projection route it is left out.  All      *)
(* requests fall within one quota window and the seven days of envelope    *)
(* correlation.                                                            *)
(***************************************************************************)
EXTENDS Naturals, FiniteSets

CONSTANTS
  ApiKeys, ClientKeys,  \* who asks, and the Idempotency-Key they send
  Payloads,             \* what the payload hash covers
  Recipients,
  Requests,             \* executions of handleTransactionalSend, and the
                        \* request_id each would reserve
  KeyOf, ClientKeyOf,   \* the keys each request carries
  RecipientOf,          \* the recipient each payload names
  Senders, SenderOf,    \* the address each key sends from
  Quota,                \* sends per key in one quota window
  LastWindow,           \* bound on the quota windows (minutes or days)
  Reports,              \* kinds of event the provider reports
  NoRequest, NoPayload,
  Faults,               \* the object may crash
  Stragglers            \* a provider call may outlast thirty minutes

EventTypes == {"delivered", "deferred", "hard_bounce", "soft_bounce",
               "rejected", "complained", "failed"}

ASSUME ConstantsAssumption ==
  /\ KeyOf \in [Requests -> ApiKeys]
  /\ ClientKeyOf \in [Requests -> ClientKeys]
  /\ RecipientOf \in [Payloads -> Recipients]
  /\ SenderOf \in [ApiKeys -> Senders]
  /\ Quota \in [ApiKeys -> Nat]
  /\ LastWindow \in Nat
  /\ Reports \subseteq EventTypes
  /\ IsFiniteSet(ApiKeys) /\ IsFiniteSet(ClientKeys)
  /\ NoRequest \notin Requests
  /\ NoPayload \notin Payloads
  /\ Faults \in BOOLEAN
  /\ Stragglers \in BOOLEAN

VARIABLES
  \* storage of the object
  keyStatus,    \* api_keys.status (expiry counts as revocation)
  suppression,  \* recipient_suppressions by recipient
  rows,         \* transactional_requests by (key_id, client_idempotency_key)
  usage,        \* api_key_usage by key and window
  marker,       \* mailbox_meta["txn:v1:<request_id>"]
  events,       \* transactional_delivery_events
  \* handlers
  body,         \* the payload each request asked for
  call,         \* progress of each request
  seen,         \* what a request read before its current await
  answer,       \* status of the result
  \* external
  window,       \* the quota window the clock is in
  provider      \* what became of the mail each request handed over

storeVars == <<keyStatus, suppression, rows, usage, marker, events>>
callVars == <<body, call, seen, answer>>
vars == <<storeVars, callVars, window, provider>>

RowStatus == {"pending", "sent", "failed", "unknown"}
DeliveryStatus == {"none", "delivered", "deferred", "bounced", "rejected",
                   "complained", "failed"}
Windows == 0 .. LastWindow
Row == [request : Requests \cup {NoRequest},
        window : Windows,                    \* from created_at
        status : RowStatus,
        mail : Requests \cup {NoRequest},    \* provider_message_id
        inferred : BOOLEAN,                  \* resolved_via
        delivery : DeliveryStatus]           \* delivery_status
NoRow == [request |-> NoRequest, window |-> 0, status |-> "pending",
          mail |-> NoRequest, inferred |-> FALSE, delivery |-> "none"]

\* A hard bounce expires after ninety days; its row stays in the table.
Suppression == {"none", "hard_bounce", "expired_bounce", "complaint"}
Suppressed(r) == suppression[r] \in {"hard_bounce", "complaint"}

CallState == {"none", "authenticating", "importing", "hashing", "comparing",
              "sending", "answered", "dead"}
Awaiting == CallState \ {"none", "answered", "dead"}
Answers == {"none", "rejected", "idempotency_conflict", "accepted", "sent",
            "permanent_failure", "unknown"}

Slots == ApiKeys \X ClientKeys
Slot(q) == <<KeyOf[q], ClientKeyOf[q]>>
Reserved(s) == rows[s].request # NoRequest

\* What envelope correlation has to go by.
Envelope(q) == <<SenderOf[KeyOf[q]], RecipientOf[body[q]]>>

TypeOK ==
  /\ keyStatus \in [ApiKeys -> {"active", "revoked"}]
  /\ suppression \in [Recipients -> Suppression]
  /\ rows \in [Slots -> Row]
  /\ usage \in [ApiKeys -> [Windows -> Nat]]
  /\ marker \in [Requests -> {"none", "sending", "sent", "failed", "unknown"}]
  /\ events \subseteq Requests \X EventTypes
  /\ body \in [Requests -> Payloads \cup {NoPayload}]
  /\ call \in [Requests -> CallState]
  /\ seen \in [Requests -> RowStatus \cup {"nothing", "active", "revoked"}]
  /\ answer \in [Requests -> Answers]
  /\ window \in Windows
  /\ provider \in
       [Requests -> {"none", "requested", "accepted", "dropped", "refused"}]

Init ==
  /\ keyStatus = [k \in ApiKeys |-> "active"]
  /\ suppression = [r \in Recipients |-> "none"]
  /\ rows = [s \in Slots |-> NoRow]
  /\ usage = [k \in ApiKeys |-> [w \in Windows |-> 0]]
  /\ marker = [q \in Requests |-> "none"]
  /\ events = {}
  /\ body = [q \in Requests |-> NoPayload]
  /\ call = [q \in Requests |-> "none"]
  /\ seen = [q \in Requests |-> "nothing"]
  /\ answer = [q \in Requests |-> "none"]
  /\ window = 0
  /\ provider = [q \in Requests |-> "none"]

--------------------------------------------------------------------------------
(* handleTransactionalSend, up to the reservation.                         *)

Goto(q, phase) == call' = [call EXCEPT ![q] = phase]
See(q, what) == seen' = [seen EXCEPT ![q] = what]
Answer(q, a) ==
  /\ call' = [call EXCEPT ![q] = "answered"]
  /\ answer' = [answer EXCEPT ![q] = a]

\* The key's row is read before the secret is verified, and not again after.
ReadKey(q, p) ==
  /\ call[q] = "none"
  /\ body' = [body EXCEPT ![q] = p]
  /\ See(q, keyStatus[KeyOf[q]])
  /\ Goto(q, "authenticating")
  /\ UNCHANGED <<storeVars, answer, window, provider>>

\* Secret, binding, expiry, scopes, environment, idempotency header, body,
\* allowlist, template, variables and recipient policy: any of them may refuse.
Refuse(q) ==
  /\ call[q] = "authenticating"
  /\ See(q, "nothing")
  /\ Answer(q, "rejected")
  /\ UNCHANGED <<storeVars, body, window, provider>>

Authorize(q) ==
  /\ call[q] = "authenticating"
  /\ seen[q] = "active"
  /\ See(q, "nothing")
  /\ Goto(q, "importing")
  /\ UNCHANGED <<storeVars, body, answer, window, provider>>

\* isRecipientSuppressed, then the await of the payload hash.
CheckSuppression(q) ==
  /\ call[q] = "importing"
  /\ \/ /\ Suppressed(RecipientOf[body[q]])
        /\ Answer(q, "rejected")
     \/ /\ ~Suppressed(RecipientOf[body[q]])
        /\ Goto(q, "hashing")
        /\ UNCHANGED answer
  /\ UNCHANGED <<storeVars, body, seen, window, provider>>

\* Mutant: the quota is charged before the idempotency key is looked up.
FindExistingCharges(q) ==
  /\ call[q] = "hashing"
  /\ Reserved(Slot(q))
  /\ usage[KeyOf[q]][window] < Quota[KeyOf[q]]
  /\ usage' = [usage EXCEPT ![KeyOf[q]][window] = @ + 1]
  /\ See(q, rows[Slot(q)].status)
  /\ Goto(q, "comparing")
  /\ UNCHANGED <<keyStatus, suppression, rows, marker, events, body, answer,
                 window, provider>>

\* The slot is taken: the row is read, then its hash is compared.
FindExisting(q) ==
  /\ call[q] = "hashing"
  /\ Reserved(Slot(q))
  /\ See(q, rows[Slot(q)].status)
  /\ Goto(q, "comparing")
  /\ UNCHANGED <<storeVars, body, answer, window, provider>>

\* Mutant: a reserved request is answered as if it had been sent.
mapPendingAsSent(status) ==
  CASE status = "pending" -> "sent"
    [] status = "failed"  -> "permanent_failure"
    [] OTHER              -> status

mapDbStatusToResponse(status) ==
  CASE status = "pending" -> "accepted"
    [] status = "failed"  -> "permanent_failure"
    [] OTHER              -> status

\* Mutant: the stored payload hash is not compared.
CompareAnyBody(q) ==
  /\ call[q] = "comparing"
  /\ See(q, "nothing")
  /\ Answer(q, mapDbStatusToResponse(seen[q]))
  /\ UNCHANGED <<storeVars, body, window, provider>>

\* The answer is the status read before the await, which may be old by now.
Compare(q) ==
  /\ call[q] = "comparing"
  /\ See(q, "nothing")
  /\ Answer(q, IF body[rows[Slot(q)].request] = body[q]
               THEN mapDbStatusToResponse(seen[q])
               ELSE "idempotency_conflict")
  /\ UNCHANGED <<storeVars, body, window, provider>>

OverQuota(q) ==
  /\ call[q] = "hashing"
  /\ ~Reserved(Slot(q))
  /\ usage[KeyOf[q]][window] >= Quota[KeyOf[q]]
  /\ Answer(q, "rejected")
  /\ UNCHANGED <<storeVars, body, seen, window, provider>>

\* Mutant: the row is replaced without looking for one first.
ReserveReplaces(q) ==
  /\ call[q] = "hashing"
  /\ usage[KeyOf[q]][window] < Quota[KeyOf[q]]
  /\ rows' = [rows EXCEPT ![Slot(q)] =
               [NoRow EXCEPT !.request = q, !.window = window]]
  /\ usage' = [usage EXCEPT ![KeyOf[q]][window] = @ + 1]
  /\ marker' = [marker EXCEPT ![q] = "sending"]
  /\ provider' = [provider EXCEPT ![q] = "requested"]
  /\ Goto(q, "sending")
  /\ UNCHANGED <<keyStatus, suppression, events, body, seen, answer, window>>

\* transactionSync, the marker and EMAIL.send, with no await in between.
Reserve(q) ==
  /\ call[q] = "hashing"
  /\ ~Reserved(Slot(q))
  /\ usage[KeyOf[q]][window] < Quota[KeyOf[q]]
  /\ rows' = [rows EXCEPT ![Slot(q)] =
               [NoRow EXCEPT !.request = q, !.window = window]]
  /\ usage' = [usage EXCEPT ![KeyOf[q]][window] = @ + 1]
  /\ marker' = [marker EXCEPT ![q] = "sending"]
  /\ provider' = [provider EXCEPT ![q] = "requested"]
  /\ Goto(q, "sending")
  /\ UNCHANGED <<keyStatus, suppression, events, body, seen, answer, window>>

--------------------------------------------------------------------------------
(* The provider (external), and the row once send settles.                 *)

ProviderDecides(q, fate) ==
  /\ provider[q] = "requested"
  /\ provider' = [provider EXCEPT ![q] = fate]
  /\ UNCHANGED <<storeVars, callVars, window>>

\* The mail was transmitted; or the provider took it, gave it an id and never
\* handed it on; or it refused it outright.
ProviderAccepts(q) == ProviderDecides(q, "accepted")
ProviderDrops(q) == ProviderDecides(q, "dropped")
ProviderRefuses(q) == ProviderDecides(q, "refused")

\* UPDATE ... WHERE request_id = q: whatever the row says by now, status and
\* provider id are overwritten; resolved_via is not touched.
SettleRow(q, status, mail) ==
  rows' = [rows EXCEPT ![Slot(q)] =
             IF @.request = q THEN [@ EXCEPT !.status = status, !.mail = mail]
                              ELSE @]

SendReturns(q) ==
  /\ call[q] = "sending"
  /\ provider[q] \in {"accepted", "dropped"}
  /\ marker' = [marker EXCEPT ![q] = "sent"]
  /\ SettleRow(q, "sent", q)
  /\ Answer(q, "sent")
  /\ UNCHANGED <<keyStatus, suppression, usage, events, body, seen, window,
                 provider>>

\* Mutant: an ambiguous error is stored as a refusal.
AmbiguousIsFailure(q) ==
  /\ call[q] = "sending"
  /\ marker' = [marker EXCEPT ![q] = "failed"]
  /\ SettleRow(q, "failed", NoRequest)
  /\ Answer(q, "unknown")
  /\ UNCHANGED <<keyStatus, suppression, usage, events, body, seen, window,
                 provider>>

\* Any error that is not a known refusal, whatever the provider did.
SendAmbiguous(q) ==
  /\ call[q] = "sending"
  /\ marker' = [marker EXCEPT ![q] = "unknown"]
  /\ SettleRow(q, "unknown", NoRequest)
  /\ Answer(q, "unknown")
  /\ UNCHANGED <<keyStatus, suppression, usage, events, body, seen, window,
                 provider>>

SendRefused(q) ==
  /\ call[q] = "sending"
  /\ provider[q] = "refused"
  /\ marker' = [marker EXCEPT ![q] = "failed"]
  /\ SettleRow(q, "failed", NoRequest)
  /\ Answer(q, "permanent_failure")
  /\ UNCHANGED <<keyStatus, suppression, usage, events, body, seen, window,
                 provider>>

--------------------------------------------------------------------------------
(* Crashes, the stale-request reconciler, revocation, suppression admin.   *)

NextWindow ==
  /\ window < LastWindow
  /\ window' = window + 1
  /\ UNCHANGED <<storeVars, callVars, provider>>

\* Storage stays, and so does what the provider was asked to do.
ObjectCrash ==
  /\ Faults
  /\ \E q \in Requests : call[q] \in Awaiting
  /\ call' = [q \in Requests |-> IF call[q] \in Awaiting THEN "dead" ELSE call[q]]
  /\ seen' = [q \in Requests |-> "nothing"]
  /\ UNCHANGED <<storeVars, body, answer, window, provider>>

\* Pending for more than thirty minutes.
Stale(s) ==
  /\ Reserved(s)
  /\ rows[s].status = "pending"
  /\ Stragglers \/ call[rows[s].request] # "sending"

ReconcileStale ==
  \E old \in SUBSET Slots \ {{}} :
    /\ \A s \in old : Stale(s)
    /\ rows' = [s \in Slots |-> IF s \in old
                                THEN [rows[s] EXCEPT !.status = "unknown"]
                                ELSE rows[s]]
    /\ UNCHANGED <<keyStatus, suppression, usage, marker, events, callVars,
                   window, provider>>

RevokeKey(k) ==
  /\ keyStatus[k] = "active"
  /\ keyStatus' = [keyStatus EXCEPT ![k] = "revoked"]
  /\ UNCHANGED <<suppression, rows, usage, marker, events, callVars, window,
                 provider>>

ExpireSuppression(r) ==
  /\ suppression[r] = "hard_bounce"
  /\ suppression' = [suppression EXCEPT ![r] = "expired_bounce"]
  /\ UNCHANGED <<keyStatus, rows, usage, marker, events, callVars, window,
                 provider>>

\* Removal with allowProviderRemoval; without it only manual entries go, and
\* nothing in the code adds one.
RemoveSuppression(r) ==
  /\ suppression[r] # "none"
  /\ suppression' = [suppression EXCEPT ![r] = "none"]
  /\ UNCHANGED <<keyStatus, rows, usage, marker, events, callVars, window,
                 provider>>

--------------------------------------------------------------------------------
(* Delivery events.                                                        *)

Bounces == {"hard_bounce", "soft_bounce"}
Contrary(type) ==
  CASE type \in Bounces      -> {"complained"}
    [] type = "complained" -> Bounces
    [] OTHER               -> {}

\* Events the provider can make about the mail of request q (external).  Mail
\* that bounced is not complained about.
Reportable(q) ==
  CASE provider[q] = "accepted" ->
         {type \in {"delivered", "deferred", "complained"} \cup Bounces :
            \A other \in Contrary(type) : <<q, other>> \notin events}
    [] provider[q] = "dropped"  -> {"rejected", "failed"}
    [] OTHER                    -> {}

classifyReason(type) ==
  CASE type = "hard_bounce" -> "hard_bounce"
    [] type = "complained"  -> "complaint"
    [] OTHER                -> "none"

deliveryStatus(type) ==
  IF type \in Bounces THEN "bounced" ELSE type

\* INSERT OR IGNORE: the first entry for a recipient stands, expired or not.
addSuppression(r, type) ==
  IF classifyReason(type) # "none" /\ suppression[r] = "none"
  THEN suppression' = [suppression EXCEPT ![r] = classifyReason(type)]
  ELSE UNCHANGED suppression

\* What a terminal event proves about an ambiguous send.
statusProvenBy(type) ==
  CASE type = "deferred"               -> "nothing"
    [] type \in {"rejected", "failed"} -> "failed"
    [] OTHER                           -> "sent"

\* The row an event names by its provider id, or else the only row with an
\* open outcome, no provider id and the same envelope.
ByProviderId(q) == {s \in Slots : Reserved(s) /\ rows[s].mail = q}
ByEnvelope(q) ==
  {s \in Slots : /\ Reserved(s)
                 /\ rows[s].status = "unknown"
                 /\ rows[s].mail = NoRequest
                 /\ Envelope(rows[s].request) = Envelope(q)}

correlate(q) ==
  IF ByProviderId(q) # {}
  THEN {s \in ByProviderId(q) : Envelope(rows[s].request) = Envelope(q)}
  ELSE IF Cardinality(ByEnvelope(q)) = 1 THEN ByEnvelope(q) ELSE {}

\* Mutant: a terminal event settles a row whatever its status.
ResolvedAlways(row, q, type) ==
  LET proven == statusProvenBy(type)
  IN [row EXCEPT
        !.mail = IF row.mail = NoRequest THEN q ELSE @,
        !.status = IF proven # "nothing" THEN proven ELSE @,
        !.inferred = @ \/ proven # "nothing",
        !.delivery = deliveryStatus(type)]

\* resolveAmbiguousRequest, then the delivery status.
Resolved(row, q, type) ==
  LET proven == statusProvenBy(type)
  IN [row EXCEPT
        !.mail = IF row.status = "unknown" /\ row.mail = NoRequest THEN q ELSE @,
        !.status = IF row.status = "unknown" /\ proven # "nothing"
                   THEN proven ELSE @,
        !.inferred = @ \/ (row.status = "unknown" /\ proven # "nothing"),
        !.delivery = deliveryStatus(type)]

\* The row an event is attributed to, and the marker of its request.
SettleSlot(s, q, type) ==
  LET row == rows[s]
      proven == statusProvenBy(type)
  IN /\ rows' = [rows EXCEPT ![s] = Resolved(row, q, type)]
     /\ marker' = [marker EXCEPT ![row.request] =
                     IF /\ row.status = "unknown" /\ proven # "nothing"
                        /\ @ = "unknown"
                     THEN proven ELSE @]

\* An event no row answers for is refused and retried: no step.
DeliveryEvent(q, type) ==
  /\ type \in Reports \cap Reportable(q)
  /\ <<q, type>> \notin events
  /\ \E s \in correlate(q) : SettleSlot(s, q, type)
  /\ events' = events \cup {<<q, type>>}
  /\ addSuppression(RecipientOf[body[q]], type)
  /\ UNCHANGED <<keyStatus, usage, callVars, window, provider>>

\* An event of mail a person confirmed from a mailbox: no row to settle.
OutboundDeliveryEvent(r, type) ==
  /\ type \in Reports
  /\ classifyReason(type) # "none" /\ suppression[r] = "none"
  /\ addSuppression(r, type)
  /\ UNCHANGED <<keyStatus, rows, usage, marker, events, callVars, window,
                 provider>>

--------------------------------------------------------------------------------

SendSettles(q) == SendReturns(q) \/ SendAmbiguous(q) \/ SendRefused(q)

HandlerStep(q) ==
  \/ Refuse(q) \/ Authorize(q) \/ CheckSuppression(q)
  \/ FindExisting(q) \/ Compare(q) \/ OverQuota(q) \/ Reserve(q)
  \/ SendSettles(q)

ProviderStep(q) == ProviderAccepts(q) \/ ProviderDrops(q) \/ ProviderRefuses(q)

AdminStep ==
  \/ ReconcileStale
  \/ \E k \in ApiKeys : RevokeKey(k)
  \/ \E r \in Recipients : ExpireSuppression(r) \/ RemoveSuppression(r)

EventStep ==
  \/ \E q \in Requests, type \in EventTypes : DeliveryEvent(q, type)
  \/ \E r \in Recipients, type \in EventTypes : OutboundDeliveryEvent(r, type)

Next ==
  \/ \E q \in Requests :
       \/ \E p \in Payloads : ReadKey(q, p)
       \/ HandlerStep(q)
       \/ ProviderStep(q)
  \/ AdminStep
  \/ EventStep
  \/ NextWindow
  \/ ObjectCrash

Spec == Init /\ [][Next]_vars

--------------------------------------------------------------------------------
(* Properties.                                                             *)

Taken(q) == provider[q] \in {"accepted", "dropped"}

\* Whatever the retries, replays, crashes and reconciliations, one key and one
\* Idempotency-Key hand at most one mail to the provider, ever; and a row
\* stands for exactly the request that handed its mail over.
AtMostOneMail ==
  /\ \A q \in Requests : provider[q] # "none" <=> rows[Slot(q)].request = q
  /\ \A q1, q2 \in Requests :
       Slot(q1) = Slot(q2) /\ provider[q1] # "none" /\ provider[q2] # "none"
         => q1 = q2

Charged(k, w) ==
  {s \in Slots : s[1] = k /\ Reserved(s) /\ rows[s].window = w}

\* The quota is charged exactly once for every reservation, never for a
\* replay, a conflict or a refusal, and is never exceeded, however many
\* requests passed the earlier checks together.
QuotaExact ==
  \A k \in ApiKeys, w \in Windows :
    /\ usage[k][w] = Cardinality(Charged(k, w))
    /\ usage[k][w] <= Quota[k]

\* A settled status that was not inferred from an event is what the provider
\* itself answered about this very request, provider id included.
StatusIsTrue ==
  \A s \in Slots :
    Reserved(s) /\ ~rows[s].inferred =>
      /\ rows[s].status = "sent" =>
           Taken(rows[s].request) /\ rows[s].mail = rows[s].request
      /\ rows[s].status = "failed" => provider[rows[s].request] = "refused"

\* No answer, fresh or replayed from a row read before an await, speaks for
\* another payload, or claims an outcome that was neither seen nor inferred.
AnswerIsTrue ==
  \A q \in Requests :
    LET row == rows[Slot(q)]
    IN /\ answer[q] \in {"sent", "accepted", "unknown", "permanent_failure"} =>
            row.request # NoRequest /\ body[row.request] = body[q]
       /\ answer[q] = "sent" => row.inferred \/ Taken(row.request)
       /\ answer[q] = "permanent_failure" =>
            row.inferred \/ provider[row.request] = "refused"
       /\ answer[q] \in {"rejected", "idempotency_conflict"} =>
            provider[q] = "none"

\* A row at a final status is left alone by the reconciler, by late and
\* contradicting events and by replays: only its own send call, while it still
\* runs, writes it again.
SettledStays ==
  [][\A s \in Slots :
       /\ Reserved(s)
       /\ rows[s].status \in {"sent", "failed"}
       /\ call[rows[s].request] # "sending"
       => /\ rows'[s].status = rows[s].status
          /\ rows'[s].request = rows[s].request]_vars

\* Why the above hold, as one inductive invariant: rows are keyed by the slot
\* of the request that reserved them, a request has handed its mail over only
\* when it is past the reservation, and what a replay read is still true.
RowOwner == \A s \in Slots : Reserved(s) => Slot(rows[s].request) = s

CallMatchesProvider ==
  \A q \in Requests :
    /\ call[q] = "none" <=> body[q] = NoPayload
    /\ call[q] \in Awaiting \ {"sending"} => provider[q] = "none"
    /\ call[q] = "none" => provider[q] = "none"
    /\ call[q] = "sending" => provider[q] # "none"
    /\ call[q] # "answered" => answer[q] = "none"

SeenIsTrue ==
  \A q \in Requests :
    LET row == rows[Slot(q)]
    IN call[q] = "comparing" =>
         /\ row.request # NoRequest
         /\ seen[q] \in RowStatus
         /\ seen[q] = "sent" => row.inferred \/ Taken(row.request)
         /\ seen[q] = "failed" =>
              row.inferred \/ provider[row.request] = "refused"

TxInvariant ==
  /\ TypeOK
  /\ AtMostOneMail
  /\ QuotaExact
  /\ StatusIsTrue
  /\ AnswerIsTrue
  /\ RowOwner
  /\ CallMatchesProvider
  /\ SeenIsTrue

--------------------------------------------------------------------------------
(* What documents and comments of the repository say, and the code breaks. *)

\* An event matching no provider id belongs to the one open send of its
\* envelope: a send it resolved to 'sent' was not refused.
ResolvedMeansMailed ==
  \A s \in Slots :
    Reserved(s) /\ rows[s].inferred /\ rows[s].status = "sent" =>
      provider[rows[s].request] # "refused"

\* Once a complaint about a recipient is in, the next send to it is refused.
ComplaintSuppresses ==
  [][\A q \in Requests :
       <<q, "complained">> \in events' \ events =>
         Suppressed(RecipientOf[body[q]])']_vars
================================================================================
