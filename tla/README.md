# TLA+ verification of reccado

reccado is a self-hosted mailbox on Cloudflare Workers. Mail arrives through
Email Routing and queues, lives in one Durable Object (DO) per mailbox, is
indexed in D1, is announced in Telegram, and leaves only when a person confirms
a draft or when a scoped API key asks for a transactional mail. The hard part of
the program is not any single handler. It is that several kinds of party
(Workers that may die between two awaits, a single-threaded DO that interleaves
handlers at its awaits, queues that deliver again and out of order, an email
provider that may answer late or never, operators' scripts that are stopped and
run again) have to agree on *what happened*, with no transaction across them.

This directory holds TLA+ specifications translated from the source, TLC
configurations that check them on small instances, and TLAPS proofs of the main
safety results for any instance.

## 1. Inventory

`PROJECT.json` lists every component with its status, and the source lines each
definition stands for. Here is what each one keeps, does and risks.

| component | state | operations | hard behaviour | what makes it correct |
|---|---|---|---|---|
| **Outbound send saga** (Worker; `lib/outbound-send.ts`, `cloudflare/scheduled.ts`) | `outbound_sends` row per attempt key, `message_index` (D1) | look up, claim, refetch, call the DO, settle the row, index; hourly sweep | Worker killed between two writes; call to the DO breaks while the DO goes on; sweep overwrites a row that settled | nothing is sent twice; every row left at `sending` moves on; every caller is answered |
| **Drafts and confirm-send** (DO; `do/mailbox-do.ts`) | `outbound_drafts`, one marker per attempt key, one gate per draft (`mailbox_meta`), stored copies | create, update, request-send, confirm-send, cancel | handlers interleave at `EMAIL.send`; an ambiguous error; a crash while the provider holds the mail | one mail per draft; gate and marker agree; copies are real; closed drafts stay closed |
| **Transactional API** (DO; `do/transactional-send-ops.ts`) | `transactional_requests`, `api_key_usage`, marker per request | authenticate, authorise, check suppression, replay or reserve, send, settle; reconcile | four awaits before the send; replays of a row that changes; crash mid-send; reconciler against a live send | one mail per Idempotency-Key; exact quota; truthful statuses and answers |
| **Delivery events and suppressions** (`cloudflare/email-events*.ts`, `do/mailbox-suppressions.ts`) | queue, `transactional_delivery_events`, `recipient_suppressions`, resolved rows; D1 log and mirror | route by the D1 log, correlate (provider id, else envelope), resolve, suppress, mirror, retry, bury | log row late or lost; DO settled but D1 not; redelivery after an operator's removal | settled rows stay; the mirror never leads; an acknowledged event is recorded; every event ends |
| **Inbound ingest** (`cloudflare/email-handler.ts`, `queue-consumer.ts`, `dlq-consumer.ts`, `do/mailbox-ingest.ts`) | R2 object, queue, `messages`, D1 `inbound_events` and index | receive, put, enqueue, insert, index, notify, retry, dead-letter | crash between insert and index; concurrent duplicates; conflict after success | stored once; acknowledged mail is kept; one notification; no mail stays on the queue |
| **Mailbox rebuild scripts** (`scripts/reingest-mailbox.ts`, `verify-mailbox-rebuild.ts`) | old index, ledger, journal of a run | replay oldest first, wait for each row, restore folders; compare object with R2 | rows of an older run; waits that end too early; a run that dies | what is reported inserted is stored; a verifier that passes tells the truth |
| **Schema migrations** (`do/mailbox-do.ts`, `do/mailbox-schema.ts`) | tables, columns, indices, recorded version | constructor: schema, then seven migrations | cold starts that throw half-way and keep or lose what they wrote; rebuilds by renaming | every column arrives; no row is lost; a sent copy shows what went out |
| **API keys and templates** (`do/transactional-key-ops.ts`, `api/mailbox-routes.ts`) | `api_keys`, `api_key_events`, `templates`, D1 projection | create, rename, rotate, revoke, authenticate; create, revise, archive, sync | rotation tests the key, awaits, then writes; projections in another order | no late use of a revoked key; retired stays retired; one audit trail |
| **Mail routing** (D1; `db/d1.ts`, `api/hono.ts`, `email-handler.ts`) | mailboxes, domain, aliases, rules | create, enable, disable, alias and rule edits; resolve a recipient | every statement is an await; a resolution reads three tables | no edit takes an address away; mail stays in the mailbox an alias names |
| **Owners, pairing and sessions** (`db/owners.ts`, `telegram/operators.ts`, `api/auth.ts`) | identities, codes, sessions, cookies | mint, expire, spend in Telegram or on the web, link, gate a request | an attempt that dies between spending and linking; cookies that outlive sessions | one owner per code; only owners enter; a code is always to be had |
| **Webhook registration** (`telegram/registration.ts`) | Telegram's webhook, D1 record | hourly comparison and repair | a pass that fails anywhere; token, build and origin move; a third party | the record was true; the webhook comes back |
| **Telegram notifications** (`telegram/notify.ts`, `noise.ts`, `sweep.ts`, `admin.ts`, `cards.ts`) | links, topics, held mail, cards | announce, hold, digest, create, heal and map topics, restate cards | retries after a card was posted; topic claimed twice; flush racing an arrival | acknowledged mail can be answered or is held; one topic; held mail is digested; the newest card is right |
| **Telegram replies** (`telegram/webhook.ts`, `drafts.ts`) | `telegram_drafts`, `telegram_actions` | reply becomes a draft with a preview; edit; send and discard buttons | redelivered updates; edit racing the send button | one mail per reply, and as it was shown |
| **Provisioning and DNS gate** (`lib/provision.ts`, `scripts/setup-sending.ts`) | provider's sending name, DMARC, SPF, subscriptions, registry | enable, publish, route, subscribe, register; verify | a lost call; two programs at once; a subscription that is half right | a claim of completeness is true; asking again finishes |
| **Onboarding** (`scripts/onboard.ts`, `lib/onboard-core.ts`) | the whole installation, 1Password items, keys | thirteen dependent steps: read, decide, apply, read back | stale DNS and deploys; a key whose plaintext is lost | exit code 0 is the truth; running it again gets there |
| **Setup commands and deploys** (`scripts/lib/*-config.ts`, `deploy.ts`, `setup-cloud.ts`, `setup-domain.ts`) | tracked and generated configuration, `dist/`, deployed Worker | snapshot, overlay, union, build, patch, deploy | four writers of one file that overlays another | nothing that was set up is lost; deploys only add |
| **Feedback liveness** (`lib/feedback-liveness.ts`, `db/d1.ts`, `do/transactional-send-ops.ts`) | none of its own: send times and event times in D1's log and in the object's rows | judge a domain for `/api/health`, and a request's channel for its status | a log written late or never; two clocks; silence that is only youth | no false `live`, no alarm without an outage, an alarm that ends |
| HTTP API, MCP facade, realtime, MIME and identifiers, Telegram formatting, web UI | little or none of their own | — | — | see section 8 |

How they interact: the HTTP API and the Telegram webhook call
`confirmDraftSend` in a Worker, which calls the mailbox DO over `stub.fetch`;
the DO calls the provider. `/v1/.../transactional` calls the DO directly, and
the DO writes a D1 log row without waiting for it. The provider's events come
back through a queue; the consumer uses that D1 row only to find the mailbox,
and the DO decides from its own rows. Inbound mail passes through routing, R2
and a queue into the DO, then into D1 and onto the notification queue, which
Telegram's notifier consumes. The sweeps and the reconciler are the only
repairs; an operator repairs the rest with the scripts.

## 2. Modules

| module | what it is | extends | checked in |
|---|---|---|---|
| `DraftMail` | abstract promise: an attempt is handed to the provider only while no other attempt of the draft is outstanding or was ever accepted | | `confirm_safety` (refinement) |
| `ConfirmSend` | saga, DO, provider and sweep around one mailbox's drafts | | `MCConfirmSend`, proofs in `ConfirmSendProofs` |
| `TransactionalSend` | the transactional API and the DO's side of delivery events | | `MCTransactionalSend`, proofs in `TransactionalSendProofs` |
| `EventRouting` | the queue, the consumer and the D1 mirror around that object | `TransactionalSend` | `MCEventRouting`, proofs in `EventProofs` |
| `InboundIngest` | handler, queue, object and D1 for inbound mail | | `MCInbound`, proofs in `IngestProofs` |
| `MailboxSchema` | the object's constructor and migrations | | `MCInbound`, proofs in `IngestProofs` |
| `MailboxRebuild` | replay and verification of a mailbox over the real queue and object | `InboundIngest` | `MCOperator`, proofs in `IngestProofs` |
| `ApiKeys`, `MailRouting` | what an administrator edits while the system runs | | `MCControl`, proofs in `ControlProofs` |
| `FeedbackLiveness` | the verdict on a sending domain's event channel | | `MCControl`, proofs in `ControlProofs` |
| `OwnerAccess`, `WebhookRegistration` | who may act; where Telegram delivers | | `MCAccess`, proofs in `AccessProofs` |
| `TelegramNotify`, `TelegramCards`, `TelegramReply` | the bridge | | `MCTelegram`, proofs in `TelegramProofs` |
| `SendingDomain`, `Onboarding` | setting an installation up | | `MCOnboard`, proofs in `SetupProofs` |
| `DeployConfig` | the commands that write the configuration, and what a deploy ships of it | | `MCOperator`, proofs in `SetupProofs` |

Components are composed where they interact: `EventRouting` takes the steps
of the object from `TransactionalSend` and adds queue and D1 around them, `MailboxRebuild` drives `InboundIngest`, `ConfirmSend` joins saga, object,
provider and sweep. `MCControl`, `MCAccess`, `MCTelegram`, `MCInbound`, `MCOperator` and `MCOnboard` hold
several components that share no state; a variable `live`, chosen in the initial
state, says which one a behaviour moves, so the state space is the sum of
theirs and not their product. Fairness is then restated on the turns of the product.

**One action is the code between two awaits.** A Durable Object runs one thread
and lets another handler in only at an await, and its storage is synchronous
SQLite, so everything from one await to the next happens at once. In a Worker
every D1 statement is an await. Storage survives a crash; a handler that was
awaiting does not. A script's steps are its calls and its writes of files. Where
two steps cannot be told apart by any other actor they are one.

### ConfirmSend

| action | code |
|---|---|
| `CreateDraft`, `UpdateDraft`, `RequestSendDraft`, `CancelDraft` | the DO routes of the same names, `do/mailbox-do.ts:290-395, 832-841` |
| `LookUp`, `Claim`, `Refetch` | `lib/outbound-send.ts:48-151`: read the row, insert it, read it again |
| `RejectConfirm`, `StartSend` | `confirmSendDraft` up to `EMAIL.send`: marker answers, draft checks, gate, marker, hand-over (`mailbox-do.ts:525-677`) |
| `ProviderAccepts`, `ProviderRefuses` | the provider (external) |
| `SendResolves`, `CommitSend` | the send returns, the copy is uploaded to R2 (an await), then marker, draft, copy and gate change in one transaction (`664-830`) |
| `SendAmbiguous`, `SendRefused` | the two error branches (`679-704`): only a known refusal frees the gate |
| `SettleLedger`, `FetchThrows`, `IndexMessage` | the Worker after the call (`outbound-send.ts:138-252`) |
| `WorkerCrash`, `ObjectCrash` | enabled when `Faults` |
| `SweepList`, `SweepWrite` | `cloudflare/scheduled.ts:13-50`: list stale rows, then update them one at a time |

`provider[c]` records what became of the mail that caller `c`'s request handed
over; it lives outside reccado and goes on after any crash. `Stragglers` lets a
live saga outlast the sweep's ten minutes.

### TransactionalSend

| action | code |
|---|---|
| `ReadKey` | `authenticateTransactionalKey` up to the await of the secret check (`transactional-send-ops.ts:77-102`) |
| `Refuse`, `Authorize` | every check that needs no shared state, up to the await of the suppression import (`102-241`) |
| `CheckSuppression` | `241-261`, up to the await of the payload hash |
| `FindExisting`, `Compare` | the replay: the row is read, its hash is awaited, the status *read before* is answered (`268-285`) |
| `OverQuota`, `Reserve` | lookup, transaction (insert and charge), marker and `EMAIL.send` with no await in between (`287-473`) |
| `SendReturns`, `SendAmbiguous`, `SendRefused` | marker, row and answer after the await (`375-392, 475-508`) |
| `ReconcileStale` | `1053-1073`; a nonempty set of rows pending for thirty minutes becomes `unknown` in one step |
| `RevokeKey`, `ExpireSuppression`, `RemoveSuppression` | key and suppression administration, the ninety-day expiry |
| `DeliveryEvent` | `handleDeliveryEvent` of the DO with `correlate`, `Resolved` and `addSuppression` (`mailbox-do.ts:2096-2192`, `mailbox-suppressions.ts`) |
| `OutboundDeliveryEvent` | the same for a mail sent from a draft, which has no row |
| `ProviderAccepts`, `ProviderDrops`, `ProviderRefuses`, `NextWindow`, `ObjectCrash` | environment |

`rows` is keyed by `(key_id, client_idempotency_key)`, the table's unique index,
and `rows[s].request` says whose `request_id` the row has. `provider[q]` is
`dropped` when the provider took the mail, gave it an id and reported
`rejected` or `failed` later.

What is abstracted: a payload is a model value and the payload hash is compared
as the payload; the checks in `Refuse` refuse or do not, whatever their reason;
the per-minute and the daily counter, which the code tests and charges
together, are one counter per window; all events fall within the seven days of
envelope correlation; the provider always returns an id with an accepted mail;
expiry of a key counts as revocation.

### EventRouting

| action | code |
|---|---|
| `upsertTransactionalRequestLog`, `LogWriteLost`, `OutboundSettles` | the D1 log row the object writes with `waitUntil`, from a snapshot of its row (`mailbox-do.ts:1377`) |
| `Publish`, `Retry` | the provider's event and the queue (external): redelivery while tries are left, then the dead-letter queue |
| `Routes`, `Unresolved` | `resolveMailboxIdFromEvent` (`email-events-consumer.ts`) |
| `ForwardTransactional`, `ForwardRefused`, `ForwardHuman` | the call to the object, which takes `DeliveryEvent` of `TransactionalSend` |
| `MirrorResolution`, `MirrorDelivery`, `MirrorSuppression` | the D1 statements after the answer, one step each |
| `ConsumerFails`, `handleDeadLetterQueue`, `TombstoneFails` | the catch block and the dead-letter consumer |

A mail sent from a draft (`HumanMails`) has no row in `rows`; it shares its
envelope with no API send.


### InboundIngest

| action | code |
|---|---|
| `PutRaw`, `SendToQueue`, `HandlerFails` | `email-handler.ts` after routing: raw MIME to R2, then the queue; a sender whose mail is refused tries again |
| `Take`, `Ack`, `ConsumerFails` | one message of a batch, its acknowledgement, `message.retry()` (`queue-consumer.ts`) |
| `CallerGone` | the consumer dies, or its call breaks, while the object goes on |
| `Check`, `ParseAndPut`, `Store` | `ingestInboundEmail` between its awaits: look at the ledger, parse and upload, then notice a concurrent insert (`resolveConcurrentIdempotencyConflict`) or insert |
| `RecordConflict`, `OpsConflict`, `RecordDuplicate`, `IndexMail`, `RecordProcessed`, `Notify` | the D1 statements and the notification after the object's answer |
| `handleDeadLetterQueue` | the tombstone of a mail that was given up |

A *delivery* is one run of the handler; `KeyOf` gives mailbox and Message-ID,
`RawOf` the bytes, `ShaOf` their hash.

### MailboxRebuild

`Push`/`Publish`, `Poll`, `TimeOut`, `Restorable`/`Finish` are the loop of
`reingest-mailbox.ts` over the old index, oldest first; `PassOver` is its skip;
a push that fails may have been queued all the same; `ScriptDies` and a second run with `--force` the ways it is interrupted and
repeated. `ReadObject` and `Verify` are `verify-mailbox-rebuild.ts`, which reads
the object and then the index, with the queue running in between. The queue and
the object are `InboundIngest`.

### MailboxSchema

One turn of the constructor is one behaviour of `pc` through the schema and the
migrations in order; `ConstructorFails` throws at any statement and keeps or
drops what the turn wrote (whether the platform rolls back a throwing
constructor is left open); `LegacyFails` is the exception that is caught. The
initial states are the storage of every earlier release, with and without the
legacy `messages` table, with a draft that was or was not edited while it was sent.

### ApiKeys and MailRouting

`createApiKey`, `rotateApiKey`, `revokeApiKey`, `updateApiKeySenderName` are the
object's turns (the first two with the await of the hash inside), `projectApiKey`
and `readDoJson` the Worker's part of the same call; `getApiKeyRecord` and
`authenticateTransactionalKey` a product's send up to and after the check of its
secret; `syncTemplates` with the three template calls is one turn. In
`MailRouting` each action is one D1 statement of an edit (`createMailbox` with
`ensurePrimaryAlias`, `insertAliasIfMissing`, `insertRoutingRule`, `updateRoutingRule`, …)
or of a resolution (`lookupActiveAlias`, `aliasMailbox`, `getDomainByName`,
`listRoutingRules`).

### FeedbackLiveness

`classifyFeedbackLiveness` is the classifier of `lib/feedback-liveness.ts`, branch by
branch; `Observation` is the aggregate query behind it, taken of D1's log for every
mailbox (`readSenderFeedbackObservations`) and of one mailbox's rows for one domain
(`observeSenderFeedback`). Around them the log comes about as `EventRouting` has it, in
four actions: `Dispatch`, `LogWrite` (late, repeated, or never), `EventStampsObject`,
which stamps the time of arrival, and `EventStampsLog`, which stamps the event's own
time. The channel is `Cut` and `Restore`d at any moment; `lastUp` and `lastDown` are when
each domain's worked last and failed last. Time is discrete: `Tick` is the unit of
`Maturity` (a day) and `Lookback` (thirty days), whose order is all the code uses.

One assumption about the world is in `Tick`: an acknowledged send over a channel that
worked ever since has its event, in both tables, before it is mature (`Owed`). It is the
rationale that `lib/feedback-liveness.ts` gives for the length of a day, and it leaves out sends to
verified Email Routing destinations, for which no event is published
(docs/OPERATIONS.md:297): a domain that mails only those is called dark with nothing wrong.

### OwnerAccess and WebhookRegistration

`Offer`, `Spend`, `linkOwnerIdentity` and `CloseCodes` are one attempt to use a code, in
Telegram (`Accounts`) or on the web (`Mails`), which may be cut off after any of them
(`ClaimLost`), also with the owner linked and no session made yet;
`ensureOwnerPairingCode`/`ensurePairingCode` is the hourly mint; `gateSendOtp`,
`RevokeSession`, `CookieExpires`, `getAuthContext`, `requireAuth` are the gate. In
`WebhookRegistration` a pass is `Begin`, `getWebhookInfo`, `Compare`, `setWebhook`,
`setTelegramWebhookRegistration`, and may fail after each; `RotateToken`, `Deploy`,
`recordDeploymentOrigin` and `TakeOver` are what moves under it.

### TelegramNotify, TelegramCards, TelegramReply

| action | code |
|---|---|
| `Receive`, `retainNotification`, `isNotQuiet` | `deliverInboundNotification`: skip, hold for the night, or go on |
| `resolveTopicId`, `createForumTopic`, `claimTelegramTopic`, `forgetTelegramTopic`, `sendToMailboxTopic`, `insertTelegramLink` | find, create and claim, heal, post, link (`notify.ts`, `db/telegram-topics.ts`) |
| `CronBegin`, `pendingRetained`, `sendDigest`, `markDigested`, `deleteStaleDigestItems` | the hourly pass (`sweep.ts`, `noise.ts`) |
| `NotifyRetry`, `Redelivered`, `FlushFails` | the queue's retries; a worker that dies |
| `toggleSenderMute`, `adoptTelegramChat`, `rebindTelegramChat`, `mapTelegramTopic` … `upsertTelegramTopic`, `DeleteTopic` | the operator |
| `postMailCard`, `insertCardLink`, `WebAction`, `refreshTelegramCard`, `PressButton`, `restateAfterAction` | cards (`cards.ts`, `links.ts`) |
| `createDraft` … `rememberDraftPreview` | a reply becomes a draft, buttons and a preview (`webhook.ts`, `drafts.ts`) |
| `getDraftRow`, `checkStatus`, `applyDraftEdit`, `restatePreview` | a correction |
| `getTelegramAction`, `confirmDraftSend`, `SendSettles`, `cancelDraft`, `deleteTelegramAction`, `editMessageText` | a press of a button; the send goes on in the object by itself |

### SendingDomain, Onboarding, DeployConfig

In `SendingDomain` the Worker's request and the operator's command are two
sequential programs over one provider account and one registry; each call may be
refused or lost after it took effect, each program may stop anywhere. In
`Onboarding` a step of a run is decide (`decide…`), apply (`…Step`), read back
(`readBack`, `settle`); `mintKey` … `revokeUnstored` is the key step, whose plaintext lives
only in the run. A stored key may be as the manifest has it, `misnamed` (its display name
is corrected in place, `fixItem`), or may differ in a field that is fixed at creation
(`differs`: the step is blocked). `deploy`, `remedy`, `revokeKey`, `deleteItem`, `Propagate`
and `sessionExpires` are what happens between runs.

In `DeployConfig` a file is the set of the block it holds for its environment (empty when
there is no file); each command reads, renders, builds, patches and deploys in the steps
of the source, in any of the `Terminals`, and may stop after any. `setup:sending` plans as
it starts, with or without `--set-default-from` and `--restrict-senders` (`asked`), and
writes what it planned. Two histories say what a command reported (`setUp`) and in which
environments a plan, a source or a build was used after another command had changed what
it was made from (`overwritten`).

## 3. Runs

| run | cfg | what it asks | result |
|---|---|---|---|
| `confirm_safety` | `MCConfirmSend.cfg` | three callers, two under one attempt key, one draft, crashes and stragglers on | holds, 333 047 states |
| `confirm_live` | `MCConfirmSendLive.cfg` | two callers, fairness, crashes on | holds, 10 171 states |
| `confirm_ledger_audit` | `MCConfirmSendLedger.cfg` | is a `sent` row a mailed draft? | violated (5.1) |
| `tx_safety` | `MCTransactionalSend.cfg` | three requests, two under one Idempotency-Key, two payloads, quota of one, two windows, crashes and stragglers on | holds, 1 054 875 states |
| `tx_complaint` | `MCTransactionalComplaint.cfg` | does a complaint always suppress? | violated (5.2) |
| `event_routing` | `MCEventRouting.cfg` | two API sends to one recipient with a bounce about each, or a mail a person sent; log rows late or lost; one retry, then the dead-letter queue | holds, 85 965 states |
| `inbound` | `MCInbound.cfg` | one key, two deliveries with different bytes, two requests at a time, one retry each, failures at every await; or the constructor over every earlier release with two exceptions | holds, 124 661 states |
| `operator` | `MCOperator.cfg` | an index of three rows, a backup that names none, one processed or one failed row, lost bytes, two runs; or two terminals, two domains, three commands with every option and an edit of the tracked file | holds, 2 573 217 states |
| `control` | `MCControl.cfg` | two overlapping calls on up to three keys with a send; two templates; two overlapping edits, or one edit and one mail; or two sends of two mailboxes over a channel that is cut and restored, for four ticks | holds, 683 909 states |
| `access` | `MCAccess.cfg` | two people, two codes, one request; or a webhook under three drifts | holds, 198 304 states |
| `telegram` | `MCTelegram.cfg` | two mails and up to four topics; two mails of a night; a mail while the bridge moves; two changes and two cards; a reply with two corrections and two presses | holds, 428 951 states |
| `onboarding` | `MCOnboard.cfg` | both provisioning programs with one fault; `onboard` from twenty beginnings with one fault | holds, 276 472 states |

Every property of a passing run has a mutant in `PROJECT.json`: a plausible bug
written next to the definition it would change, under which TLC finds the
property violated.

**Bounds and why they are enough.** One draft is enough because drafts share no
gate, marker or row; two attempt keys are the web UI and the Telegram button;
two callers under one key are the double click or the retry, and a third
contends for the gate. In `tx_safety` two requests under one Idempotency-Key
give replay, conflict and race; a third under another key shares quota and
recipient with them; a quota of one puts it at its limit, and a second window
shows that charges do not cross windows. Its reports are `hard_bounce` (proves
`sent`, suppresses) and `rejected` (proves `failed`); `delivered` and `deferred`,
`soft_bounce` and `failed` are in the module and the proofs, but no passing run
reports them. The swap of callers (requests, addresses) with the same constants,
and of payloads, is symmetric in the safety runs; runs with liveness use no symmetry.
In `operator` terminals and domains are alike: the first terminal is used while both are
at rest, and the domain the tracked file names is the first. Three commands are a plan, one
that overtakes it and a deploy; one edit, of four kinds, falls anywhere among them.
Of a rebuild, `--force` is only tried where the target lists something (it is read
nowhere else), and the script dies only where it may be run again (a death for good is
a script that takes no more steps, which every prefix of a behaviour shows).

The queues' real limits (`wrangler.jsonc`: three retries for inbound mail and
delivery events, five for notifications, five in the dead-letter queues, batches of
five and ten) are one retry (`MaxRetries`), and one or none after that (`DeadRetries`):
a first delivery, one redelivery that meets what the first left, and exhaustion
are the three cases that the code tells apart. Messages of a batch are handled one
by one and answered one by one, so a batch is its messages. The remaining bounds
are budgets of the environment, named in the modules: `MaxTopics` and `MaxTurns`
(what an operator does in Telegram), `LastTick`, `MaxFaults`, `MaxCardFaults`, `MaxReplyFaults`,
`MaxSendingFaults`, `MaxOnboardFaults` (calls that fail or are lost, workers that die),
`MaxThrows`, `MaxDrifts`, `MaxEdits`, `MaxCommands`, `MaxKeys`, `LastWindow`. Every model
reaches the end of its budget with work still under way, so each fault can strike
at each step; one fault is enough for every mutant listed, two where the code
repairs the first (`MaxThrows`).

In `control` a day is one tick and the lookback three, so within `LastTick` of four a send
becomes mature, is judged, and passes out of what is looked back on.

`CHECK_DEADLOCK FALSE` is set everywhere: the system may come to rest once every
caller has been answered and every queue is empty.

**Fairness.**
- `confirm_live`: weak fairness of each caller's Worker steps, of each handler's
  steps, and of the sweep. A Worker or a handler that is not killed is scheduled
  until it ends, `EMAIL.send` returns or throws eventually (the runtime bounds it),
  and the sweep is a cron trigger. The provider is under no fairness: it may keep
  a mail for ever, in which case the send ends as ambiguous.
- `event_routing`, `inbound`, `telegram`: weak fairness of the consumer's and the
  dead-letter consumer's steps, because Queues delivers what waits until it is
  acknowledged or exhausted; weak fairness of the hourly pass, a cron trigger
  (in `telegram` of the turns of a night, the only ones its liveness speaks of). Failures are under no fairness and bounded by the retry limit or by a budget.
- `inbound`, the constructor: weak fairness of its steps, because every request
  wakes the object again.
- `access`: weak fairness of the sweep and of an attempt once it has spent its code;
  strong fairness of the webhook's calls, which a pass repeats every hour: a call
  that is tried again and again succeeds in the end.
- `onboarding`: weak fairness of each program's steps and of starting it again;
  strong fairness of the operator's remedies and deploys, which are what each
  refusal prints. This is the documented use of the tools, not a property of the platform.

No fairness is assumed of crashes, of callers or of operators elsewhere. Nothing
promises progress in the transactional API itself (the reconciler is an operator's
explicit call), so it has no liveness property.

## 4. What the properties say

*ConfirmSend.*
- `AtMostOneMail`: at most one attempt of a draft is with a recipient or may
  still get there, whatever the keys, retries, crashes and cancellations.
- `GateAgreesWithMarker` (a conjunct of `SendInvariant`): the gate names an attempt
  exactly while that attempt's marker is open, so no draft is freed while its mail may
  leave.
- `NoPhantomCopy`: a stored or indexed outbound message is a mail the provider took.
- `ClosedDraftStaysClosed`: a sent or cancelled draft is never armed or sent again.
- `PromiseKept`: every step is a step of `DraftMail` or a stutter.
- `SendingRowIsResolved`, `CallerIsAnswered`: a row left at `sending` moves on; a
  saga that is not killed ends with an answer.

*TransactionalSend.*
- `AtMostOneMail`: one key and one Idempotency-Key hand over at most one mail,
  and the row stands for exactly that request.
- `QuotaExact`: the counter equals the number of reservations in its window and
  never exceeds the quota.
- `StatusIsTrue`: a status not inferred from an event is the provider's own
  answer to that request.
- `AnswerIsTrue`: no answer, also of a replay read before an await, speaks for
  another payload or claims an outcome nobody saw.
- `SettledStays`: a row at a final status changes only by its own running call.

*EventRouting.* `EventInvariant`: the D1 mirror never leads the object, an event is
acknowledged only when the object has recorded it, and D1's list of suppressed recipients
misses nobody an acknowledged event is about and names nobody else (`SuppressionIsMirrored`). `RemovedStaysRemoved`:
redelivery, however late, does not suppress again a recipient an operator removed.
`KnownMailSettlesItsRow`: an event about a mail whose provider id the object has changes
that mail's row and no other, whatever request a late or lost log row made of it.
`EventEnds`: every event ends.

*Inbound and storage.* `IngestInvariant`: one message per key with its parts, D1
behind the object, one notification and only after the index row. `AckedIsKept`:
mail leaves the queue as done only when the mailbox holds its bytes, or holds
others under its key. `SchemaInvariant`: an object that serves has every table,
column and index; no row is lost on the way; a copy shows what went out.
`InboundEnds`: accepted mail does not stay on the queue, and a mailbox that is
woken comes up. `RebuildInvariant`: what a replay reports inserted is stored, a
run that ended passed over nothing it should have replayed, and a verification
that passed means a rebuilt mailbox. `ReplayInOrder`: a message is stored only
after every older one was settled or given up.

*Administration.* `KeysInvariant`: a send authenticated before a revocation is
admitted only if the key was active when its record was read, D1 revokes no key
the object has not, a secret that was shown is stored, every key has its audit
trail. `RetiredStaysRetired`: neither a revoked key nor an archived template comes
back, and a sync is idempotent. `RoutingInvariant`: while an alias names a mailbox
and nothing about it changes, mail goes there; a disabled mailbox gets none.
`AliasNotStolen`: no edit takes an address from one mailbox to another.
`FeedbackInvariant`: a mature send into a channel that is down shows, in the health
report and in the status of a request (`CutIsSeen`); a domain is called dark only if its
channel was down within the lookback (`AlarmIsTrue`); the first event of a send made
since ends the alarm (`AlarmClears`).
`AccessInvariant`: one owner per code; only owners enter. `RecordWasTrue`: what D1
remembers having registered was true once. `AccessHeals`: while nobody drives the
bridge a code can be spent, again and again; the webhook comes back.

*Telegram.* `NotifyInvariant`: acknowledged mail can be answered or is held,
nothing of a night is closed before a digest was accepted, one topic per mailbox.
`HeldIsDigested`: held mail is digested, unless the nights never stop or the bridge
moves. `CardsAgree`: a change that nothing overlapped is what the newest card
shows, and it is true. `ReplyInvariant`: a reply is mailed once, and what was
shown, where no two gestures overlapped.

*Setting up.* `ClaimsAreTrue`: "complete" and exit code 0 mean that the name sends
under one DMARC record and every event reaches our queue. `OnboardedIsWhole`: exit
code 0 of `onboard` means that everything it sets up is in place, and stays so
(`ZeroIsSetUp`), with a live key in the store (`ZeroHasKey`); a live key whose secret no
item has was counted as lost (`LostKeysAreCounted`). `SetupFinishes`: asking again gets there. `SetUpIsShipped`:
what commands reported as set up is what the next deploy ships, with the default sender
kept or the one asked for, and an allow-list that admits what was told it may send and
is there only because somebody asked. `DeploysOnlyAdd`: no deploy takes away a domain,
route, D1 id or structure. Both for any terminals, short of the environments in
`overwritten` (5.12).


## 5. What the code does differently from its documents

Two of these are runs (1 and 2); the others are properties stated in the modules (named
here) that TLC finds violated when they are added to the run of that module, or
behaviours seen on the way.

1. **A `sent` row without a mail** (`do/mailbox-do.ts:655`, run `confirm_ledger_audit`). The
   loser of the gate is told `sent` while the winner's mail is open, and the Worker
   stores it. If the winner is refused, the audit row lies.
2. **A complaint that does not suppress** (`do/mailbox-suppressions.ts:41`, run
   `tx_complaint`). An expired hard-bounce row makes `INSERT OR IGNORE` drop the complaint.
3. **A `failed` row with a mail** (`lib/outbound-send.ts:152`, `FailedRowMeansNotMailed`).
   When the call to the DO breaks, the row becomes `failed` whatever the DO was doing.
4. **`sent` is not final** (`lib/outbound-send.ts:239`, `SentRowIsFinal`). A caller that
   was answered `sending` writes after one that wrote `sent`.
5. **An event adopted by the wrong send** (`do/mailbox-suppressions.ts:228`,
   `ResolvedMeansMailed`). Envelope correlation ignores rows still `pending`, so the
   event of a pending mail settles another open request to the same recipient.
6. **A log that contradicts itself** (`LogNotContradictory`). A snapshot written late
   puts an older status next to a newer delivery status.
7. **Processed but not indexed** (`cloudflare/queue-consumer.ts:139`, `ProcessedIsIndexed`).
   The retry after a failed D1 write is a duplicate and writes no index row
   (docs/IMPLEMENTATION.md:695 calls the retry safe): the mail is kept, but the
   index does not have it and nobody is told.
8. **A correction that rewrites the record** (`telegram/drafts.ts:174-186`,
   `LedgerMatchesWire`). A correction that overlaps a press of Send changes the draft
   after its mail left.
9. **A topic's name is forgotten** (`telegram/notify.ts:281`, `NameOutlives`), and **a
   digest closes rows it did not list** (`telegram/noise.ts:271`, `DigestedIsTold`).
10. **A domain that never completes** (`api/hono.ts:617`, "Idempotent by construction";
    `SendingAgainAlwaysFinishes`). A zone id seeded as a placeholder by
    `setup-mailbox.ts:135` is never corrected by sending the request again.
11. **A second key** (`scripts/onboard.ts:1040`). Two terminals that both find no
    item mint and store a key each, and a key may be revoked under a run that then
    ends with 0, when its store call was lost after it took effect. Seen with two
    runs at once; the run has one at a time, and holds, and `OnboardingIsWhole` is
    proved under that hypothesis (`OneRun`).
12. **A union that is overwritten** (`lib/sending-config.ts:55`). `setup:sending` plans at
    its start and writes at its end; a second terminal's domain in between is lost, as
    is what another terminal put into the generated file or into `dist/` before a deploy
    ships it. The run has two terminals; `overwritten` names the environments where it
    happened, and `SetUpIsShipped` and `DeploysOnlyAdd` speak of the others. Without that
    exception TLC finds both violated.
13. **`rotateApiKey` does not keep the sender name** (`transactional-key-ops.ts:303`, "the
    same properties"; `SuccessorKeepsName`).
14. **A store rule without a mailbox** (`StoreRuleHasMailbox`) after two overlapping
    PATCHes of a forward rule that names a mailbox: one sets the action, the other
    clears the mailbox, and each was judged against the row it had read. (The bounds
    of `control` allow two edits of which the first would have to create that rule; it
    shows once the rule is there at the start.)
15. **A standing invitation** (`db/owners.ts`, `NoStandingInvitation`). A mint that saw
    no owner and no code inserts its code after the first owner was linked and the
    open codes were closed; that code stays open until it expires.
16. **A primary alias that is another's** (`db/d1.ts`, `ReportedAliasIsOwn`). Between the
    checks of a mailbox's creation and its `INSERT … ON CONFLICT DO NOTHING` another edit
    can take the address; the creation answers with the other mailbox's alias and no
    reason (`api/hono.ts:162`).

17. **An allow-list the plan does not widen** (`scripts/lib/sending-config.ts:99`;
    line 52: "A list that is already bounded is widened"; `PlanWidensList`). Whether there
    is a list is read from the generated block alone, which overlays the tracked one; a
    list that was written by hand into `wrangler.jsonc` after a snapshot is not seen, the
    plan adds nothing, and the deploy ships the list without the domain. The edit is
    among `Edits` in `operator`; `SetUpIsShipped` promises admission only of a list that is
    in the generated file, the one a plan looks at.
18. **A narrower sample that is not more cautious** (`do/transactional-send-ops.ts:1081`, "can only
    make the verdict more cautious"; `NarrowerIsCautious`). One mailbox's verdict and
    D1's differ either way, also with D1 up to date: another mailbox's later event makes
    D1's `live` while this one is dark, and another mailbox's later silence makes D1's
    dark while this one is `live`.
19. **"No event has ever arrived"** (`lib/feedback-liveness.ts:72`, docs/INTEGRATING.md:197;
    `NeverMeansNever`). The query looks back thirty days: a domain whose events stopped
    longer ago than that is `never_observed`, not `went_dark`.

None of these sends a second mail. Also seen, and promised by nobody: two
overlapping rotations leave two active successors, and a rotation overtaken by a
revocation leaves one; the D1 projection of a key may stay `active` after it was
revoked (nothing authenticates against it); a healed topic may forget the one another
delivery has just claimed; an exception swallowed by the legacy migration is
recorded as done, so its rows stay in `messages_legacy_v0` where no handler shows
them (`mailbox-do.ts:877`); an exception after the rename inside the rebuild of
`api_key_events` can strand rows in `api_key_events_old` (both tables count as
kept in `NothingLost`); a draft edited while it is being sent gives the
backfilled copy the edited text (`CopyIsWhatWentOut` admits exactly that);
`delivery_status` is last-write-wins; an address that is an alias of a domain
disabled and enabled again during a resolution can fall to a catch-all; the
replay skips a key the ledger lists as `failed`; both provisioning programs may
create a subscription at once, so events come twice, which the object absorbs.

## 6. What is proved

Every invariant and every action property of a passing run is stated by a theorem,
`Spec => []Inv` or `Spec => [][A]_vars`, for any value of the constants: any sets of drafts,
keys, requests, mails, mailboxes, runs, terminals, and any bounds on faults, retries and
edits. `PROJECT.json` lists the theorems with the property each one states.

They assume the named assumption of the module (`ConstantsAssumption`,
`RoutingAssumption`, `IngestAssumption`, `RebuildAssumption`, `SchemaAssumption`,
`KeysAssumption`, `FeedbackAssumption`, `AccessAssumption`, `WebhookAssumption`,
`NotifyAssumption`, `CardsAssumption`, `ReplyAssumption`, `SendingAssumption`,
`DeployAssumption`, `OnboardingAssumption`), which TLC evaluates in the passing runs. They type
the constants; where they say more, it is that a set is counted and so finite, or that
names for "none" are no members. `RebuildAssumption` says that the pushes
of the script are distinct messages that carry what the row says, and that raw keys are
distinct in the old index, where they are unique. One theorem carries a hypothesis of
its own (`OneRun`), discussed with it below.

An invariant that matters is seldom inductive. What each strengthening adds:

**ConfirmSendProofs.** `Invariance` proves `SendInvariant` inductive; from it
`TypeCorrect`, `MailedAtMostOnce`, `GateMatchesMarker`, `CopiesAreReal`,
`ClosedForGood`, and `KeepsThePromise` (the refinement of `DraftMail`).
`AtMostOneMail` alone is not inductive: a crashed handler leaves the provider
busy with nobody waiting. The strengthening says that a draft whose mail may
have left is *held* (`MailIsHeld`: its gate is taken or the draft is closed),
that a held draft has one attempt in flight (`FlightIsExclusive`), and that the
marker, the call and the provider tell one story (`CallMatchesProvider`). Then
`StartSend` starts only from a draft that is not held, and the gate is freed
only by a known refusal, when no other attempt is in flight, or by the commit,
which closes the draft.

**TransactionalSendProofs.** `Invariance` proves `TxInvariant` inductive; from it
`TypeCorrect`, `MailedOnce`, `QuotaIsExact`, `StatusesAreTrue`, `AnswersAreTrue`
and `SettledForGood`. The conjuncts need each other. Even the type of an answer
needs what a replay has read (`SeenIsTrue`), which needs `StatusIsTrue` at the
time of the read and the lemma `KnownStays` afterwards: a reserved slot keeps its
request, its payload, and what the provider made of its mail. `AtMostOneMail`
holds because the request hands its mail over in the very step that takes the
free slot; `QuotaExact` because that step is also the only one that charges, and
it adds exactly one slot to the set counted. Every other step falls into one of
six kinds (`StepKinds`) that leave the relevant state alone.

**EventProofs.** `EventRouting` is built of the object's own steps, so everything above holds
of the object behind queue and mirror too (the lemma `RoutingIsTx`). `D1NeverLeads` proves `EventInvariant`. A log row
is written from a snapshot and a verdict is mirrored after an await, so D1 can be right only
if what was copied cannot change meanwhile: an outcome, once copied, is `Backed` by the
object's row (`LogSound` for rows and pending snapshots, `EventsSound` for what the consumer
remembers), and a row at a final status whose send call is over (`SendsOver`) keeps it,
which is `SettledForGood` step by step. The list of suppressed recipients is right because a
recorded event names its recipient for good (`ListSound`). `EventsFindTheirRow` proves
`KnownMailSettlesItsRow`: a row with the event's provider id is looked for before any row of
the same envelope, the one found is all that `Settle` changes, and no other step records an event. `RedeliveryNeverSuppresses` follows from what is recorded with an
event. The proof corrected the model: two rows can carry one provider id, and the
consumer's hint is that of the row the object chose, not of the request published.

**IngestProofs.** `OneMessageOneNotice` proves `IngestInvariant`. Facts about the
tables need the queue: every taking of a message has an attempt number of its own
(`TriesLeft`, `RequestsTyped`), two requests about one message differ in it and at most
one is still listened to (`RequestsDiffer`), so the id a request makes belongs to it
alone. What a consumer was told stays true (`AnswerHolds`): who goes on to index and
notify inserted the key's row itself, while nobody had been notified. The row of a key
is unique, so two such requests would have one id, hence one attempt (`OneAnnounces`);
therefore the notification counted by one is the first and the last of its key.
`AcknowledgedIsKept` adds how much of the promise each stage of the consumer has behind
it (`KeptBy`): past the object's answer the bytes are in the mailbox, or the key is and
the conflict was recorded.

`VerdictsAreTrue` proves `RebuildInvariant`, over all of the above. Only pushes of rows
whose bytes R2 has come onto the queue, each a message of its own (`QueueIsReplay`), so every row of the object
is a replayed row of the old index (`RowsAreReplayed`) and rows and replayable raw keys
can be put into bijection; a count that agrees then means that none is missing. An ingest
row is the one the run saw when it planned, or names a row of the object (`BackupIsKnown`);
hence an outcome says what is so (`OutcomesHold`), and what the verifier read stays
(`VerdictHolds`). `OldestFirst` (`ReplayInOrder`) holds because a row that has not been pushed is
not on the queue, and behind the one in hand every row has an outcome.

`MigrationsAreSafe` proves `SchemaInvariant`. What a storage must have follows from the
version it records (`ColumnsFit`, `RowsFit`, `CopyFits`) and, while the constructor runs, from
the step it has reached (`ColumnsMade`, `RowsMoved`). A throw may keep what the turn
wrote or bring back what it found, so the former has to hold of both storages (`db` and `saved`).

**ControlProofs.** `KeysAreAccountedFor` proves `KeysInvariant`, `NothingRetiredComesBack` its
action property. Rows are only appended and `revoked` is never rewritten (`RowsStay`), so
each thing a call or a request read of a row stays good in the one direction its answer needs
(`RequestsSound`, `CallsSound`, `IndexSound`), and audit trail and row move together
(`TrailSound`). `MailGoesWhereItBelongs` proves `RoutingInvariant`: a delivery is followed as long
as alias and domain stand still, and for it what each statement read is still in the
table (`SteadySound`); an edit that could move an alias ends the following. `NoAliasIsStolen`: an
alias is only deleted, or given to an address that has none.

`AVerdictIsTheChannel` proves `FeedbackInvariant`. Stamps fit their tables (`StampsFit`), D1
knows no more than the object (`LogFollows`), no event is later than its channel worked
(`EventsCameUp`), and what is owed an event is young (`OwedIsYoung`, the one that uses the
assumption about the world). So a silent mature send was made while its channel was
down (or it had failed since), and the greatest silent stamp against the greatest event stamp
decides rightly. `Latest` is a `CHOOSE`: that it exists for every set of stamps
(`LatestIsThere`) comes from the well-foundedness of the naturals.

**AccessProofs.** `OneOwnerAndOnlyOwners` proves `AccessInvariant`. That a code makes one
owner is not inductive: who is about to be linked has
spent that code, and it is not open again under him (`LinkerHasSpent`); an open code has linked
nobody yet (`OpenIsFresh`); whoever a code has linked is the one who spent it
(`OneLinked`). `RegistrationWasTrue` proves `RecordWasTrue`: a pass that is about to write the
record has registered what it writes (`PassHasRegistered`), whatever has moved since.

**TelegramProofs.** `MailedAsSeen` proves `ReplyInvariant`: as long as no two gestures overlapped,
one at most runs (`OneGesture`), the preview shows the draft except between a correction and
its restatement (`PreviewIsTrue`), and a press finds the text as it was when it was made
(`WhatIsSeen`); one mail per reply needs none of this, only that the marker is written with
the hand-over (`MailedIsMarked`). `CardsFollowTheMail` proves `CardsAgree`: a change owed to the
newest card is the only one under way until it is shown (`DueIsUnderWay`). `MailIsAnnounced` proves
`NotifyInvariant`: a digest about to be recorded was accepted (`DigestWasSent`), what is held
is held for the chat it came to (`HeldHasChat`), and until the
operator touches a topic the mapping is written once, by the first claim, and everyone's
topic is taken from it (`MappingRules`).

**SetupProofs.** `AnswersAreTrue` proves `ClaimsAreTrue` with both programs running at
once. The world only gets better (`Steadily`: an enabled name, its first DMARC record, a channel that
reaches us), a list of records read earlier still `Describes` them, so a step that succeeded
is still so (`StepsHold`) and none was skipped (`NothingSkipped`).

`SetUpIsKept` and `DeploysAdd` prove `SetUpIsShipped` and `DeploysOnlyAdd`, for any terminals,
options and edits, of the environments that no stale plan, source or build touched. The
files of such an environment hold what was set up (`EnvKeeps`) and what is deployed and about
to be (`BuiltKeeps`), because each write starts from the block that a deploy would ship, or
from the file that already held it, and only extends it, short of what was asked for by name.
A plan in the hand of a command carries over what it was made from (`PlanKeeps`), and so keeps
all this if that still stands when it is written; if not, the environment is `overwritten`.

`ExitZeroIsTrue` proves, for any number of terminals, what `OnboardedIsWhole` says of the
installation: no step takes back what another put up (`Grows`), so what a run passed is still
in place when it ends (`PassedIsInPlace`); and a plaintext is held by one run, which counts it
if it is lost. `OnboardingIsWhole` adds the live key, under `OneRun`: a second terminal may find and pass
the item of a store call that was lost after it took effect, before the first revokes its
key (5.11).

**Only model-checked.** The liveness properties (`SendingRowIsResolved`, `CallerIsAnswered`,
`EventEnds`, `InboundEnds`, `AccessHeals`, `HeldIsDigested`, `SetupFinishes`): TLAPS 1.4.5 proves
no liveness under fairness and nothing about `ENABLED`. The divergences of section 5 are
counterexamples found by TLC. Nothing is proved by induction over data; what the
proofs need of sequences and cardinalities comes from the library's theorems.

## 7. Hazards

`PROJECT.json` lists each one at the line where it bites, with the properties
that would catch it. The one without a property carries a note: the code does it
and no document promises the contrary.

## 8. Not modelled

- Telegram formatting, MIME parsing, identifiers: conversions without state; the
  values they produce are model values.
- HTTP API and MCP facade: routing and schema validation. The owner gate is in
  `OwnerAccess`; the calls they make are the actions' inputs.
- Realtime: a broadcast of an append-only table; a client that missed something reads
  the mailbox again. The jobs table has no writer.
- Threads: `thread_id` is a label no delivery decision reads. (A reply that is
  ingested before its parent starts a thread of its own, `unread_count` is never
  decremented, and `last_message_at` may go back.) Full-text search: the backfill
  does not add to it.
- Web UI: one of the callers.
- `doctor`, the smoke tests, `setup:routing` and `setup:telegram`: they read, or
  make single idempotent calls to Cloudflare and Telegram that
  `SendingDomain`, `Onboarding` and `WebhookRegistration` have in common with them.

Within the modelled components these are left out: templates rendered into a
payload (the payload is a model value); ops events and realtime rows, which nothing
reads back; POST and deletion of domains; the manual insertion of a pairing code and
the two bootstrap variables of owners; Telegram commands, search, attachments and
keyboard layout, which only read; concurrent duplicates of one notification; legacy
tables lacking other columns than `thread_id`, and legacy rows that fail a CHECK; DNS of the
provider is a list whose order is stable; in `SendingDomain`, a Worker and a command asked for
different DMARC policies or report addresses, the two places that list subscriptions (the
queue's and the account's are one list), a Worker without a token and
`--skip-event-subscription`; in `EventRouting`, the reconciler, revocations and crashes of the
object, which `TransactionalSend` has; in `Onboarding`, ids and several items of a
kind, and a run reads afresh what the code memoises within that run.

## 9. Plan

1. What is left to prove are lemmas that would let the models say more: that the swap of
   callers, requests and payloads which the runs use as symmetry maps behaviours to
   behaviours; and, of the pure algorithms, what thread resolution computes, once it is
   modelled as a function.
2. Abstract specifications of the kind of `DraftMail` for inbound mail (a key is stored once and
   announced at most once) and for setting up (what is set up only grows), with the
   proofs that `InboundIngest` and `DeployConfig` implement them.
3. Two terminals in `Onboarding`, as a run of what they break, if the repository comes to
   promise it.
