--------------------------- MODULE SendingDomain ---------------------------
(***************************************************************************)
(* Provisioning one sending domain.  Two programs do it: the Worker, asked *)
(* by POST /api/domains/:domain/provision (lib/provision.ts, with the DNS  *)
(* gate for DMARC), and the operator's `pnpm setup:sending --apply`        *)
(* (scripts/setup-sending.ts).  Each asks what is already true at          *)
(* Cloudflare and in D1 before it writes; either may run while the other   *)
(* does, a call may fail, or be lost after it took effect, and a run may   *)
(* stop anywhere.  `pnpm setup:mailbox` seeds the registry both rely on.   *)
(*                                                                         *)
(* Event types are a small set, a subscription is what the two programs    *)
(* compare of it, and a DMARC record is whose policy it carries: both are  *)
(* asked for one policy and rua, as buildDmarcValue wants, and both see    *)
(* one list of subscriptions, the queue's or the account's.  A Worker      *)
(* without a token and a command told to skip the subscription are left    *)
(* out.                                                                    *)
(***************************************************************************)
EXTENDS Naturals, FiniteSets, Sequences

CONSTANTS
    Queue, OtherQueue,  \* the queue of this environment, and another one
    EventTypes,         \* FEEDBACK_EVENT_TYPES
    ZoneId,             \* the id Cloudflare gives the zone
    NoRow,              \* no row in the domains table
    SeedZones,          \* zone ids setup:mailbox may seed the registry with
    StartSubscriptions, \* what may be subscribed before anything runs
    MaxSendingFaults           \* bound: calls that fail and runs that die

Subscribable == [enabled : BOOLEAN, queue : {Queue, OtherQueue}, events : SUBSET EventTypes]

ASSUME SendingAssumption ==
    /\ Queue # OtherQueue /\ ZoneId # NoRow /\ NoRow \notin SeedZones
    /\ StartSubscriptions \subseteq Seq(Subscribable)
    /\ IsFiniteSet(EventTypes) /\ EventTypes # {} /\ MaxSendingFaults \in Nat

VARIABLES
    enabled,        \* Cloudflare: the name is a sending subdomain
    dmarc,          \* zone: _dmarc TXT records, in the order they are listed
    spf, dkim,      \* zone: SPF record(s); DKIM and MX records
    routing,        \* Cloudflare: Email Routing is on
    subscriptions,  \* Cloudflare: email.sending subscriptions, as listed
    zone, usable,   \* D1 domains: zone_id, and the row is not disabled
    mailbox,        \* D1 mailboxes: the address is there
    at,             \* where the Worker's request and the command are
    read,           \* the last list each of them read
    steps,          \* the Worker: succeeded steps, and those that did not
    claim,          \* what each of them last answered
    sendingFaults

remote == <<enabled, dmarc, spf, dkim, routing, subscriptions>>
database == <<zone, usable, mailbox>>
sendingVars == <<remote, database, at, read, steps, claim, sendingFaults>>

FullSubscription == [enabled |-> TRUE, queue |-> Queue, events |-> EventTypes]

SendingInit ==
    /\ enabled \in BOOLEAN
    /\ dmarc \in IF enabled THEN {<< >>, <<"provider">>, <<"other", "provider">>}
                 ELSE {<< >>, <<"other">>}
    /\ spf \in IF enabled THEN {1} ELSE {0, 2}
    /\ dkim = enabled
    /\ routing = FALSE
    /\ subscriptions \in StartSubscriptions
    /\ zone \in {NoRow, ZoneId}
    /\ usable \in {TRUE, zone = NoRow}
    /\ mailbox = FALSE
    /\ at = [worker |-> "idle", command |-> "idle"]
    /\ read = [worker |-> << >>, command |-> << >>]
    /\ steps = [done |-> {}, failed |-> {}]
    /\ claim = [worker |-> "none", command |-> "none"]
    /\ sendingFaults = 0

-----------------------------------------------------------------------------
(* The feedback channel.                                                   *)
Indices == 1 .. Len(subscriptions)
Covered(I, list) == UNION {list[i].events : i \in I}

evaluateFeedbackSubscription(list) ==
    LET switched == {i \in 1 .. Len(list) : list[i].enabled}
        reaching == {i \in switched : list[i].queue = Queue}
    IN  CASE list = << >> -> [state |-> "absent", ids |-> {}]
          [] list # << >> /\ switched = {} -> [state |-> "disabled", ids |-> 1 .. Len(list)]
          [] switched # {} /\ reaching = {} -> [state |-> "wrong_queue", ids |-> switched]
          [] reaching # {} /\ Covered(reaching, list) # EventTypes ->
                [state |-> "partial_events", ids |-> reaching]
          [] OTHER -> [state |-> "live", ids |-> reaching]

FirstOf(ids) == CHOOSE i \in ids : \A j \in ids : i <= j

(* How a call that writes ends: it works, it is refused, or its answer is  *)
(* lost after it took effect.                                              *)
Wrote == /\ UNCHANGED sendingFaults
Refused == /\ sendingFaults < MaxSendingFaults
           /\ sendingFaults' = sendingFaults + 1
Lost == Refused

(* The upsert both programs do to a DMARC record once they have listed     *)
(* what is there: collapse what is more than one, then correct it or post. *)
(* A record already deleted, or already there word for word, is refused.   *)
PolicyGone(list) == Len(list) > 1 /\ Len(dmarc) < Len(list)
Pruned(list) == IF Len(list) > 1 THEN SubSeq(dmarc, 1, 1) ELSE dmarc
PostRefused(list) == list = << >> /\ dmarc # << >> /\ dmarc[1] = "ours"
Published(list) ==
    IF list = << >> THEN Append(dmarc, "ours") ELSE [dmarc EXCEPT ![1] = "ours"]

-----------------------------------------------------------------------------
(* The Worker's request.  A step that fails is reported, and the ones that *)
(* do not depend on it still run.                                          *)
WorkerAt(s) == at.worker = s
WorkerGoes(s) == at' = [at EXCEPT !.worker = s]
Done(s) == steps' = [steps EXCEPT !.done = @ \union {s}]
NotDone(S) == steps' = [steps EXCEPT !.failed = @ \union S]
WorkerReads(l) == read' = [read EXCEPT !.worker = l]

provision ==
    /\ WorkerAt("idle") /\ claim.worker # "complete"
    /\ WorkerGoes("register")
    /\ steps' = [done |-> {}, failed |-> {}]
    /\ UNCHANGED <<remote, database, read, claim, sendingFaults>>

Unregistered == {"register", "sending", "dmarc", "routing", "feedback", "mailbox"}

(* Mutant: the registry is not asked first.                                *)
registerWithoutAsking ==
    /\ WorkerAt("register")
    /\ \/ WorkerGoes("insert") /\ UNCHANGED steps /\ Wrote
       \/ Refused /\ NotDone(Unregistered) /\ WorkerGoes("report")
    /\ UNCHANGED <<remote, database, read, claim>>

stepRegisterDomain ==
    /\ WorkerAt("register")
    /\ \/ zone # NoRow /\ Done("register") /\ WorkerGoes("sending") /\ Wrote
       \/ zone = NoRow /\ WorkerGoes("insert") /\ UNCHANGED steps /\ Wrote
       \/ Refused /\ NotDone(Unregistered) /\ WorkerGoes("report")
    /\ UNCHANGED <<remote, database, read, claim>>

(* The zone was found; the row is inserted, unless somebody did meanwhile. *)
insertDomain ==
    /\ WorkerAt("insert")
    /\ \/ zone = NoRow /\ zone' = ZoneId /\ usable' = TRUE
          /\ Done("register") /\ WorkerGoes("sending") /\ Wrote
       \/ zone # NoRow /\ NotDone(Unregistered) /\ WorkerGoes("report")
          /\ Wrote /\ UNCHANGED <<zone, usable>>
    /\ UNCHANGED <<remote, mailbox, read, claim>>

stepEmailSending ==
    /\ WorkerAt("sending")
    /\ \/ zone = ZoneId /\ enabled /\ Done("sending") /\ WorkerGoes("dmarc") /\ Wrote
       \/ zone = ZoneId /\ ~enabled /\ WorkerGoes("enable") /\ UNCHANGED steps /\ Wrote
       \/ zone # ZoneId /\ NotDone({"sending", "dmarc"}) /\ WorkerGoes("routing") /\ Wrote
       \/ Refused /\ NotDone({"sending", "dmarc"}) /\ WorkerGoes("routing")
    /\ UNCHANGED <<remote, database, read, claim>>

(* Enabling puts the provider's own records in the zone, its DMARC policy  *)
(* among them and next to one that may be there.                           *)
Enabling ==
    /\ enabled' = TRUE
    /\ dmarc' = Append(dmarc, "provider")
    /\ dkim' \in BOOLEAN
    /\ spf' \in {spf, IF spf = 0 THEN 1 ELSE spf}

createSendingSubdomain ==
    /\ WorkerAt("enable")
    /\ \/ ~enabled /\ Enabling /\ Done("sending") /\ WorkerGoes("dmarc") /\ Wrote
       \/ ~enabled /\ Enabling /\ Lost
          /\ NotDone({"sending", "dmarc"}) /\ WorkerGoes("routing")
       \/ enabled /\ UNCHANGED <<enabled, dmarc, spf, dkim>> /\ Wrote
          /\ NotDone({"sending", "dmarc"}) /\ WorkerGoes("routing")
    /\ UNCHANGED <<routing, subscriptions, database, read, claim>>

(* ensureDmarcRecord: the gate refuses a disabled domain; else it lists.   *)
ensureDmarcRecord ==
    /\ WorkerAt("dmarc")
    /\ \/ usable /\ WorkerReads(dmarc) /\ WorkerGoes("policy") /\ UNCHANGED steps /\ Wrote
       \/ ~usable /\ NotDone({"dmarc"}) /\ WorkerGoes("routing") /\ UNCHANGED read /\ Wrote
       \/ Refused /\ NotDone({"dmarc"}) /\ WorkerGoes("routing") /\ UNCHANGED read
    /\ UNCHANGED <<remote, database, claim>>

deleteDuplicates ==
    /\ WorkerAt("policy") /\ Len(read.worker) > 1
    /\ \/ ~PolicyGone(read.worker) /\ dmarc' = Pruned(read.worker) /\ UNCHANGED steps
          /\ WorkerReads(SubSeq(read.worker, 1, 1)) /\ UNCHANGED at /\ Wrote
       \/ PolicyGone(read.worker) /\ NotDone({"dmarc"}) /\ WorkerGoes("routing")
          /\ UNCHANGED <<dmarc, read>> /\ Wrote
    /\ UNCHANGED <<enabled, spf, dkim, routing, subscriptions, database, claim>>

stepDmarc ==
    /\ WorkerAt("policy") /\ Len(read.worker) <= 1
    /\ \/ read.worker = <<"ours">> /\ Done("dmarc") /\ UNCHANGED dmarc /\ Wrote
       \/ read.worker # <<"ours">> /\ ~PostRefused(read.worker)
          /\ dmarc' = Published(read.worker) /\ Done("dmarc") /\ Wrote
       \/ PostRefused(read.worker) /\ NotDone({"dmarc"}) /\ UNCHANGED dmarc /\ Wrote
       \/ read.worker # <<"ours">> /\ Refused /\ NotDone({"dmarc"}) /\ UNCHANGED dmarc
    /\ WorkerGoes("routing")
    /\ UNCHANGED <<enabled, spf, dkim, routing, subscriptions, database, read, claim>>

stepEmailRouting ==
    /\ WorkerAt("routing")
    /\ \/ zone = ZoneId /\ routing' = TRUE /\ Done("routing") /\ Wrote
       \/ zone # ZoneId /\ NotDone({"routing"}) /\ UNCHANGED routing /\ Wrote
       \/ Refused /\ NotDone({"routing"}) /\ UNCHANGED routing
    /\ WorkerGoes("feedback")
    /\ UNCHANGED <<enabled, dmarc, spf, dkim, subscriptions, database, read, claim>>

(* What is subscribed is judged as one moment showed it; only where        *)
(* nothing is, a subscription will be made.                                *)
stepFeedbackSubscription ==
    /\ WorkerAt("feedback")
    /\ LET verdict == evaluateFeedbackSubscription(subscriptions).state
       IN  \/ "sending" \in steps.done /\ verdict = "live" /\ Done("feedback")
              /\ WorkerGoes("mailbox") /\ Wrote
           \/ "sending" \in steps.done /\ verdict = "absent" /\ UNCHANGED steps
              /\ WorkerGoes("subscribe") /\ Wrote
           \/ "sending" \in steps.done /\ verdict \notin {"live", "absent"}
              /\ NotDone({"feedback"}) /\ WorkerGoes("mailbox") /\ Wrote
           \/ "sending" \notin steps.done /\ NotDone({"feedback"}) /\ WorkerGoes("mailbox") /\ Wrote
           \/ "sending" \in steps.done /\ Refused /\ NotDone({"feedback"}) /\ WorkerGoes("mailbox")
    /\ UNCHANGED <<remote, database, read, claim>>

createFeedbackSubscription ==
    /\ WorkerAt("subscribe")
    /\ subscriptions' = Append(subscriptions, FullSubscription)
    /\ \/ Done("feedback") /\ Wrote
       \/ NotDone({"feedback"}) /\ Lost
    /\ WorkerGoes("mailbox")
    /\ UNCHANGED <<enabled, dmarc, spf, dkim, routing, database, read, claim>>

stepMailbox ==
    /\ WorkerAt("mailbox")
    /\ mailbox' = TRUE
    /\ Done("mailbox")
    /\ WorkerGoes("report")
    /\ UNCHANGED <<remote, zone, usable, read, claim, sendingFaults>>

Complete == steps.failed = {}

report ==
    /\ WorkerAt("report")
    /\ claim' = [claim EXCEPT !.worker = IF Complete THEN "complete" ELSE "incomplete"]
    /\ WorkerGoes("idle")
    /\ WorkerReads(<< >>)
    /\ UNCHANGED <<remote, database, steps, sendingFaults>>

WorkerDies ==
    /\ ~WorkerAt("idle") /\ Refused
    /\ WorkerGoes("idle")
    /\ WorkerReads(<< >>)
    /\ UNCHANGED <<remote, database, steps, claim>>

WorkerStep ==
    \/ stepRegisterDomain \/ insertDomain \/ stepEmailSending \/ createSendingSubdomain
    \/ ensureDmarcRecord \/ deleteDuplicates \/ stepDmarc \/ stepEmailRouting
    \/ stepFeedbackSubscription \/ createFeedbackSubscription \/ stepMailbox \/ report

-----------------------------------------------------------------------------
(* The command, applied with a token.  Anything that throws ends it.       *)
CommandAt(s) == at.command = s
CommandGoes(s) == at' = [at EXCEPT !.command = s]
CommandReads(l) == read' = [read EXCEPT !.command = l]
Claims(c) == claim' = [claim EXCEPT !.command = c]

setupSending ==
    /\ CommandAt("idle") /\ claim.command = "none"
    /\ CommandGoes("enable")
    /\ UNCHANGED <<remote, database, read, steps, claim, sendingFaults>>

(* `wrangler email sending enable`; "already enabled" is not an error.     *)
runIdempotent ==
    /\ CommandAt("enable")
    /\ \/ enabled /\ UNCHANGED <<enabled, dmarc, spf, dkim>>
       \/ ~enabled /\ Enabling
    /\ CommandGoes("spf") /\ Wrote
    /\ UNCHANGED <<routing, subscriptions, database, read, steps, claim>>

(* Two SPF records are refused, never collapsed.                           *)
upsertSpf ==
    /\ CommandAt("spf")
    /\ \/ spf <= 1 /\ spf' = 1 /\ CommandGoes("dmarc") /\ UNCHANGED claim
       \/ spf > 1 /\ CommandGoes("idle") /\ Claims("failed") /\ UNCHANGED spf
    /\ UNCHANGED <<enabled, dmarc, dkim, routing, subscriptions, database, read, steps, sendingFaults>>

listDmarc ==
    /\ CommandAt("dmarc")
    /\ CommandReads(dmarc)
    /\ CommandGoes("policy")
    /\ UNCHANGED <<remote, database, steps, claim, sendingFaults>>

removeDuplicates ==
    /\ CommandAt("policy") /\ Len(read.command) > 1
    /\ \/ ~PolicyGone(read.command) /\ dmarc' = Pruned(read.command)
          /\ CommandReads(SubSeq(read.command, 1, 1)) /\ UNCHANGED <<at, claim>>
       \/ PolicyGone(read.command) /\ CommandGoes("idle") /\ Claims("failed")
          /\ UNCHANGED <<dmarc, read>>
    /\ UNCHANGED <<enabled, spf, dkim, routing, subscriptions, database, steps, sendingFaults>>

upsertTxtStyleRecord ==
    /\ CommandAt("policy") /\ Len(read.command) <= 1
    /\ \/ read.command = <<"ours">> /\ CommandGoes("records") /\ UNCHANGED <<dmarc, claim>>
       \/ read.command # <<"ours">> /\ ~PostRefused(read.command)
          /\ dmarc' = Published(read.command) /\ CommandGoes("records") /\ UNCHANGED claim
       \/ PostRefused(read.command) /\ CommandGoes("idle") /\ Claims("failed") /\ UNCHANGED dmarc
    /\ UNCHANGED <<enabled, spf, dkim, routing, subscriptions, database, read, steps, sendingFaults>>

(* DKIM and MX, when the provider already prints them; else a later run.   *)
providerRecords ==
    /\ CommandAt("records")
    /\ dkim' \in {dkim, TRUE}
    /\ CommandGoes("feedback")
    /\ UNCHANGED <<enabled, dmarc, spf, routing, subscriptions, database, read, steps, claim, sendingFaults>>

ensureEventSubscription ==
    /\ CommandAt("feedback")
    /\ \/ evaluateFeedbackSubscription(subscriptions).state = "live"
          /\ CommandGoes("exit") /\ CommandReads(subscriptions)
       \/ evaluateFeedbackSubscription(subscriptions).state = "wrong_queue"
          /\ CommandGoes("exit") /\ CommandReads(subscriptions)
       \/ evaluateFeedbackSubscription(subscriptions).state \in {"absent", "disabled", "partial_events"}
          /\ CommandGoes("converge") /\ CommandReads(subscriptions)
    /\ UNCHANGED <<remote, database, steps, claim, sendingFaults>>

(* The first of the subscriptions listed is switched on and widened, in    *)
(* place and on whatever queue it has; only where none is, one is created. *)
Converged(list) ==
    IF list = << >> THEN Append(subscriptions, FullSubscription)
    ELSE LET first == FirstOf(evaluateFeedbackSubscription(list).ids)
         IN  [subscriptions EXCEPT ![first].enabled = TRUE, ![first].events = EventTypes]

converge ==
    /\ CommandAt("converge")
    /\ \/ subscriptions' = Converged(read.command) /\ CommandGoes("recheck") /\ Wrote
       \/ UNCHANGED subscriptions /\ Refused /\ CommandGoes("exit")
    /\ UNCHANGED <<enabled, dmarc, spf, dkim, routing, database, read, steps, claim>>

(* Verified has to mean the provider agrees, so the list is read again.    *)
recheck ==
    /\ CommandAt("recheck")
    /\ CommandReads(subscriptions)
    /\ CommandGoes("exit")
    /\ UNCHANGED <<remote, database, steps, claim, sendingFaults>>

(* Mutant: an update that succeeded is taken for a channel that works.     *)
VerifiedByExitCode(list) ==
    evaluateFeedbackSubscription(list).state \in {"live", "wrong_queue"}

Verified(list) == evaluateFeedbackSubscription(list).state = "live"

exit ==
    /\ CommandAt("exit")
    /\ Claims(IF Verified(read.command) THEN "verified" ELSE "failed")
    /\ CommandGoes("idle")
    /\ CommandReads(<< >>)
    /\ UNCHANGED <<remote, database, steps, sendingFaults>>

CommandDies ==
    /\ ~CommandAt("idle") /\ Refused
    /\ CommandGoes("idle")
    /\ CommandReads(<< >>)
    /\ Claims("failed")
    /\ UNCHANGED <<remote, database, steps>>

CommandStep ==
    \/ runIdempotent \/ upsertSpf \/ listDmarc \/ removeDuplicates \/ upsertTxtStyleRecord
    \/ providerRecords \/ ensureEventSubscription \/ converge \/ recheck \/ exit

-----------------------------------------------------------------------------
(* setup:mailbox: the rows, with the zone id it was given or made up.      *)
setupMailbox ==
    /\ \E z \in SeedZones :
        /\ zone = NoRow
        /\ zone' = z
    /\ usable' = TRUE
    /\ mailbox' = TRUE
    /\ UNCHANGED <<remote, at, read, steps, claim, sendingFaults>>

(* What the operator does about a step that was refused: a subscription    *)
(* that is off, incomplete or elsewhere is deleted, a disabled domain is   *)
(* switched on again.                                                      *)
Remedy ==
    /\ WorkerAt("idle") /\ CommandAt("idle") /\ claim.worker = "incomplete"
    /\ \/ "feedback" \in steps.failed
          /\ evaluateFeedbackSubscription(subscriptions).state \notin {"live", "absent"}
          /\ subscriptions' = << >> /\ UNCHANGED usable
       \/ ~usable /\ usable' = TRUE /\ UNCHANGED subscriptions
    /\ UNCHANGED <<enabled, dmarc, spf, dkim, routing, zone, mailbox, at, read, steps, claim, sendingFaults>>

SendingNext ==
    \/ provision \/ WorkerStep \/ WorkerDies
    \/ setupSending \/ CommandStep \/ CommandDies
    \/ setupMailbox \/ Remedy

SendingFairness ==
    /\ WF_sendingVars(provision) /\ WF_sendingVars(WorkerStep) /\ WF_sendingVars(CommandStep)
    /\ SF_sendingVars(Remedy)

-----------------------------------------------------------------------------
Live == evaluateFeedbackSubscription(subscriptions).state = "live"

(* What either program answers is true, and stays true whatever the other  *)
(* is in the middle of: a complete request means that the name can send,   *)
(* under exactly one DMARC record and that one ours, that mail is received *)
(* and that every event reaches our queue; so does a command that ends     *)
(* with 0, with one SPF record ("exiting 0 on a sending domain with no     *)
(* feedback channel is the exact lie this phase was added to stop").       *)
ClaimsAreTrue ==
    /\ claim.worker = "complete" =>
          /\ enabled /\ dmarc = <<"ours">> /\ routing /\ Live
          /\ zone = ZoneId /\ mailbox
    /\ claim.command = "verified" =>
          /\ enabled /\ dmarc = <<"ours">> /\ spf = 1 /\ Live

(* The normal way to finish a domain is to send the request again: with    *)
(* what is refused put right and faults coming to an end, it completes,    *)
(* unless the registry was seeded with an id that names no zone.           *)
SendingAgainFinishes == <>(claim.worker = "complete" \/ zone \notin {NoRow, ZoneId})

(* The same with no exception, as the comment of the endpoint says.        *)
SendingAgainAlwaysFinishes == <>(claim.worker = "complete")
=============================================================================
