----------------------------- MODULE Onboarding -----------------------------
(***************************************************************************)
(* `pnpm onboard <manifest>` (scripts/onboard.ts, lib/onboard-core.ts):    *)
(* a list of steps with dependencies, each of which reads what is there,   *)
(* decides that it is already right, that something is to be done, or that *)
(* it is somebody else's decision, and in apply mode does it and reads it  *)
(* back.  A run never deploys and never overwrites; the operator follows   *)
(* the remedies it prints, deploys, and runs it again, perhaps in two      *)
(* terminals at once.  Calls fail or are lost, and runs die.               *)
(*                                                                         *)
(* The manifest asks for one sending name, one address with an alias, a    *)
(* templates file, a topic and one API key kept in 1Password; the world it *)
(* meets is one record, each field valued by what a decision tells apart.  *)
(***************************************************************************)
EXTENDS Naturals, FiniteSets, Sequences

CONSTANTS
    Runs,           \* terminals onboard is started in
    Keys,           \* ids of API keys
    Blank,          \* the key id of an item that has none
    NoKey,          \* nothing minted by a run
    Beginnings,     \* [world, items, keys]: what a first run may meet
    MaxOnboardFaults       \* bound: calls that fail, answers lost, runs that die

(* What the steps read: Cloudflare, public DNS, the repository, D1,         *)
(* Telegram and the session of the 1Password CLI.                          *)
DnsRecords == {"none", "right", "twice"}
Channels == {"absent", "live", "wrong_queue"}
Routings == {"off", "unready", "ready"}
Destinations == {"none", "worker", "elsewhere"}
Registrations == {"none", "active", "disabled", "misregistered"}
Mailboxes == {"none", "mine", "disabled", "not mine"}
Aliases == {"none", "mine", "elsewhere", "disabled"}
TemplateLists == {"none", "synced", "archived"}
Topics == {"none", "ours", "no forum", "other"}
Sessions == {"open", "expiring", "locked"}
World ==
    [enabled : BOOLEAN, records : DnsRecords, seen : DnsRecords, feedback : Channels,
     token : BOOLEAN, generated : BOOLEAN, shipped : BOOLEAN, routing : Routings,
     rule : Destinations, zone : Registrations, mailbox : Mailboxes, primary : Aliases,
     alias : Aliases, templates : TemplateLists, topic : Topics, session : Sessions]

(* A key is active as the manifest has it, or under another sender name,   *)
(* which can be changed in place, or different in a field fixed at its     *)
(* creation.                                                               *)
LiveStatus == {"active", "misnamed", "differs"}
KeyStatus == LiveStatus \union {"unborn", "revoked"}
StoreItem == [key : Keys \union {Blank}, endpoint : {"right", "stale"}]

(* Resolvers show what the zone holds, or nothing yet.                     *)
ASSUME OnboardingAssumption ==
    /\ Blank \notin Keys /\ NoKey \notin Keys \union {Blank}
    /\ IsFiniteSet(Keys) /\ MaxOnboardFaults \in Nat
    /\ \A b \in Beginnings :
        /\ b.world \in World /\ b.world.seen \in {"none", b.world.records}
        /\ b.keys \in [Keys -> KeyStatus] /\ b.items \subseteq StoreItem

VARIABLES
    world,          \* Cloudflare, the repository, D1 and Telegram
    keys,           \* the mailbox's API keys: key -> status
    items,          \* 1Password: items with the title of the manifest
    place,             \* each run: the step and the phase it is in
    mode,           \* each run: "dry-run" or "apply"
    unmet,          \* each run: steps that failed, were blocked or skipped
    minted,         \* each run: the key whose plaintext it holds
    verdict,          \* each run: the exit code it last ended with
    onboardFaults,
    accidents       \* secrets lost: before, by an answer or a run lost, or by deletion

runState == <<place, mode, unmet, minted, verdict>>
budgets == <<onboardFaults, accidents>>
onboardVars == <<world, keys, items, runState, budgets>>

Steps == <<"sending", "config", "deployed", "routing", "rule", "domain", "mailbox",
           "alias", "templates", "topic", "key">>
Deps == [sending |-> {}, config |-> {"sending"}, deployed |-> {"config"}, routing |-> {},
         rule |-> {"routing"}, domain |-> {}, mailbox |-> {"domain"}, alias |-> {"mailbox"},
         templates |-> {"mailbox"}, topic |-> {"mailbox"},
         key |-> {"mailbox", "templates", "sending"}]

Fresh == [enabled |-> FALSE, records |-> "none", seen |-> "none", feedback |-> "absent",
          token |-> TRUE, generated |-> FALSE, shipped |-> FALSE, routing |-> "off",
          rule |-> "none", zone |-> "none", mailbox |-> "none", primary |-> "none",
          alias |-> "none", templates |-> "none", topic |-> "none", session |-> "open"]

Resting == [step |-> 0, phase |-> "idle"]

StepNames == {Steps[i] : i \in DOMAIN Steps}
Phases == {"idle", "decide", "apply", "post", "store", "back", "revoke"}
OnboardTypeOK ==
    /\ world \in World /\ keys \in [Keys -> KeyStatus] /\ items \subseteq StoreItem
    /\ place \in [Runs -> [step : 0 .. Len(Steps) + 1, phase : Phases]]
    /\ mode \in [Runs -> {"dry-run", "apply"}] /\ unmet \in [Runs -> SUBSET StepNames]
    /\ minted \in [Runs -> Keys \union {NoKey}] /\ verdict \in [Runs -> {"none", "zero", "one"}]
    /\ onboardFaults \in 0 .. MaxOnboardFaults /\ accidents \in Nat

(* A key that is live and whose plaintext nobody holds or stored.          *)
Orphans ==
    {k \in Keys : /\ keys[k] \in LiveStatus
                  /\ \A i \in items : i.key # k
                  /\ \A r \in Runs : minted[r] # k}

OnboardInit ==
    /\ \E b \in Beginnings : world = b.world /\ items = b.items /\ keys = b.keys
    /\ place = [r \in Runs |-> Resting]
    /\ mode = [r \in Runs |-> "apply"]
    /\ unmet = [r \in Runs |-> {}]
    /\ minted = [r \in Runs |-> NoKey]
    /\ verdict = [r \in Runs |-> "none"]
    /\ onboardFaults = 0
    /\ accidents = Cardinality(Orphans)

-----------------------------------------------------------------------------
(* The decisions, each from what the step reads.                           *)
Choose(already, blocked) ==
    IF already THEN "already" ELSE IF blocked THEN "blocked" ELSE "todo"

(* Records are judged by public DNS, which may lag behind the zone.        *)
observeSending ==
    [enabled |-> world.enabled, records |-> world.seen,
     feedback |-> world.feedback, tokenPresent |-> world.token]

(* What is missing is written by setup:sending, unless it would refuse, or *)
(* there is no token to write DNS with.                                    *)
decideSendingTarget ==
    LET seen == observeSending
        published == seen.enabled /\ seen.records = "right"
    IN  Choose(published /\ seen.feedback = "live",
               \/ seen.records = "twice" \/ seen.feedback = "wrong_queue"
               \/ ~seen.tokenPresent /\ ~published)

decideSendingConfig == Choose(world.generated, FALSE)

(* Every version that serves traffic has the names; onboard never deploys. *)
shipped == world.shipped
decideDeployedDomains == Choose(shipped, TRUE)

decideRoutingEnabled == Choose(world.routing = "ready", world.routing = "unready")

decideRoutingRule == Choose(world.rule = "worker", world.rule = "elsewhere")

decideDomain == Choose(world.zone = "active", world.zone \in {"disabled", "misregistered"})

(* Mutant: a mailbox without its primary alias is taken for another's.     *)
decideMailboxWhole ==
    Choose(world.mailbox = "mine" /\ world.primary = "mine", world.mailbox # "none")

(* A mailbox whose primary alias was never made is completed.              *)
decideMailbox ==
    Choose(world.mailbox = "mine" /\ world.primary = "mine",
           \/ world.mailbox \in {"disabled", "not mine"}
           \/ world.mailbox = "mine" /\ world.primary = "elsewhere")

decideAlias == Choose(world.alias = "mine", world.alias \in {"elsewhere", "disabled"})

(* An archived id is invisible to the list, so it reads as one to create.  *)
diffTemplates == IF world.templates = "synced" THEN {} ELSE {"create"}
decideTemplates == Choose(diffTemplates = {}, FALSE)

decideTelegramTopic == Choose(world.topic = "ours", world.topic \in {"no forum", "other"})

observeStore ==
    IF world.session = "locked" THEN "unavailable"
    ELSE IF items = {} THEN "absent"
    ELSE IF Cardinality(items) > 1 THEN "ambiguous" ELSE "present"

(* The store is the idempotency key: an item that names an active key      *)
(* means that the key exists.  It is as the manifest has it, or can be     *)
(* made so, unless they differ in a field fixed at creation.               *)
HasLiveKey(i) == i.key \in Keys /\ keys[i.key] = "active"
Mendable(i) == HasLiveKey(i) \/ (i.key \in Keys /\ keys[i.key] = "misnamed")
decideKey ==
    Choose(observeStore = "present" /\ \A i \in items : HasLiveKey(i) /\ i.endpoint = "right",
           \/ observeStore \in {"unavailable", "ambiguous"}
           \/ observeStore = "present" /\ \E i \in items : ~Mendable(i))

Decision(s) ==
    CASE s = "sending" -> decideSendingTarget
      [] s = "config" -> decideSendingConfig
      [] s = "deployed" -> decideDeployedDomains
      [] s = "routing" -> decideRoutingEnabled
      [] s = "rule" -> decideRoutingRule
      [] s = "domain" -> decideDomain
      [] s = "mailbox" -> decideMailbox
      [] s = "alias" -> decideAlias
      [] s = "templates" -> decideTemplates
      [] s = "topic" -> decideTelegramTopic
      [] OTHER -> decideKey

-----------------------------------------------------------------------------
(* The engine.                                                             *)
StepOf(r) == Steps[place[r].step]
In(r, s, phase) == place[r].step \in DOMAIN Steps /\ StepOf(r) = s /\ place[r].phase = phase

Advance(r, met) ==
    /\ place' = [place EXCEPT ![r] = [step |-> @.step + 1, phase |-> "decide"]]
    /\ unmet' = IF met THEN unmet ELSE [unmet EXCEPT ![r] = @ \union {StepOf(r)}]
    /\ minted' = [minted EXCEPT ![r] = NoKey]
    /\ UNCHANGED <<mode, verdict>>

Enter(r, phase) ==
    /\ place' = [place EXCEPT ![r].phase = phase]
    /\ UNCHANGED <<mode, unmet, verdict>>

Fault(lost) ==
    /\ onboardFaults < MaxOnboardFaults
    /\ onboardFaults' = onboardFaults + 1
    /\ accidents' = accidents + lost

(* A first look may be a dry run; whoever is not done yet runs it again.   *)
start(r, m) ==
    /\ place[r] = Resting /\ verdict[r] # "zero"
    /\ m = "dry-run" => verdict[r] = "none"
    /\ place' = [place EXCEPT ![r] = [step |-> 1, phase |-> "decide"]]
    /\ mode' = [mode EXCEPT ![r] = m]
    /\ unmet' = [unmet EXCEPT ![r] = {}]
    /\ UNCHANGED <<world, keys, items, minted, verdict, budgets>>

(* A step whose dependency is unmet is skipped; else its decision passes   *)
(* through, or is carried out.  A read that fails blocks the step.         *)
settle(r) ==
    /\ place[r].step \in DOMAIN Steps /\ place[r].phase = "decide"
    /\ \/ Deps[StepOf(r)] \intersect unmet[r] # {} /\ Advance(r, FALSE)
          /\ UNCHANGED budgets
       \/ Deps[StepOf(r)] \intersect unmet[r] = {} /\ Decision(StepOf(r)) = "todo"
          /\ mode[r] = "apply" /\ Enter(r, "apply") /\ UNCHANGED <<minted, budgets>>
       \/ Deps[StepOf(r)] \intersect unmet[r] = {}
          /\ (Decision(StepOf(r)) # "todo" \/ mode[r] = "dry-run")
          /\ Advance(r, Decision(StepOf(r)) # "blocked") /\ UNCHANGED budgets
       \/ Deps[StepOf(r)] \intersect unmet[r] = {} /\ Fault(0) /\ Advance(r, FALSE)
    /\ UNCHANGED <<world, keys, items>>

-----------------------------------------------------------------------------
(* What the steps do.  The command of the sending step enables the name,   *)
(* writes its records unless two SPF records are in the way, and makes or  *)
(* mends the subscription unless it is pointed elsewhere; it may stop in   *)
(* between.  The step then looks again: records public DNS does not show   *)
(* yet are no failure.                                                     *)
sendingCommand(w) ==
    IF w.records = "twice" THEN [w EXCEPT !.enabled = TRUE]
    ELSE [w EXCEPT !.enabled = TRUE, !.records = "right",
                   !.feedback = IF @ = "wrong_queue" THEN @ ELSE "live"]

sendingStep(r) ==
    /\ In(r, "sending", "apply")
    /\ \/ world' = sendingCommand(world)
          /\ Advance(r, world'.records = "right" /\ world'.feedback = "live")
          /\ UNCHANGED budgets
       \/ world' \in {[world EXCEPT !.enabled = TRUE],
                      [world EXCEPT !.enabled = TRUE, !.records = sendingCommand(world).records]}
          /\ Fault(0) /\ Advance(r, FALSE)
    /\ UNCHANGED <<keys, items>>

(* A step that does one thing: done, and read back; or the call failed.    *)
Applied(r, s, w, met) ==
    /\ In(r, s, "apply")
    /\ \/ world' = w /\ Advance(r, met) /\ UNCHANGED budgets
       \/ world' \in {world, w} /\ Fault(0) /\ Advance(r, FALSE)
    /\ UNCHANGED <<keys, items>>

configStep(r) == Applied(r, "config", [world EXCEPT !.generated = TRUE], TRUE)

(* Enabling that leaves the DNS of the zone unverified still counts.       *)
routingEnableStep(r) ==
    \E s \in {"ready", "unready"} :
        Applied(r, "routing", [world EXCEPT !.routing = IF @ = "off" THEN s ELSE @], TRUE)

routingRuleStep(r) == Applied(r, "rule", [world EXCEPT !.rule = "worker"], TRUE)

domainStep(r) == Applied(r, "domain", [world EXCEPT !.zone = IF @ = "none" THEN "active" ELSE @], TRUE)

(* POST /api/mailboxes makes the row, then its primary alias.              *)
mailboxStep(r) ==
    \/ Applied(r, "mailbox", [world EXCEPT !.mailbox = "mine", !.primary = "mine"], TRUE)
    \/ /\ In(r, "mailbox", "apply") /\ Fault(0) /\ Advance(r, FALSE)
       /\ world' = [world EXCEPT !.mailbox = "mine"]
       /\ UNCHANGED <<keys, items>>

aliasStep(r) == Applied(r, "alias", [world EXCEPT !.alias = "mine"], TRUE)

(* The sync never revives an archived id, and says so.                     *)
interpretTemplateSync(result) == result = "synced"
templatesStep(r) ==
    LET result == IF world.templates = "archived" THEN "archived" ELSE "synced"
    IN  Applied(r, "templates", [world EXCEPT !.templates = result], interpretTemplateSync(result))

telegramTopicStep(r) == Applied(r, "topic", [world EXCEPT !.topic = "ours"], TRUE)

-----------------------------------------------------------------------------
(* The key: a sender name that differs is corrected, then an endpoint that *)
(* is stale; where there is no item, the store is read once more, a key is *)
(* minted, its plaintext stored, and the item read back; a key that could  *)
(* not be stored is revoked.                                               *)
StoreUnchanged == UNCHANGED <<world, items>>

renamed == [k \in Keys |-> IF keys[k] = "misnamed" /\ \E i \in items : i.key = k
                           THEN "active" ELSE keys[k]]

fixItem(r) ==
    /\ In(r, "key", "apply") /\ observeStore = "present"
    /\ \/ keys' = renamed /\ items' = {[i EXCEPT !.endpoint = "right"] : i \in items}
          /\ Advance(r, TRUE) /\ UNCHANGED budgets
       \/ keys' \in {keys, renamed} /\ UNCHANGED items /\ Fault(0) /\ Advance(r, FALSE)
    /\ UNCHANGED world

mintKey(r) ==
    /\ In(r, "key", "apply")
    /\ \/ observeStore = "absent" /\ Enter(r, "post") /\ UNCHANGED minted
       \/ observeStore \in {"unavailable", "ambiguous"} /\ Advance(r, FALSE)
    /\ UNCHANGED <<keys, budgets>>
    /\ StoreUnchanged

createKey(r) ==
    /\ In(r, "key", "post")
    /\ \/ \E k \in Keys :
            /\ keys[k] = "unborn"
            /\ keys' = [keys EXCEPT ![k] = "active"]
            /\ \/ minted' = [minted EXCEPT ![r] = k] /\ Enter(r, "store") /\ UNCHANGED budgets
               \/ Fault(1) /\ Advance(r, FALSE)
       \/ UNCHANGED keys /\ Fault(0) /\ Advance(r, FALSE)
    /\ StoreUnchanged

buildOnePasswordItem(k) == [key |-> k, endpoint |-> "right"]

opCreateFromTemplate(r) ==
    /\ In(r, "key", "store")
    /\ \/ world.session # "locked"
          /\ items' = items \union {buildOnePasswordItem(minted[r])}
          /\ Enter(r, "back") /\ UNCHANGED budgets
       \/ world.session = "locked" /\ UNCHANGED items
          /\ Enter(r, "revoke") /\ UNCHANGED budgets
       \/ items' \in {items, items \union {buildOnePasswordItem(minted[r])}}
          /\ Fault(0) /\ Enter(r, "revoke")
    /\ UNCHANGED <<world, keys, minted>>

(* Mutant: the failure to store is reported, and the key left.             *)
reportUnstored(r) ==
    /\ In(r, "key", "revoke")
    /\ Advance(r, FALSE)
    /\ UNCHANGED <<keys, budgets>>
    /\ StoreUnchanged

revokeUnstored(r) ==
    /\ In(r, "key", "revoke")
    /\ \/ keys' = [keys EXCEPT ![minted[r]] = "revoked"] /\ UNCHANGED budgets
       \/ UNCHANGED keys /\ Fault(1)
    /\ Advance(r, FALSE)
    /\ StoreUnchanged

readBack(r) ==
    /\ In(r, "key", "back")
    /\ Advance(r, observeStore = "present" /\ \A i \in items : i.key = minted[r])
    /\ UNCHANGED <<keys, budgets>>
    /\ StoreUnchanged

mint(r) ==
    mintKey(r) \/ createKey(r) \/ opCreateFromTemplate(r) \/ revokeUnstored(r) \/ readBack(r)

(* Exit code 0 says that every step of an apply run is in place.           *)
exitCodeFor(r) ==
    /\ place[r].step = Len(Steps) + 1
    /\ place' = [place EXCEPT ![r] = Resting]
    /\ verdict' = [verdict EXCEPT ![r] =
                    IF unmet[r] = {} /\ mode[r] = "apply" THEN "zero" ELSE "one"]
    /\ UNCHANGED <<world, keys, items, mode, unmet, minted, budgets>>

(* A run that dies may hold the only copy of a plaintext.                  *)
RunDies(r) ==
    /\ place[r] # Resting
    /\ Fault(IF minted[r] # NoKey THEN 1 ELSE 0)
    /\ place' = [place EXCEPT ![r] = Resting]
    /\ minted' = [minted EXCEPT ![r] = NoKey]
    /\ verdict' = [verdict EXCEPT ![r] = "one"]
    /\ UNCHANGED <<world, keys, items, mode, unmet>>

RunStep(r) ==
    \/ settle(r) \/ sendingStep(r) \/ configStep(r) \/ routingEnableStep(r)
    \/ routingRuleStep(r) \/ domainStep(r) \/ mailboxStep(r) \/ aliasStep(r)
    \/ templatesStep(r) \/ telegramTopicStep(r) \/ fixItem(r) \/ mint(r)
    \/ exitCodeFor(r)

-----------------------------------------------------------------------------
(* Outside the runs: resolvers catch up, a session of the 1Password CLI    *)
(* expires, and between runs the operator deploys what was generated and   *)
(* follows the remedies printed.                                           *)
Propagate ==
    /\ world.seen # world.records
    /\ world' = [world EXCEPT !.seen = world.records]
    /\ UNCHANGED <<keys, items, runState, budgets>>

sessionExpires ==
    /\ world.session = "expiring"
    /\ world' = [world EXCEPT !.session = "locked"]
    /\ UNCHANGED <<keys, items, runState, budgets>>

Between == \A r \in Runs : place[r] = Resting
Failed(s) == \E r \in Runs : verdict[r] = "one" /\ s \in unmet[r]

deploy ==
    /\ Between /\ Failed("deployed") /\ world.generated
    /\ world' = [world EXCEPT !.shipped = TRUE]
    /\ UNCHANGED <<keys, items, runState, budgets>>

Remedied ==
    [enabled |-> world.enabled,
     records |-> IF world.seen = "twice" THEN "none" ELSE world.records,
     seen |-> IF world.seen = "twice" THEN "none" ELSE world.seen,
     feedback |-> IF world.feedback = "wrong_queue" THEN "absent" ELSE world.feedback,
     token |-> TRUE, generated |-> world.generated, shipped |-> world.shipped,
     routing |-> IF world.routing = "unready" THEN "ready" ELSE world.routing,
     rule |-> IF world.rule = "elsewhere" THEN "none" ELSE world.rule,
     zone |-> IF world.zone = "none" THEN "none" ELSE "active",
     mailbox |-> IF world.mailbox = "none" THEN "none" ELSE "mine",
     primary |-> IF world.primary = "elsewhere" THEN "none" ELSE world.primary,
     alias |-> IF world.alias \in {"elsewhere", "disabled"} THEN "none" ELSE world.alias,
     templates |-> IF world.templates = "archived" THEN "none" ELSE world.templates,
     topic |-> IF world.topic \in {"no forum", "other"} THEN "none" ELSE world.topic,
     session |-> "open"]

remedy ==
    /\ Between /\ \E r \in Runs : verdict[r] = "one"
    /\ world' = Remedied /\ world' # world
    /\ UNCHANGED <<keys, items, runState, budgets>>

(* A key that cannot be made what the manifest asks for is revoked, and    *)
(* then its item deleted: exactly one item is to have the title, and it is *)
(* to hold such a key.                                                     *)
revokeKey ==
    /\ Between /\ Failed("key")
    /\ \E i \in items : /\ i.key \in Keys /\ keys[i.key] = "differs"
                         /\ keys' = [keys EXCEPT ![i.key] = "revoked"]
    /\ UNCHANGED <<world, items, runState, budgets>>

deleteItem ==
    /\ Between /\ Failed("key")
    /\ \E i \in items :
        /\ Cardinality(items) > 1 \/ ~Mendable(i)
        /\ items' = items \ {i}
        /\ accidents' = accidents + (IF i.key \in Keys /\ keys[i.key] \in LiveStatus THEN 1 ELSE 0)
    /\ UNCHANGED <<world, keys, runState, onboardFaults>>

OnboardNext ==
    \/ \E r \in Runs : \/ RunStep(r) \/ RunDies(r) \/ \E m \in {"dry-run", "apply"} : start(r, m)
    \/ Propagate \/ sessionExpires \/ deploy \/ remedy \/ revokeKey \/ deleteItem

OnboardFairness ==
    /\ \A r \in Runs : WF_onboardVars(RunStep(r)) /\ WF_onboardVars(start(r, "apply"))
    /\ WF_onboardVars(Propagate)
    /\ SF_onboardVars(deploy) /\ SF_onboardVars(remedy) /\ SF_onboardVars(deleteItem)

OnboardSpec == OnboardInit /\ [][OnboardNext]_onboardVars /\ OnboardFairness

-----------------------------------------------------------------------------
(* A key whose secret is stored nowhere is not left live, unless the       *)
(* answer, the run or the item that held it was lost, or it was so before  *)
(* ("A key whose secret was stored nowhere is a lost key; do not leave it  *)
(* live.").                                                                *)
LostKeysAreCounted == Cardinality(Orphans) <= accidents

(* The name sends under its own records with its events heard, the worker  *)
(* ships it, and mail is routed to the mailbox that has the address and    *)
(* the alias, with its templates and its topic.                            *)
SetUpInPlace ==
    /\ world.enabled /\ world.records = "right" /\ world.feedback = "live"
    /\ world.generated /\ world.shipped
    /\ world.routing # "off" /\ world.rule = "worker"
    /\ world.zone = "active" /\ world.mailbox = "mine" /\ world.primary = "mine"
    /\ world.alias = "mine" /\ world.templates = "synced" /\ world.topic = "ours"

(* Exit code 0 is the truth, and stays it while other runs go on.          *)
ZeroIsSetUp == \A r \in Runs : verdict[r] = "zero" => SetUpInPlace

(* And an item of the store names a live key, as the manifest has it.      *)
ZeroHasKey == \A r \in Runs : verdict[r] = "zero" => \E i \in items : HasLiveKey(i)

(* What onboard leaves behind, whether it ends or dies.                    *)
OnboardedIsWhole == OnboardTypeOK /\ LostKeysAreCounted /\ ZeroIsSetUp /\ ZeroHasKey

(* Running it again, with the remedies followed and the worker deployed,   *)
(* ends in a run that has nothing left to say.                             *)
EventuallyOnboarded == <>(\E r \in Runs : verdict[r] = "zero")
=============================================================================
