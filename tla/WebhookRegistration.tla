------------------------ MODULE WebhookRegistration ------------------------
(***************************************************************************)
(* How the bridge keeps Telegram's webhook pointed at this deployment      *)
(* (telegram/registration.ts): an hourly pass compares what Telegram says  *)
(* of the webhook and what D1 remembers having registered with what the    *)
(* deployment now wants, and registers again where they differ.            *)
(*                                                                         *)
(* Meanwhile the token is rotated, a new build handles more kinds of       *)
(* update, the deployment moves to another origin, and a third party       *)
(* registers the bot for itself.  A secret is named by the token it is     *)
(* derived from, a list of updates by the build that asked for it.         *)
(***************************************************************************)
EXTENDS Naturals

CONSTANTS
    Tokens,         \* bot tokens, the last of them in force
    Origins,        \* public origins of the deployment
    Foreign,        \* an origin and a secret of somebody else's
    Unknown,        \* no origin observed yet, no webhook, no record
    MaxDrifts       \* bound: changes from outside

ASSUME WebhookAssumption ==
    /\ Foreign \notin Origins \union Tokens /\ Unknown \notin Origins \union Tokens \union {Foreign}
    /\ MaxDrifts \in Nat

VARIABLES
    token,          \* TELEGRAM_BOT_TOKEN of the deployment
    build,          \* the build, by the updates it handles
    origin,         \* D1: deployment.origin
    hook,           \* Telegram: the webhook it delivers to
    errors,         \* Telegram's last error is newer than our registration
    record,         \* D1: telegram.webhook_registration
    pass,           \* the sweep: where it is and what it has read
    drifts,
    registered      \* every <<secret, url>> Telegram has accepted from us

webhookVars == <<token, build, origin, hook, errors, record, pass, drifts, registered>>

NoPass == [at |-> "idle", token |-> Unknown, build |-> 0, url |-> Unknown, seen |-> Unknown]
NoRecord == [fingerprint |-> Unknown, url |-> Unknown]

WebhookInit ==
    /\ token \in Tokens
    /\ build = 1
    /\ origin \in Origins \union {Unknown}
    /\ hook = [url |-> Unknown, secret |-> Unknown, updates |-> 0]
    /\ errors = FALSE
    /\ record = NoRecord
    /\ pass = NoPass
    /\ drifts = 0
    /\ registered = {}

Wanted == [url |-> origin, secret |-> token, updates |-> build]

-----------------------------------------------------------------------------
(* What changes from outside.                                              *)
Drift ==
    /\ drifts < MaxDrifts
    /\ drifts' = drifts + 1
    /\ UNCHANGED <<record, pass, registered>>
RotateToken == Drift /\ token' \in Tokens \ {token} /\ UNCHANGED <<build, origin, hook, errors>>
Deploy == Drift /\ build' = build + 1 /\ UNCHANGED <<token, origin, hook, errors>>
recordDeploymentOrigin == Drift /\ origin' \in Origins \ {origin} /\ UNCHANGED <<token, build, hook, errors>>
TakeOver ==
    /\ Drift
    /\ \E url \in {hook.url, Foreign} : hook' = [url |-> url, secret |-> Foreign, updates |-> build]
    /\ UNCHANGED <<token, build, origin, errors>>

(* Telegram delivers an update.  Our route answers 401 to a secret that is *)
(* not the token's; the error counts once it is newer than our last        *)
(* registration by more than the tolerated skew.                           *)
Deliver ==
    /\ hook.url = origin /\ origin # Unknown
    /\ hook.secret # token
    /\ errors' = TRUE
    /\ UNCHANGED <<token, build, origin, hook, record, pass, drifts, registered>>

-----------------------------------------------------------------------------
(* One pass.  It keeps the configuration it started with; a token rotated  *)
(* under it is refused by Telegram from then on.                           *)
Pass(f) == pass' = f /\ UNCHANGED <<token, build, origin, errors, drifts>>
Outside == UNCHANGED <<hook, record, registered>>
Begin ==
    /\ pass.at = "idle" /\ origin # Unknown
    /\ Pass([pass EXCEPT !.at = "getWebhookInfo", !.token = token, !.build = build, !.url = origin])
    /\ Outside
getWebhookInfo ==
    /\ pass.at = "getWebhookInfo" /\ pass.token = token
    /\ Pass([pass EXCEPT !.at = "compare",
                         !.seen = [url |-> hook.url, updates |-> hook.updates, errors |-> errors]])
    /\ Outside

\* Mutant: what Telegram says of failed deliveries is not looked at.
causeWithoutErrors ==
    \/ pass.seen.url # pass.url
    \/ pass.seen.updates < pass.build
    \/ record = NoRecord
    \/ record.fingerprint # pass.token
(* null when the live registration is the wanted one                       *)
registrationCause ==
    \/ pass.seen.url # pass.url
    \/ pass.seen.updates < pass.build
    \/ record = NoRecord
    \/ record.fingerprint # pass.token
    \/ pass.seen.errors
Compare ==
    /\ pass.at = "compare"
    /\ Pass(IF registrationCause THEN [pass EXCEPT !.at = "setWebhook"] ELSE NoPass)
    /\ Outside
setWebhook ==
    /\ pass.at = "setWebhook" /\ pass.token = token
    /\ hook' = [url |-> pass.url, secret |-> pass.token, updates |-> pass.build]
    /\ registered' = registered \union {<<pass.token, pass.url>>}
    /\ Pass([pass EXCEPT !.at = "record"])
    /\ UNCHANGED record
\* Mutant: the record names the token in force, not the one registered.
recordTokenInForce ==
    /\ pass.at = "record"
    /\ record' = [fingerprint |-> token, url |-> pass.url]
    /\ errors' = FALSE
    /\ pass' = NoPass
    /\ UNCHANGED <<token, build, origin, hook, drifts, registered>>
setTelegramWebhookRegistration ==
    /\ pass.at = "record"
    /\ record' = [fingerprint |-> pass.token, url |-> pass.url]
    /\ errors' = FALSE
    /\ pass' = NoPass
    /\ UNCHANGED <<token, build, origin, hook, drifts, registered>>
PassFails ==
    /\ pass.at \in {"getWebhookInfo", "setWebhook", "record"}
    /\ Pass(NoPass)
    /\ Outside

reconcileTelegramWebhook ==
    Begin \/ getWebhookInfo \/ Compare \/ setWebhook \/ setTelegramWebhookRegistration

WebhookNext ==
    \/ RotateToken \/ Deploy \/ recordDeploymentOrigin \/ TakeOver
    \/ Deliver
    \/ reconcileTelegramWebhook \/ PassFails

(* The sweep runs every hour; updates keep being sent; an outage of        *)
(* Telegram or D1 ends, so that a call tried for ever succeeds in the end. *)
WebhookFairness ==
    /\ WF_webhookVars(Begin) /\ WF_webhookVars(Compare) /\ SF_webhookVars(Deliver)
    /\ SF_webhookVars(getWebhookInfo) /\ SF_webhookVars(setWebhook)
    /\ SF_webhookVars(setTelegramWebhookRegistration)
    /\ WF_webhookVars(PassFails)
WebhookSpec == WebhookInit /\ [][WebhookNext]_webhookVars /\ WebhookFairness

-----------------------------------------------------------------------------
(* What D1 remembers having registered was true once: Telegram accepted    *)
(* that secret for that url from us.                                       *)
RecordWasTrue == (record # NoRecord) => (<<record.fingerprint, record.url>> \in registered)

(* Once the changes stop, Telegram ends up delivering to the origin in     *)
(* force, with the secret in force and the updates this build handles,     *)
(* whoever moved the webhook away and however a pass was cut short.        *)
WebhookHeals == <>[]((origin = Unknown) \/ (hook = Wanted))
=============================================================================
