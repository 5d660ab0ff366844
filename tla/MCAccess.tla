-------------------------------- MODULE MCAccess --------------------------------
(* Who may act and where Telegram delivers: the owner registry with the gate   *)
(* of the API, and the webhook.  They share no state; a behaviour moves one.   *)
EXTENDS OwnerAccess, WebhookRegistration
CONSTANTS p1, m1, c1, c2
VARIABLE live
vars == <<live, accessVars, webhookVars>>

MCInit ==
    /\ live \in {"access", "webhook"}
    /\ AccessInit
    /\ WebhookInit
    /\ live = "access" => token = CHOOSE t \in Tokens : TRUE
    /\ live = "access" => origin = Unknown
AccessTurn(A) == live = "access" /\ A /\ UNCHANGED <<live, webhookVars>>
WebhookTurn(A) == live = "webhook" /\ A /\ UNCHANGED <<live, accessVars>>
MCNext == AccessTurn(AccessNext) \/ WebhookTurn(WebhookNext)

(* The fairness of the two modules, on the turns of the product.               *)
MCFairness ==
    /\ WF_vars(AccessTurn(SweepStep))
    /\ \A p \in People : WF_vars(AccessTurn(ClaimEnds(p)))
    /\ WF_vars(WebhookTurn(Begin)) /\ WF_vars(WebhookTurn(Compare)) /\ WF_vars(WebhookTurn(PassFails))
    /\ SF_vars(WebhookTurn(Deliver))
    /\ SF_vars(WebhookTurn(getWebhookInfo)) /\ SF_vars(WebhookTurn(setWebhook))
    /\ SF_vars(WebhookTurn(setTelegramWebhookRegistration))
MCSpec == MCInit /\ [][MCNext]_vars /\ MCFairness


(* While nobody drives the bridge there is, again and again, a code that       *)
(* somebody can spend; and what was registered for the webhook is in the end   *)
(* what the deployment is reached by.                                          *)
AccessHeals ==
    /\ (live = "access") => BootstrapNeverStuck
    /\ WebhookHeals
================================================================================
