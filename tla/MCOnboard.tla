----------------------------- MODULE MCOnboard -----------------------------
(* Setting an installation up, for TLC: in each initial state one of the   *)
(* components runs, and `live` says which.                                 *)
EXTENDS SendingDomain, Onboarding

VARIABLE live

vars == <<live, sendingVars, onboardVars>>

Events == {"bounced", "delivered"}
Subscription(on, queue, events) == [enabled |-> on, queue |-> queue, events |-> events]

(* None, one off and elsewhere, one elsewhere and one off, and two that    *)
(* are complete only together.                                             *)
Subscribed ==
    {<< >>, <<Subscription(FALSE, "other", Events)>>,
     <<Subscription(TRUE, "other", Events), Subscription(FALSE, "q", Events)>>,
     <<Subscription(TRUE, "q", {"bounced"}), Subscription(TRUE, "q", {"delivered"})>>}

Met ==
    {<<"records", "twice">>, <<"feedback", "wrong_queue">>, <<"token", FALSE>>,
     <<"routing", "unready">>, <<"rule", "elsewhere">>, <<"zone", "misregistered">>,
     <<"mailbox", "disabled">>, <<"primary", "elsewhere">>, <<"alias", "elsewhere">>,
     <<"templates", "archived">>, <<"topic", "no forum">>, <<"session", "locked">>,
     <<"session", "expiring">>}

Item(k, e) == [key |-> k, endpoint |-> e]
Minted(k, status) == [i \in Keys |-> IF i = k THEN status ELSE "unborn"]
NoKeys == [i \in Keys |-> "unborn"]

Begins(w, i, k) == [world |-> w, items |-> i, keys |-> k]

Begun ==
    {Begins([Fresh EXCEPT ![m[1]] = m[2]], {}, NoKeys) : m \in Met}
    \union {Begins(Fresh, {}, NoKeys),
            Begins(Fresh, {Item(1, "right")}, Minted(1, "active")),
            Begins(Fresh, {Item(1, "stale")}, Minted(1, "misnamed")),
            Begins(Fresh, {Item(1, "right")}, Minted(1, "differs")),
            Begins(Fresh, {Item(1, "right")}, Minted(1, "revoked")),
            Begins(Fresh, {Item(Blank, "right")}, NoKeys),
            Begins(Fresh, {Item(1, "right"), Item(Blank, "right")}, Minted(1, "active"))}

(* Components that do not run keep one initial state.                      *)
SendingRests ==
    /\ ~enabled /\ dmarc = << >> /\ spf = 0 /\ subscriptions = << >>
    /\ zone = NoRow
OnboardRests == world = Fresh /\ items = {}

Init ==
    /\ live \in {"sending", "onboard"}
    /\ SendingInit /\ OnboardInit
    /\ live # "sending" => SendingRests
    /\ live # "onboard" => OnboardRests

SendingTurn(A) == live = "sending" /\ A /\ UNCHANGED <<live, onboardVars>>
OnboardTurn(A) == live = "onboard" /\ A /\ UNCHANGED <<live, sendingVars>>

Next == SendingTurn(SendingNext) \/ OnboardTurn(OnboardNext)

Fairness ==
    /\ WF_vars(SendingTurn(provision)) /\ WF_vars(SendingTurn(WorkerStep))
    /\ WF_vars(SendingTurn(CommandStep)) /\ SF_vars(SendingTurn(Remedy))
    /\ \A r \in Runs :
        /\ WF_vars(OnboardTurn(RunStep(r))) /\ WF_vars(OnboardTurn(start(r, "apply")))
    /\ WF_vars(OnboardTurn(Propagate)) /\ SF_vars(OnboardTurn(deploy))
    /\ SF_vars(OnboardTurn(remedy)) /\ SF_vars(OnboardTurn(deleteItem))

Spec == Init /\ [][Next]_vars /\ Fairness

(* Each program that is run again, with what it refuses put right, gets    *)
(* done: the Worker's request unless the registry names no zone, and       *)
(* onboard.                                                                *)
SetupFinishes ==
    /\ live = "sending" => SendingAgainFinishes
    /\ live = "onboard" => EventuallyOnboarded
=============================================================================
