-------------------------------- MODULE MCControl --------------------------------
(* What an administrator changes while the system runs: the keys of a mailbox,  *)
(* its templates, the routing of the domain; and what the send log says of a    *)
(* sending domain.  They share no state, so a behaviour moves one of them; of   *)
(* the routing, either two edits that overlap, or one with a mail on its way.   *)
EXTENDS ApiKeys, MailRouting, FeedbackLiveness, TLC
CONSTANTS b1, b2, a1, a2, n1
VARIABLE live

MCInit ==
    /\ live \in {"keys", "templates", "editing", "resolving", "feedback"}
    /\ KeysInit
    /\ RoutingInit
    /\ FeedbackInit
    /\ live # "keys" => keys = <<>>
    /\ live = "resolving" => Cardinality({a \in Addresses : aliases[a] # NoAlias}) <= 1
    /\ live # "resolving" => domain = "active"
    /\ live \notin {"editing", "resolving"} =>
        /\ mailboxes = [a \in Addresses |-> "absent"]
        /\ rules = [r \in Rules |-> NoRule]
    /\ live # "feedback" => wired = {}
Begun(n) == Cardinality({e \in Editors : edit'[e].at # "new"}) <= n
ControlNext ==
    \/ live = "keys" /\ KeyTableNext /\ UNCHANGED routingVars
    \/ live = "templates" /\ TemplateCall /\ UNCHANGED routingVars
    \/ live = "editing" /\ RoutingNext /\ UNCHANGED <<edits, mail, keyVars>>
    \/ live = "resolving" /\ RoutingNext /\ Begun(1) /\ UNCHANGED keyVars
MCNext ==
    /\ UNCHANGED live
    /\ \/ ControlNext /\ UNCHANGED feedbackVars
       \/ live = "feedback" /\ FeedbackNext /\ UNCHANGED <<keyVars, routingVars>>
MCSpec == MCInit /\ [][MCNext]_<<live, keyVars, routingVars, feedbackVars>>
MCSymmetry == Permutations(Calls) \union Permutations(Addresses)

\* Two requests of two mailboxes, from one sending domain.
MCDomainOf == [s \in Requests |-> n1]
MCBoxOf == [s \in Requests |-> s]
================================================================================
