---------------------------- MODULE MailRouting ----------------------------
(***************************************************************************)
(* The control plane in D1 that says whose mail an address is: mailboxes,  *)
(* one domain, aliases and routing rules, the routes that edit them        *)
(* (hono.ts) and the resolution the inbound handler makes for a recipient  *)
(* (d1.ts, email-handler.ts).                                              *)
(*                                                                         *)
(* Every statement to D1 is an await of its own, so an edit that checks    *)
(* and then writes, and a resolution that reads three tables, interleave   *)
(* with every other.  A mailbox is named by its primary address: the id is *)
(* random, and UNIQUE(primary_address) with a read-back makes it one to    *)
(* one.                                                                    *)
(***************************************************************************)
EXTENDS Naturals, FiniteSets

CONSTANTS
    Addresses,      \* of the domain; a mailbox is named by one of them
    Rules,          \* rule ids, in the order of their priority
    Nobody,         \* no mailbox
    Editors,        \* calls that take several statements
    Deliveries,     \* mails on their way in
    MaxEdits        \* bound: edits of one statement

ASSUME RoutingAssumption == Nobody \notin Addresses /\ Rules \subseteq Nat /\ MaxEdits \in Nat

VARIABLES
    mailboxes,      \* [Addresses -> status]
    domain,         \* status of the domain
    aliases,        \* [Addresses -> mailbox it points to, status]
    rules,          \* [Rules -> action, mailbox, enabled]
    edit,           \* [Editors -> where the call is and what it read]
    mail,           \* [Deliveries -> where the resolution is and what it read]
    edits,
    steady,         \* deliveries whose alias and domain have not changed since they came
    shut            \* <<d, m>>: mailbox m has been disabled ever since d came

routingVars == <<mailboxes, domain, aliases, rules, edit, mail, edits, steady, shut>>
registry == <<mailboxes, domain, aliases, rules>>

RowStatus == {"absent", "active", "disabled"}
Owner == Addresses \union {Nobody}
Alias == [to : Addresses, status : {"active", "disabled"}] \union {[to |-> Nobody, status |-> "absent"]}
NoAlias == [to |-> Nobody, status |-> "absent"]
Rule == [action : {"store", "forward", "reject"}, to : Owner, enabled : BOOLEAN]
            \union {[action |-> "absent", to |-> Nobody, enabled |-> FALSE]}
NoRule == [action |-> "absent", to |-> Nobody, enabled |-> FALSE]
Stores(m) == [action |-> "store", to |-> m, enabled |-> TRUE]
Exists(m) == m \in Addresses /\ mailboxes[m] # "absent"
mailboxIsActive(m) == m \in Addresses /\ mailboxes[m] = "active"

NoEdit == [at |-> "new", for |-> Nobody, key |-> Nobody, patch |-> NoRule, reason |-> "none"]
NoMail == [at |-> "coming", rcpt |-> Nobody, claim |-> Nobody, todo |-> {}, box |-> Nobody, out |-> "none"]

(* A registry somebody has set up: what points at a mailbox points at one  *)
(* that exists (the foreign keys), and a store rule names its mailbox.     *)
RoutingInit ==
    /\ mailboxes \in [Addresses -> RowStatus]
    /\ domain \in {"active", "disabled"}
    /\ aliases \in [Addresses -> Alias]
    /\ rules \in [Rules -> {NoRule, [action |-> "forward", to |-> Nobody, enabled |-> TRUE]}
                            \union {Stores(m) : m \in Addresses}]
    /\ \A a \in Addresses : (aliases[a].to # Nobody) => Exists(aliases[a].to)
    /\ \A r \in Rules : (rules[r].to # Nobody) => Exists(rules[r].to)
    /\ edit = [e \in Editors |-> NoEdit]
    /\ mail = [d \in Deliveries |-> NoMail]
    /\ edits = 0
    /\ steady = {}
    /\ shut = {}

-----------------------------------------------------------------------------
(* Edits of one statement.                                                 *)
OneStatement ==
    /\ edits < MaxEdits
    /\ edits' = edits + 1
    /\ UNCHANGED <<edit, mail>>
updateMailbox ==
    /\ OneStatement
    /\ \E m \in Addresses, s \in {"active", "disabled"} :
        Exists(m) /\ mailboxes' = [mailboxes EXCEPT ![m] = s]
    /\ UNCHANGED <<domain, aliases, rules>>
updateDomain ==
    /\ OneStatement
    /\ domain' \in {"active", "disabled"}
    /\ UNCHANGED <<mailboxes, aliases, rules>>
updateAlias ==
    /\ OneStatement
    /\ \E a \in Addresses, s \in {"active", "disabled"} :
        /\ aliases[a] # NoAlias
        /\ aliases' = [aliases EXCEPT ![a].status = s]
    /\ UNCHANGED <<mailboxes, domain, rules>>
deleteAlias ==
    /\ OneStatement
    /\ \E a \in Addresses : aliases[a] # NoAlias /\ aliases' = [aliases EXCEPT ![a] = NoAlias]
    /\ UNCHANGED <<mailboxes, domain, rules>>
deleteRoutingRule ==
    /\ OneStatement
    /\ \E r \in Rules : rules[r] # NoRule /\ rules' = [rules EXCEPT ![r] = NoRule]
    /\ UNCHANGED <<mailboxes, domain, aliases>>

-----------------------------------------------------------------------------
(* Edits of several statements: each reads, and writes in a later step.    *)
Moves(e, f) == edit' = [edit EXCEPT ![e] = f] /\ UNCHANGED <<mail, edits>>
Ends(e, reason) == Moves(e, [edit[e] EXCEPT !.at = "answered", !.reason = reason])

(* POST /api/mailboxes: the mailbox is created unless the address has one, *)
(* and ensurePrimaryAlias then makes it reachable, without ever pointing   *)
(* another mailbox's alias at it.                                          *)
createMailbox(e) ==
    \/ /\ edit[e].at = "new"
       /\ \E m \in Addresses :
            Moves(e, [NoEdit EXCEPT !.at = IF Exists(m) THEN "getAlias" ELSE "insertMailbox",
                                    !.for = m, !.key = m])
       /\ UNCHANGED registry
    \/ /\ edit[e].at = "insertMailbox"
       /\ mailboxes' = [mailboxes EXCEPT ![edit[e].for] = IF @ = "absent" THEN "active" ELSE @]
       /\ Moves(e, [edit[e] EXCEPT !.at = "getAlias"])
       /\ UNCHANGED <<domain, aliases, rules>>
ensurePrimaryAlias(e) ==
    LET a == edit[e].key IN
    \/ /\ edit[e].at = "getAlias"
       /\ LET found == aliases[a] IN
            \/ found = NoAlias /\ Moves(e, [edit[e] EXCEPT !.at = "getDomain"])
            \/ found # NoAlias /\ found.to # edit[e].for /\ Ends(e, "routes_elsewhere")
            \/ found = [to |-> edit[e].for, status |-> "active"] /\ Ends(e, "reachable")
            \/ found = [to |-> edit[e].for, status |-> "disabled"]
                /\ Moves(e, [edit[e] EXCEPT !.at = "enable"])
       /\ UNCHANGED registry
    \/ /\ edit[e].at = "enable"
       /\ aliases' = [aliases EXCEPT ![a] = IF @ = NoAlias THEN @ ELSE [@ EXCEPT !.status = "active"]]
       /\ Ends(e, "reachable")
       /\ UNCHANGED <<mailboxes, domain, rules>>
    \/ /\ edit[e].at = "getDomain"
       /\ IF domain = "active"
          THEN Moves(e, [edit[e] EXCEPT !.at = "insertAliasIfMissing"])
          ELSE Ends(e, "domain_not_active")
       /\ UNCHANGED registry
\* Mutant: the INSERT overwrites a row that came in between.
upsertAlias(e) ==
    /\ edit[e].at = "insertAliasIfMissing"
    /\ aliases' = [aliases EXCEPT ![edit[e].key] = [to |-> edit[e].for, status |-> "active"]]
    /\ Ends(e, "reachable")
    /\ UNCHANGED <<mailboxes, domain, rules>>
insertAliasIfMissing(e) ==
    /\ edit[e].at = "insertAliasIfMissing"
    /\ aliases' = [aliases EXCEPT ![edit[e].key] =
            IF @ = NoAlias THEN [to |-> edit[e].for, status |-> "active"] ELSE @]
    /\ Ends(e, "reachable")
    /\ UNCHANGED <<mailboxes, domain, rules>>

(* POST /api/aliases: the mailbox and the domain are read, then the row is *)
(* inserted; a row that is already there makes the INSERT fail.            *)
insertAlias(e) ==
    \/ /\ edit[e].at = "new"
       /\ \E a \in Addresses, m \in Addresses :
            /\ Exists(m)
            /\ Moves(e, [NoEdit EXCEPT !.at = "insertAlias", !.for = m, !.key = a])
       /\ UNCHANGED registry
    \/ /\ edit[e].at = "insertAlias"
       /\ aliases' = [aliases EXCEPT ![edit[e].key] =
            IF @ = NoAlias THEN [to |-> edit[e].for, status |-> "active"] ELSE @]
       /\ Ends(e, IF aliases[edit[e].key] = NoAlias THEN "created" ELSE "conflict")
       /\ UNCHANGED <<mailboxes, domain, rules>>

(* POST and PATCH of a rule.  A patch is judged with the row it was read   *)
(* against, and writes only the fields it carries.                         *)
Judged(rule) == (rule.action = "store") => Exists(rule.to)
insertRoutingRule(e) ==
    \/ /\ edit[e].at = "new"
       /\ \E r \in Rules, rule \in Rule \ {NoRule} :
            /\ rules[r] = NoRule
            /\ (rule.to # Nobody) => Exists(rule.to)
            /\ Judged(rule)
            /\ Moves(e, [NoEdit EXCEPT !.at = "insertRule", !.key = r, !.patch = rule])
       /\ UNCHANGED registry
    \/ /\ edit[e].at = "insertRule"
       /\ rules' = [rules EXCEPT ![edit[e].key] = IF @ = NoRule THEN edit[e].patch ELSE @]
       /\ Ends(e, "created")
       /\ UNCHANGED <<mailboxes, domain, aliases>>
Patches == [action : {"store", "forward", "reject"}] \union [to : Owner] \union [enabled : BOOLEAN]
Patched(rule, p) == [f \in DOMAIN rule |-> IF f \in DOMAIN p THEN p[f] ELSE rule[f]]
updateRoutingRule(e) ==
    \/ /\ edit[e].at = "new"
       /\ \E r \in Rules, p \in Patches :
            /\ rules[r] # NoRule
            /\ ("to" \in DOMAIN p /\ p # [to |-> Nobody]) => Exists(p.to)
            /\ Judged(Patched(rules[r], p))
            /\ Moves(e, [NoEdit EXCEPT !.at = "updateRule", !.key = r, !.patch = p])
       /\ UNCHANGED registry
    \/ /\ edit[e].at = "updateRule"
       /\ rules' = [rules EXCEPT ![edit[e].key] = IF @ = NoRule THEN @ ELSE Patched(@, edit[e].patch)]
       /\ Ends(e, IF rules[edit[e].key] = NoRule THEN "not_found" ELSE "updated")
       /\ UNCHANGED <<mailboxes, domain, aliases>>

-----------------------------------------------------------------------------
(* The resolution of a recipient.                                          *)
Resolves(d, f) == mail' = [mail EXCEPT ![d] = f] /\ UNCHANGED <<registry, edit, edits>>
Out(d, out, box) == [mail[d] EXCEPT !.at = "routed", !.out = out, !.box = box]
Claimed(a) == IF aliases[a].status = "active" /\ domain = "active" THEN aliases[a].to ELSE Nobody

Arrive(d) ==
    /\ mail[d].at = "coming"
    /\ \E a \in Addresses :
        Resolves(d, [NoMail EXCEPT !.at = "lookupActiveAlias", !.rcpt = a, !.claim = Claimed(a)])
lookupActiveAlias(d) ==
    /\ mail[d].at = "lookupActiveAlias"
    /\ LET m == Claimed(mail[d].rcpt) IN
        Resolves(d, [mail[d] EXCEPT !.at = IF m = Nobody THEN "getDomainByName" ELSE "aliasMailbox",
                                    !.box = m])
\* Mutant: the status of the mailbox is not read.
aliasMailboxUnchecked(d) ==
    /\ mail[d].at = "aliasMailbox"
    /\ Resolves(d, Out(d, "store", mail[d].box))
aliasMailbox(d) ==
    /\ mail[d].at = "aliasMailbox"
    /\ Resolves(d, IF mailboxIsActive(mail[d].box)
                   THEN Out(d, "store", mail[d].box) ELSE Out(d, "reject", Nobody))
getDomainByName(d) ==
    /\ mail[d].at = "getDomainByName"
    /\ Resolves(d, IF domain = "active" THEN [mail[d] EXCEPT !.at = "listRoutingRules"]
                   ELSE Out(d, "reject", Nobody))

(* The rules are read at once.  The first that is enabled and matches      *)
(* decides, except that a store rule without a mailbox is passed over.     *)
Deciding == {r \in Rules : /\ rules[r] # NoRule /\ rules[r].enabled
                           /\ (rules[r].action = "store") => (rules[r].to # Nobody)}
First(S) == CHOOSE r \in S : \A q \in S : r <= q
listRoutingRules(d) ==
    /\ mail[d].at = "listRoutingRules"
    /\ Resolves(d,
        IF Deciding = {} THEN Out(d, "reject", Nobody)
        ELSE LET rule == rules[First(Deciding)] IN
             IF rule.action = "store" THEN [mail[d] EXCEPT !.at = "aliasMailbox", !.box = rule.to]
             ELSE Out(d, rule.action, Nobody))

resolveRoutingForRecipient(d) ==
    \/ Arrive(d) \/ lookupActiveAlias(d) \/ aliasMailbox(d)
    \/ getDomainByName(d) \/ listRoutingRules(d)

EditStep(e) ==
    \/ createMailbox(e) \/ ensurePrimaryAlias(e) \/ insertAliasIfMissing(e)
    \/ insertAlias(e) \/ insertRoutingRule(e) \/ updateRoutingRule(e)

(* What a delivery has seen hold ever since it came.                       *)
Underway(d) == mail'[d].at # "coming"
Watch ==
    /\ steady' = {d \in Deliveries : /\ Underway(d)
                                     /\ (mail[d].at = "coming" \/ d \in steady)
                                     /\ domain' = domain
                                     /\ aliases'[mail'[d].rcpt] = aliases[mail'[d].rcpt]}
    /\ shut' = {p \in Deliveries \X Addresses : /\ Underway(p[1])
                                                /\ mailboxes'[p[2]] = "disabled"
                                                /\ mail[p[1]].at = "coming" \/ p \in shut}

RoutingNext ==
    /\ \/ updateMailbox \/ updateDomain \/ updateAlias \/ deleteAlias \/ deleteRoutingRule
       \/ \E e \in Editors : EditStep(e)
       \/ \E d \in Deliveries : resolveRoutingForRecipient(d)
    /\ Watch

RoutingSpec == RoutingInit /\ [][RoutingNext]_routingVars

-----------------------------------------------------------------------------
RoutingTypeOK ==
    /\ mailboxes \in [Addresses -> RowStatus]
    /\ aliases \in [Addresses -> Alias]
    /\ rules \in [Rules -> Rule]
    /\ \A a \in Addresses : (aliases[a].to # Nobody) => Exists(aliases[a].to)
    /\ \A r \in Rules : (rules[r].to # Nobody) => Exists(rules[r].to)

(* Mail to an address that an active alias gives to a mailbox all along is *)
(* stored there or refused: neither a rule that changes meanwhile nor the  *)
(* mailbox being disabled diverts it.                                      *)
MailStaysHome == \A d \in steady :
    (mail[d].claim # Nobody /\ mail[d].at = "routed")
    => (mail[d].out = "reject" \/ (mail[d].out = "store" /\ mail[d].box = mail[d].claim))

(* A mailbox that is disabled from before the mail came takes none of it,  *)
(* whichever alias or rule names it.                                       *)
DisabledTakesNone == \A d \in Deliveries :
    (mail[d].at = "routed" /\ mail[d].out = "store") => <<d, mail[d].box>> \notin shut

RoutingInvariant == RoutingTypeOK /\ MailStaysHome /\ DisabledTakesNone

(* No edit takes an address from one mailbox to another: between the two   *)
(* the alias is deleted.                                                   *)
AliasNotStolen == [][\A a \in Addresses :
    (aliases[a].to # Nobody) => (aliases'[a].to \in {aliases[a].to, Nobody})]_routingVars

(* "which callers must check before treating the returned alias as their   *)
(* own" (d1.ts, insertAliasIfMissing): a create that reports no obstacle   *)
(* has found or left its own alias on the address.                         *)
ReportedAliasIsOwn == [][\A e \in Editors :
    (edit[e].at = "insertAliasIfMissing" /\ edit'[e].at = "answered")
    => (aliases'[edit[e].key].to = edit[e].for)]_routingVars

(* "such a rule silently never routes" (hono.ts, the PATCH of a rule): no  *)
(* sequence of accepted edits leaves a store rule without a mailbox.       *)
StoreRuleHasMailbox == \A r \in Rules : (rules[r].action = "store") => (rules[r].to # Nobody)
=============================================================================
