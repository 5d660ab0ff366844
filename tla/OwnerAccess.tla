---------------------------- MODULE OwnerAccess ----------------------------
(***************************************************************************)
(* Who owns the deployment and how one becomes an owner: the tables        *)
(* owner_identities and owner_pairing_codes (db/owners.ts), the hourly     *)
(* sweep that keeps a code at hand while no Telegram account is linked     *)
(* (telegram/operators.ts), the two places a code is spent (/start in      *)
(* Telegram and /api/auth/pairing on the web), and the gate every API      *)
(* request passes (api/auth.ts).                                           *)
(*                                                                         *)
(* Each statement to D1 is a step.  OWNER_BOOTSTRAP_EMAILS and             *)
(* TELEGRAM_ALLOWED_USER_IDS are unset, as in an installation that pairs   *)
(* its owner; the issuer of sessions (better-auth) is a library.           *)
(***************************************************************************)
EXTENDS Naturals, FiniteSets

CONSTANTS
    Accounts,       \* Telegram accounts
    Mails,          \* email identities
    Codes,          \* bound: pairing codes alive or held by somebody at once
    Requests,       \* API requests
    Nobody, NoCode

ASSUME AccessAssumption ==
    Accounts \intersect Mails = {} /\ Nobody \notin Accounts \union Mails /\ NoCode \notin Codes

VARIABLES
    owners,         \* the table owner_identities
    codes,          \* the table owner_pairing_codes: [Codes -> state, who spent it]
    claim,          \* [People -> where its attempt with a code is]
    mint,           \* where the sweep is
    session,        \* [Mails -> none, live or revoked]
    cookie,         \* emails whose browser holds a signed, unexpired session cookie
    req             \* [Requests -> where it is, what it read]

accessVars == <<owners, codes, claim, mint, session, cookie, req>>

People == Accounts \union Mails
CodeState == {"free", "open", "spent", "expired"}
Idle == [at |-> "idle", code |-> NoCode, answer |-> "none"]
NoReq == [at |-> "new", by |-> Nobody, confirm |-> FALSE]

AccessInit ==
    /\ owners = {}
    /\ codes = [c \in Codes |-> [state |-> "free", by |-> Nobody, linked |-> {}]]
    /\ claim = [p \in People |-> Idle]
    /\ mint = "idle"
    /\ session = [m \in Mails |-> "none"]
    /\ cookie = {}
    /\ req = [r \in Requests |-> NoReq]

Open(c) == codes[c].state = "open"
Operators == owners \intersect Accounts
BeingClaimed(c) == \E p \in People : claim[p].code = c /\ claim[p].at # "idle"
SweepGoesTo(to) == mint' = to /\ UNCHANGED <<owners, claim, session, cookie, req>>

-----------------------------------------------------------------------------
\* Mutant: any owner will do, with or without a Telegram account.
ensureCodeWithoutOwner ==
    \/ /\ mint = "idle"
       /\ SweepGoesTo(IF owners = {} THEN "looking" ELSE "cleaning")
       /\ UNCHANGED codes
    \/ /\ mint = "cleaning"
       /\ codes' = [c \in Codes |-> IF codes[c].state \in {"spent", "expired"}
                                    THEN [codes[c] EXCEPT !.state = "free"] ELSE codes[c]]
       /\ SweepGoesTo("idle")
(* The sweep.  With an operator it deletes the codes nobody can spend;     *)
(* without one it makes sure a code is open, reading first and inserting   *)
(* in a later statement.                                                   *)
ensureOwnerPairingCode ==
    \/ /\ mint = "idle"
       /\ SweepGoesTo(IF Operators = {} THEN "looking" ELSE "cleaning")
       /\ UNCHANGED codes
    \/ /\ mint = "cleaning"
       /\ codes' = [c \in Codes |-> IF codes[c].state \in {"spent", "expired"}
                                    THEN [codes[c] EXCEPT !.state = "free"] ELSE codes[c]]
       /\ SweepGoesTo("idle")
ensurePairingCode ==
    \/ /\ mint = "looking"
       /\ SweepGoesTo(IF \E c \in Codes : Open(c) THEN "idle" ELSE "minting")
       /\ UNCHANGED codes
    \/ /\ mint = "minting"
       /\ \E c \in Codes :
            /\ codes[c].state \in {"free", "expired", "spent"} /\ ~BeingClaimed(c)
            /\ codes' = [codes EXCEPT ![c] = [state |-> "open", by |-> Nobody, linked |-> {}]]
       /\ SweepGoesTo("idle")
Expire(c) ==
    /\ Open(c)
    /\ codes' = [codes EXCEPT ![c].state = "expired"]
    /\ UNCHANGED <<owners, claim, mint, session, cookie, req>>

-----------------------------------------------------------------------------
(* Somebody offers a code he has read, in Telegram only while he is no     *)
(* operator.  One UPDATE spends it, a second statement links him, a third  *)
(* deletes the codes still open; the Worker can stop between any two.      *)
At(p, at) == claim' = [claim EXCEPT ![p].at = at]
Claims == UNCHANGED <<mint, session, cookie, req>>
Claimed(p, answer) == claim' = [claim EXCEPT ![p] = [@ EXCEPT !.at = "answered", !.answer = answer]]

Offer(p) ==
    /\ claim[p].at = "idle"
    /\ p \in Accounts => p \notin owners
    /\ \E c \in Codes : Open(c) /\ claim' = [claim EXCEPT ![p] = [Idle EXCEPT !.at = "offering", !.code = c]]
    /\ UNCHANGED <<owners, codes>> /\ Claims
\* Mutant: the code is looked up when it is offered, and spent unconditionally.
SpendUnconditionally(p) ==
    /\ claim[p].at = "offering"
    /\ codes' = [codes EXCEPT ![claim[p].code].state = "spent", ![claim[p].code].by = p]
    /\ At(p, "linking")
    /\ UNCHANGED owners /\ Claims
Spend(p) ==
    /\ claim[p].at = "offering"
    /\ LET c == claim[p].code IN
        IF Open(c) THEN codes' = [codes EXCEPT ![c].state = "spent", ![c].by = p] /\ At(p, "linking")
        ELSE Claimed(p, "refused") /\ UNCHANGED codes
    /\ UNCHANGED owners /\ Claims
linkOwnerIdentity(p) ==
    /\ claim[p].at = "linking"
    /\ owners' = owners \union {p}
    /\ codes' = [codes EXCEPT ![claim[p].code].linked = @ \union {p}]
    /\ IF p \in owners THEN Claimed(p, "already_owner") ELSE At(p, "closing")
    /\ Claims
CloseCodes(p) ==
    /\ claim[p].at = "closing"
    /\ codes' = [c \in Codes |-> IF codes[c].state \in {"open", "expired"}
                                 THEN [codes[c] EXCEPT !.state = "free"] ELSE codes[c]]
    /\ Claimed(p, "linked")
    /\ UNCHANGED owners /\ Claims
consumePairingCode(p) == Spend(p) \/ linkOwnerIdentity(p) \/ CloseCodes(p)

ClaimLost(p) ==
    /\ claim[p].at \in {"offering", "linking", "closing", "answered"}
    /\ claim' = [claim EXCEPT ![p] = Idle]
    /\ UNCHANGED <<owners, codes>> /\ Claims

(* The answer: on the web a claim that linked, or found the owner already  *)
(* one, opens a session at once.                                           *)
handlePairingRequest(p) ==
    /\ claim[p].at = "answered"
    /\ claim' = [claim EXCEPT ![p] = Idle]
    /\ IF p \in Mails /\ claim[p].answer # "refused"
       THEN session' = [session EXCEPT ![p] = "live"] /\ cookie' = cookie \union {p}
       ELSE UNCHANGED <<session, cookie>>
    /\ UNCHANGED <<owners, codes, mint, req>>

-----------------------------------------------------------------------------
(* A code by email is minted for an owner only; anybody else is told the   *)
(* same and gets none.  Signing out, or resetting the password, revokes    *)
(* the session in D1; a browser keeps the signed cookie until it expires.  *)
Web == UNCHANGED <<owners, codes, claim, mint, req>>
gateSendOtp(m) ==
    /\ m \in owners /\ session[m] # "live"
    /\ session' = [session EXCEPT ![m] = "live"] /\ cookie' = cookie \union {m}
    /\ Web
RevokeSession(m) ==
    /\ session[m] = "live"
    /\ session' = [session EXCEPT ![m] = "revoked"] /\ UNCHANGED cookie
    /\ Web
CookieExpires(m) ==
    /\ m \in cookie
    /\ cookie' = cookie \ {m} /\ UNCHANGED session
    /\ Web

(* A request of the API: the session, from the cookie or, for confirm-send *)
(* and without a cookie, from D1; then the registry, read as empty when D1 *)
(* fails; then the decision.                                               *)
Asks(r, f) == req' = [req EXCEPT ![r] = f] /\ UNCHANGED <<owners, codes, claim, mint, session, cookie>>
Ask(r) ==
    /\ req[r].at = "new"
    /\ \E m \in Mails, confirm \in BOOLEAN :
        Asks(r, [at |-> "session", by |-> m, confirm |-> confirm])
getAuthContext(r) ==
    /\ req[r].at = "session"
    /\ LET m == req[r].by
           ok == session[m] = "live" \/ (m \in cookie /\ ~req[r].confirm)
       IN  Asks(r, [req[r] EXCEPT !.at = IF ok THEN "registry" ELSE "unauthorized"])
requireAuth(r) ==
    /\ req[r].at = "registry"
    /\ \/ Asks(r, [req[r] EXCEPT !.at = IF req[r].by \in owners THEN "admitted" ELSE "forbidden"])
       \/ Asks(r, [req[r] EXCEPT !.at = "forbidden"])

ClaimEnds(p) == consumePairingCode(p) \/ ClaimLost(p) \/ handlePairingRequest(p)
SweepStep == ensureOwnerPairingCode \/ ensurePairingCode
AccessNext ==
    \/ SweepStep
    \/ \E c \in Codes : Expire(c)
    \/ \E p \in People : Offer(p) \/ ClaimEnds(p)
    \/ \E m \in Mails : gateSendOtp(m) \/ RevokeSession(m) \/ CookieExpires(m)
    \/ \E r \in Requests : Ask(r) \/ getAuthContext(r) \/ requireAuth(r)

(* The sweep runs every hour, each of its statements returns, and an       *)
(* attempt with a code ends one way or another.                            *)
AccessFairness ==
    /\ WF_accessVars(SweepStep)
    /\ \A p \in People : WF_accessVars(ClaimEnds(p))
AccessSpec == AccessInit /\ [][AccessNext]_accessVars /\ AccessFairness

-----------------------------------------------------------------------------
AccessTypeOK ==
    /\ owners \subseteq People
    /\ codes \in [Codes -> [state : CodeState, by : People \union {Nobody}, linked : SUBSET People]]
    /\ mint \in {"idle", "looking", "cleaning", "minting"}
    /\ session \in [Mails -> {"none", "live", "revoked"}]

(* A code makes at most one owner, whoever else holds it and however often *)
(* the update that offers it is delivered.                                 *)
OneOwnerPerCode == \A c \in Codes :
    /\ Cardinality(codes[c].linked) <= 1
    /\ codes[c].linked \subseteq {codes[c].by}

(* A session, and a request let through, belong to an owner.               *)
OnlyOwnersEnter ==
    /\ \A m \in Mails : (session[m] # "none") => (m \in owners)
    /\ \A r \in Requests : (req[r].at = "admitted") => (req[r].by \in owners)

AccessInvariant == AccessTypeOK /\ OneOwnerPerCode /\ OnlyOwnersEnter

(* While nobody drives the bridge there is, again and again, a code that   *)
(* somebody can spend, though codes expire and an attempt can die after    *)
(* the code is spent and before anybody is linked.                         *)
BootstrapNeverStuck == []<>(Operators # {} \/ \E c \in Codes : Open(c))

(* "Leaving codes live after that would keep a standing invitation open    *)
(* for no reason anyone asked for" (db/owners.ts): once a Telegram account *)
(* has been told it is linked, no code is open.                            *)
NoStandingInvitation ==
    (\E p \in Accounts : claim[p].at = "answered" /\ claim[p].answer = "linked") => (\A c \in Codes : ~Open(c))
=============================================================================
