------------------------------ MODULE AccessProofs ------------------------------
(* Proofs about the owner registry and about the record of the webhook, for *)
(* any people, codes, tokens and origins.                                   *)
EXTENDS OwnerAccess, WebhookRegistration, FiniteSetTheorems, TLAPS

--------------------------------------------------------------------------------
(* The owner registry.  That a code makes one owner is not inductive by     *)
(* itself: what keeps it is that a code somebody is about to be linked by   *)
(* was spent by him and is not minted again under him, and that a code that *)
(* is open has linked nobody yet.                                           *)

ClaimPoint == {"idle", "offering", "linking", "closing", "answered"}
ClaimAnswer == {"none", "refused", "already_owner", "linked"}

Claim == [at : ClaimPoint, code : Codes \cup {NoCode}, answer : ClaimAnswer]

Request ==
  [at : {"new", "session", "registry", "admitted", "forbidden", "unauthorized"},
   by : Mails \cup {Nobody}, confirm : BOOLEAN]

ClaimTypeOK ==
  /\ claim \in [People -> Claim]
  /\ \A p \in People : claim[p].at \in {"offering", "linking"} => claim[p].code \in Codes
  /\ req \in [Requests -> Request]

LinkerHasSpent ==
  \A p \in People : claim[p].at = "linking" =>
    /\ codes[claim[p].code].by = p
    /\ codes[claim[p].code].state # "open"

OpenIsFresh == \A c \in Codes : codes[c].state = "open" => codes[c].linked = {}

OneLinked == \A c \in Codes : codes[c].linked \subseteq {codes[c].by}

ClaimantIsOwner ==
  \A p \in People :
    /\ claim[p].at = "closing" => p \in owners
    /\ claim[p].at = "answered" /\ claim[p].answer # "refused" => p \in owners

CodesInv == AccessTypeOK /\ ClaimTypeOK /\ LinkerHasSpent /\ OpenIsFresh /\ OneLinked
EnterInv == OnlyOwnersEnter /\ ClaimantIsOwner
AccessInductive == CodesInv /\ EnterInv
LEMMA AccessStarts == AccessInit => AccessInductive
  BY AccessAssumption, FS_EmptySet
  DEF AccessInit, AccessInductive, CodesInv, EnterInv, AccessTypeOK, ClaimTypeOK,
      LinkerHasSpent, OpenIsFresh, OneLinked, OnlyOwnersEnter, ClaimantIsOwner,
      People, CodeState, Idle, NoReq, ClaimPoint, ClaimAnswer, Claim, Request

\* A step of somebody's attempt moves that attempt alone, to a claim like any.
LEMMA OneClaimMoves ==
  ASSUME ClaimTypeOK, NEW p \in People, Offer(p) \/ ClaimEnds(p)
  PROVE  \E x \in Claim : /\ claim' = [claim EXCEPT ![p] = x]
                          /\ x.at \in {"offering", "linking"} => x.code \in Codes
                          /\ req' = req
<1> USE DEF Claims, ClaimPoint, ClaimAnswer, Claim
<1> DEFINE With(at, code, answer) == [at |-> at, code |-> code, answer |-> answer]
<1>1. claim[p] \in Claim /\ claim[p] = With(claim[p].at, claim[p].code, claim[p].answer)
  BY DEF ClaimTypeOK
<1>2. CASE Offer(p)
  <2>1. PICK c \in Codes : claim' = [claim EXCEPT ![p] = With("offering", c, "none")]
    BY <1>2 DEF Offer, Idle
  <2> QED
    BY <1>2, <2>1 DEF Offer
<1>3. CASE Spend(p)
  <2>1. claim' = [claim EXCEPT ![p] = claim'[p]] /\ req' = req /\ claim[p].code \in Codes
    BY <1>3 DEF Spend, At, Claimed, ClaimTypeOK
  <2>2. \/ claim'[p] = [claim[p] EXCEPT !.at = "linking"]
        \/ claim'[p] = [claim[p] EXCEPT !.at = "answered", !.answer = "refused"]
    BY <1>3 DEF Spend, At, Claimed, ClaimTypeOK
  <2>3. claim'[p] \in Claim /\ claim'[p].code = claim[p].code
    BY <1>1, <2>2
  <2> QED
    BY <2>1, <2>3
<1>4. CASE linkOwnerIdentity(p) \/ CloseCodes(p)
  <2>1. claim' = [claim EXCEPT ![p] = claim'[p]] /\ req' = req
    BY <1>4 DEF linkOwnerIdentity, CloseCodes, At, Claimed, ClaimTypeOK
  <2>2. \/ claim'[p] = [claim[p] EXCEPT !.at = "closing"]
        \/ \E a \in {"already_owner", "linked"} :
             claim'[p] = [claim[p] EXCEPT !.at = "answered", !.answer = a]
    BY <1>4 DEF linkOwnerIdentity, CloseCodes, At, Claimed, ClaimTypeOK
  <2>3. claim'[p] \in Claim /\ claim'[p].at \in {"closing", "answered"}
    BY <1>1, <2>2
  <2> QED
    BY <2>1, <2>3
<1>5. CASE ClaimLost(p) \/ handlePairingRequest(p)
  <2>1. claim' = [claim EXCEPT ![p] = With("idle", NoCode, "none")] /\ req' = req
    BY <1>5 DEF ClaimLost, handlePairingRequest, Idle
  <2> QED
    BY <2>1
<1> QED
  BY <1>2, <1>3, <1>4, <1>5 DEF ClaimEnds, consumePairingCode

\* A step of somebody's attempt with a code.
LEMMA ClaimStep ==
  ASSUME AccessInductive, NEW p \in People, Offer(p) \/ ClaimEnds(p)
  PROVE  AccessInductive'
<1> USE DEF AccessInductive, CodesInv, EnterInv
<1>1. ClaimTypeOK'
  <2>1. PICK x \in Claim : /\ claim' = [claim EXCEPT ![p] = x]
                           /\ x.at \in {"offering", "linking"} => x.code \in Codes
                           /\ req' = req
    BY OneClaimMoves
  <2>2. claim' \in [People -> Claim]
    BY <2>1 DEF ClaimTypeOK
  <2>3. \A q \in People : claim'[q].at \in {"offering", "linking"} => claim'[q].code \in Codes
    BY <2>1 DEF ClaimTypeOK
  <2> QED
    BY <2>1, <2>2, <2>3 DEF ClaimTypeOK
<1>2. CASE Offer(p)
  <2>1. UNCHANGED <<owners, codes, mint, session, cookie, req>>
    BY <1>2 DEF Offer, Claims
  <2>2. \A q \in People : claim'[q].at # claim[q].at => claim'[q].at = "offering"
    BY <1>2 DEF Offer, Idle, ClaimTypeOK
  <2>3. \A q \in People : claim'[q].at # "offering" => claim'[q] = claim[q]
    BY <1>2 DEF Offer, Idle, ClaimTypeOK
  <2> QED
    BY <1>1, <2>1, <2>2, <2>3
    DEF AccessTypeOK, LinkerHasSpent, OpenIsFresh, OneLinked, OnlyOwnersEnter, ClaimantIsOwner
<1>3. CASE Spend(p)
  <2> DEFINE c == claim[p].code
  <2>1. c \in Codes /\ UNCHANGED <<owners, mint, session, cookie, req>>
    BY <1>3 DEF Spend, ClaimTypeOK, Claims
  <2>2. CASE Open(c)
    <3>1. /\ codes' = [codes EXCEPT ![c].state = "spent", ![c].by = p]
          /\ claim' = [claim EXCEPT ![p].at = "linking"]
      BY <1>3, <2>2 DEF Spend, At
    <3>2. codes[c].linked = {}
      BY <2>1, <2>2 DEF Open, OpenIsFresh
    <3>3. AccessTypeOK'
      BY <2>1, <3>1 DEF AccessTypeOK, CodeState
    <3>4. LinkerHasSpent'
      BY <2>1, <2>2, <3>1 DEF LinkerHasSpent, AccessTypeOK, ClaimTypeOK, Claim, Open
    <3>5. OpenIsFresh' /\ OneLinked'
      BY <2>1, <3>1, <3>2 DEF OpenIsFresh, OneLinked, AccessTypeOK
    <3>6. OnlyOwnersEnter' /\ ClaimantIsOwner'
      BY <2>1, <3>1 DEF OnlyOwnersEnter, ClaimantIsOwner, ClaimTypeOK, Claim
    <3> QED
      BY <1>1, <3>3, <3>4, <3>5, <3>6
  <2>3. CASE ~Open(c)
    <3>1. codes' = codes /\ Claimed(p, "refused")
      BY <1>3, <2>3 DEF Spend
    <3>2. LinkerHasSpent' /\ ClaimantIsOwner'
      BY <2>1, <3>1 DEF Claimed, LinkerHasSpent, ClaimantIsOwner, ClaimTypeOK, Claim
    <3> QED
      BY <1>1, <2>1, <3>1, <3>2 DEF AccessTypeOK, OpenIsFresh, OneLinked, OnlyOwnersEnter
  <2> QED
    BY <2>2, <2>3
<1>4. CASE linkOwnerIdentity(p)
  <2> DEFINE c == claim[p].code
  <2>1. /\ c \in Codes /\ codes[c].by = p /\ codes[c].state # "open"
        /\ owners' = owners \cup {p}
        /\ codes' = [codes EXCEPT ![c].linked = @ \cup {p}]
        /\ UNCHANGED <<mint, session, cookie, req>>
    BY <1>4 DEF linkOwnerIdentity, ClaimTypeOK, LinkerHasSpent, Claims
  <2>2. \A q \in People : claim'[q].at = "linking" => claim'[q] = claim[q]
    BY <1>4 DEF linkOwnerIdentity, Claimed, At, ClaimTypeOK, Claim
  <2>3. AccessTypeOK'
    BY <2>1 DEF AccessTypeOK
  <2>4. LinkerHasSpent'
    BY <2>1, <2>2 DEF LinkerHasSpent, AccessTypeOK, ClaimTypeOK
  <2>5. OpenIsFresh' /\ OneLinked'
    BY <2>1 DEF OpenIsFresh, OneLinked, AccessTypeOK
  <2>6. \A q \in People : q # p => claim'[q] = claim[q]
    BY <1>4 DEF linkOwnerIdentity, Claimed, At, ClaimTypeOK
  <2>7. OnlyOwnersEnter' /\ ClaimantIsOwner'
    BY <2>1, <2>6 DEF OnlyOwnersEnter, ClaimantIsOwner
  <2> QED
    BY <1>1, <2>3, <2>4, <2>5, <2>7
<1>5. CASE CloseCodes(p)
  <2>1. UNCHANGED <<owners, mint, session, cookie, req>>
    BY <1>5 DEF CloseCodes, Claims
  <2>2. /\ codes' \in [Codes -> [state : CodeState, by : People \cup {Nobody}, linked : SUBSET People]]
        /\ \A c \in Codes : /\ codes'[c].by = codes[c].by /\ codes'[c].linked = codes[c].linked
                            /\ codes'[c].state # "open"
    BY <1>5 DEF CloseCodes, AccessTypeOK, CodeState
  <2>3. \A q \in People : claim'[q].at = "linking" => claim'[q] = claim[q]
    BY <1>5 DEF CloseCodes, Claimed, ClaimTypeOK, Claim
  <2>4. p \in owners /\ \A q \in People : q # p => claim'[q] = claim[q]
    BY <1>5 DEF CloseCodes, Claimed, ClaimTypeOK, ClaimantIsOwner
  <2>5. AccessTypeOK' /\ OnlyOwnersEnter' /\ ClaimantIsOwner'
    BY <2>1, <2>2, <2>4 DEF AccessTypeOK, OnlyOwnersEnter, ClaimantIsOwner
  <2>6. LinkerHasSpent' /\ OpenIsFresh' /\ OneLinked'
    BY <2>2, <2>3 DEF LinkerHasSpent, OpenIsFresh, OneLinked, ClaimTypeOK
  <2> QED
    BY <1>1, <2>5, <2>6
<1>6. CASE ClaimLost(p) \/ handlePairingRequest(p)
  <2>1. /\ claim' = [claim EXCEPT ![p] = Idle]
        /\ UNCHANGED <<owners, codes, mint, req>>
    BY <1>6 DEF ClaimLost, handlePairingRequest, Claims
  <2>2. /\ session' \in [Mails -> {"none", "live", "revoked"}]
        /\ \A m \in Mails : session'[m] # "none" => session[m] # "none" \/ m \in owners
    BY <1>6 DEF ClaimLost, handlePairingRequest, Claims, AccessTypeOK, ClaimantIsOwner
  <2>3. \A q \in People : claim'[q].at # "idle" => claim'[q] = claim[q]
    BY <2>1 DEF Idle, ClaimTypeOK
  <2>4. AccessTypeOK' /\ OpenIsFresh' /\ OneLinked' /\ OnlyOwnersEnter'
    BY <2>1, <2>2 DEF AccessTypeOK, OpenIsFresh, OneLinked, OnlyOwnersEnter
  <2>5. LinkerHasSpent' /\ ClaimantIsOwner'
    BY <2>1, <2>3 DEF LinkerHasSpent, ClaimantIsOwner
  <2> QED
    BY <1>1, <2>4, <2>5
<1> QED
  BY <1>2, <1>3, <1>4, <1>5, <1>6 DEF ClaimEnds, consumePairingCode

\* Every other step.
LEMMA AccessStep == AccessInductive /\ [AccessNext]_accessVars => AccessInductive'
<1> SUFFICES ASSUME AccessInductive, [AccessNext]_accessVars PROVE AccessInductive'
  OBVIOUS
<1> USE DEF AccessInductive, CodesInv, EnterInv, AccessTypeOK, ClaimTypeOK,
      LinkerHasSpent, OpenIsFresh, OneLinked, OnlyOwnersEnter, ClaimantIsOwner,
      CodeState, Open
<1>1. CASE SweepStep
  <2>1. CASE ensureOwnerPairingCode
    BY <1>1, <2>1 DEF ensureOwnerPairingCode, SweepGoesTo, Operators
  <2>2. CASE ensurePairingCode
    BY <1>1, <2>2 DEF ensurePairingCode, SweepGoesTo, BeingClaimed
  <2> QED
    BY <1>1, <2>1, <2>2 DEF SweepStep
<1>2. ASSUME NEW c \in Codes, Expire(c) PROVE AccessInductive'
  BY <1>2 DEF Expire
<1>3. ASSUME NEW p \in People, Offer(p) \/ ClaimEnds(p) PROVE AccessInductive'
  BY <1>3, ClaimStep
<1>4. ASSUME NEW m \in Mails, gateSendOtp(m) \/ RevokeSession(m) \/ CookieExpires(m)
      PROVE AccessInductive'
  BY <1>4 DEF gateSendOtp, RevokeSession, CookieExpires, Web
<1>5. ASSUME NEW r \in Requests, Ask(r) \/ getAuthContext(r) \/ requireAuth(r)
      PROVE AccessInductive'
  <2>1. UNCHANGED <<owners, codes, claim, mint, session, cookie>>
    BY <1>5 DEF Ask, getAuthContext, requireAuth, Asks
  <2>2. /\ req' = [req EXCEPT ![r] = req'[r]]
        /\ req'[r] \in Request
        /\ req'[r].at = "admitted" => req'[r].by \in owners
    BY <1>5 DEF Ask, getAuthContext, requireAuth, Asks, Request
  <2> QED
    BY <2>1, <2>2
<1>6. CASE UNCHANGED accessVars
  BY <1>6 DEF accessVars
<1> QED
  BY <1>1, <1>2, <1>3, <1>4, <1>5, <1>6 DEF AccessNext

\* What has linked at most the one who spent it makes at most one owner.
LEMMA InductiveIsEnough == AccessInductive => AccessInvariant
<1> SUFFICES ASSUME AccessInductive PROVE AccessInvariant
  OBVIOUS
<1>1. ASSUME NEW c \in Codes PROVE Cardinality(codes[c].linked) <= 1
  <2>1. codes[c].linked = {} \/ codes[c].linked = {codes[c].by}
    BY DEF AccessInductive, CodesInv, OneLinked
  <2>2. Cardinality({}) = 0 /\ Cardinality({codes[c].by}) = 1
    BY FS_EmptySet, FS_Singleton
  <2> QED
    BY <2>1, <2>2
<1> QED
  BY <1>1 DEF AccessInductive, CodesInv, EnterInv, OneLinked, AccessInvariant, OneOwnerPerCode

(* A pairing code makes at most one owner, and sessions and requests let     *)
(* through belong to owners, whatever attempts die half-way, are delivered   *)
(* again or overlap with the hourly mint (operators.ts, db/owners.ts).       *)
THEOREM OneOwnerAndOnlyOwners == AccessSpec => []AccessInvariant
<1>1. AccessSpec => []AccessInductive
  BY AccessStarts, AccessStep, PTL DEF AccessSpec
<1> QED
  BY <1>1, InductiveIsEnough, PTL

--------------------------------------------------------------------------------
(* The webhook.  A pass that is about to record has registered.             *)
PassHasRegistered == pass.at = "record" => <<pass.token, pass.url>> \in registered

PassFields == DOMAIN pass = {"at", "token", "build", "url", "seen"}

WebhookInductive == RecordWasTrue /\ PassHasRegistered /\ PassFields

LEMMA WebhookStarts == WebhookInit => WebhookInductive
  BY DEF WebhookInit, WebhookInductive, RecordWasTrue, PassHasRegistered, PassFields, NoPass

LEMMA WebhookStep == WebhookInductive /\ [WebhookNext]_webhookVars => WebhookInductive'
<1> SUFFICES ASSUME WebhookInductive, [WebhookNext]_webhookVars PROVE WebhookInductive'
  OBVIOUS
<1> USE DEF WebhookInductive, RecordWasTrue, PassHasRegistered, PassFields
<1>1. CASE RotateToken \/ Deploy \/ recordDeploymentOrigin \/ TakeOver \/ Deliver
  BY <1>1 DEF RotateToken, Deploy, recordDeploymentOrigin, TakeOver, Deliver, Drift
<1>2. CASE Begin \/ getWebhookInfo \/ Compare \/ PassFails
  <2>1. UNCHANGED <<hook, record, registered>>
    BY <1>2 DEF Begin, getWebhookInfo, Compare, PassFails, Outside
  <2>2. PassFields' /\ pass'.at # "record"
    <3>1. CASE Begin \/ getWebhookInfo
      BY <3>1 DEF Begin, getWebhookInfo, Pass
    <3>2. CASE Compare \/ PassFails
      BY <3>2 DEF Compare, PassFails, Pass, NoPass
    <3> QED
      BY <1>2, <3>1, <3>2
  <2> QED
    BY <2>1, <2>2
<1>3. CASE setWebhook
  BY <1>3 DEF setWebhook, Pass
<1>4. CASE setTelegramWebhookRegistration
  BY <1>4 DEF setTelegramWebhookRegistration, NoPass, NoRecord
<1>5. CASE UNCHANGED webhookVars
  BY <1>5 DEF webhookVars
<1> QED
  BY <1>1, <1>2, <1>3, <1>4, <1>5 DEF WebhookNext, reconcileTelegramWebhook

(* What D1 remembers having registered was accepted by Telegram once, for    *)
(* that secret and url, wherever a pass failed and whatever moved under it   *)
(* (registration.ts).                                                        *)
THEOREM RegistrationWasTrue == WebhookSpec => []RecordWasTrue
<1>1. WebhookInductive => RecordWasTrue
  BY DEF WebhookInductive
<1> QED
  BY <1>1, WebhookStarts, WebhookStep, PTL DEF WebhookSpec
================================================================================
