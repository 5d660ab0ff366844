------------------------ MODULE TransactionalSendProofs ------------------------
(***************************************************************************)
(* What the transactional API guarantees for any keys, payloads, quotas    *)
(* and requests.  The inductive invariant is TxInvariant.  The argument:   *)
(* a row is keyed by the slot of the request that reserved it and is never *)
(* given to another, a request hands its mail over in the very step that   *)
(* reserves its row and charges the quota, and every later write of a row  *)
(* either comes from the send call of that request or infers its status.   *)
(***************************************************************************)
EXTENDS TransactionalSend, TLAPS, FiniteSetTheorems

\* The operators every step mentions, expanded throughout.
USE ConstantsAssumption DEF Goto, See, Answer, storeVars, callVars

\* A request's slot is one of the table's slots.
LEMMA SlotTyped ==
  ASSUME NEW q \in Requests
  PROVE  Slot(q) \in Slots /\ KeyOf[q] \in ApiKeys /\ Slot(q)[1] = KeyOf[q]
  BY DEF Slots, Slot

\* Only finitely many slots exist.
LEMMA SlotsFinite == IsFiniteSet(Slots)
  BY FS_Product DEF Slots

\* A freshly reserved row.
LEMMA FreshRow ==
  ASSUME NEW q \in Requests, NEW w \in Windows,
         NEW row, row = [NoRow EXCEPT !.request = q, !.window = w]
  PROVE  /\ row \in Row
         /\ row.request = q /\ row.window = w /\ row.status = "pending"
         /\ row.mail = NoRequest /\ ~row.inferred
  BY DEF NoRow, Row, RowStatus, DeliveryStatus, Windows

\* A row that was never reserved.
LEMMA EmptyRow == NoRow \in Row /\ NoRow.request = NoRequest
  BY DEF NoRow, Row, RowStatus, DeliveryStatus, Windows

\* What the reconciler does to a stale row.
LEMMA UnknownRow ==
  ASSUME NEW row \in Row, NEW new, new = [row EXCEPT !.status = "unknown"]
  PROVE  /\ new \in Row
         /\ new.request = row.request /\ new.window = row.window
         /\ new.status = "unknown" /\ new.inferred = row.inferred
  BY DEF Row, RowStatus

\* What settling a request does to the rows: its own row takes the new status
\* and provider id, every other row stays.
LEMMA SettledRows ==
  ASSUME TypeOK, NEW q \in Requests, NEW status \in RowStatus,
         NEW mail \in Requests \cup {NoRequest}, SettleRow(q, status, mail)
  PROVE  /\ rows' \in [Slots -> Row]
         /\ \A s \in Slots :
              /\ rows'[s].request = rows[s].request
              /\ rows'[s].window = rows[s].window
              /\ rows'[s].inferred = rows[s].inferred
              /\ IF s = Slot(q) /\ rows[s].request = q
                 THEN rows'[s].status = status /\ rows'[s].mail = mail
                 ELSE rows'[s] = rows[s]
<1>1. Slot(q) \in Slots
  BY SlotTyped
<1>2. \A s \in Slots : rows[s] \in Row
  BY DEF TypeOK
<1>3. \A s \in Slots :
        rows'[s] = IF s = Slot(q) /\ rows[s].request = q
                   THEN [rows[s] EXCEPT !.status = status, !.mail = mail]
                   ELSE rows[s]
  BY <1>1 DEF SettleRow, TypeOK
<1>4. ASSUME NEW row \in Row
      PROVE  /\ [row EXCEPT !.status = status, !.mail = mail] \in Row
             /\ [row EXCEPT !.status = status, !.mail = mail].request = row.request
             /\ [row EXCEPT !.status = status, !.mail = mail].window = row.window
             /\ [row EXCEPT !.status = status, !.mail = mail].inferred
                  = row.inferred
             /\ [row EXCEPT !.status = status, !.mail = mail].status = status
             /\ [row EXCEPT !.status = status, !.mail = mail].mail = mail
  BY DEF Row
<1>5. ASSUME NEW s \in Slots
      PROVE  /\ rows'[s] \in Row
             /\ rows'[s].request = rows[s].request
             /\ rows'[s].window = rows[s].window
             /\ rows'[s].inferred = rows[s].inferred
             /\ IF s = Slot(q) /\ rows[s].request = q
                THEN rows'[s].status = status /\ rows'[s].mail = mail
                ELSE rows'[s] = rows[s]
  <2>1. CASE s = Slot(q) /\ rows[s].request = q
    <3>1. rows'[s] = [rows[s] EXCEPT !.status = status, !.mail = mail]
      BY <1>3, <2>1
    <3>2. rows[s] \in Row
      BY <1>2
    <3> QED
      BY <1>4, <2>1, <3>1, <3>2
  <2>2. CASE ~(s = Slot(q) /\ rows[s].request = q)
    BY <1>2, <1>3, <2>2
  <2> QED
    BY <2>1, <2>2
<1>6. rows' \in [Slots -> Row]
  BY <1>5 DEF SettleRow, TypeOK
<1> QED
  BY <1>5, <1>6

\* What an event does to the row it settles.
LEMMA ResolvedRow ==
  ASSUME NEW row \in Row, NEW q \in Requests, NEW type \in EventTypes
  PROVE  LET new == Resolved(row, q, type)
         IN /\ new \in Row
            /\ new.request = row.request /\ new.window = row.window
            /\ row.inferred => new.inferred
            /\ row.status # "unknown" =>
                 new.status = row.status /\ new.mail = row.mail
                 /\ new.inferred = row.inferred
            /\ row.status = "unknown" =>
                 new.status = "unknown" \/ new.inferred
<1>1. deliveryStatus(type) \in DeliveryStatus
  BY DEF deliveryStatus, DeliveryStatus, EventTypes, Bounces
<1>2. statusProvenBy(type) \in {"nothing", "failed", "sent"}
  BY DEF statusProvenBy
<1> QED
  BY <1>1, <1>2 DEF Resolved, Row, RowStatus

--------------------------------------------------------------------------------
(* Types.                                                                  *)

\* Types are kept; the answer to a replay needs what the replay read.
LEMMA TypeStep == TypeOK /\ SeenIsTrue /\ [Next]_vars => TypeOK'
<1> SUFFICES ASSUME TypeOK, SeenIsTrue, [Next]_vars PROVE TypeOK'
  OBVIOUS
<1> USE DEF TypeOK, CallState, Answers
<1>1. ASSUME NEW q \in Requests, NEW p \in Payloads, ReadKey(q, p)
      PROVE  TypeOK'
  <2>1. keyStatus[KeyOf[q]] \in {"active", "revoked"}
    BY SlotTyped
  <2>2. seen' \in [Requests -> RowStatus \cup {"nothing", "active", "revoked"}]
    BY <1>1, <2>1 DEF ReadKey
  <2>3. body' \in [Requests -> Payloads \cup {NoPayload}]
    BY <1>1 DEF ReadKey
  <2>4. call' \in [Requests -> CallState]
    BY <1>1 DEF ReadKey
  <2> QED
    BY <1>1, <2>2, <2>3, <2>4 DEF ReadKey
<1>2. ASSUME NEW q \in Requests,
             Refuse(q) \/ Authorize(q) \/ CheckSuppression(q) \/ OverQuota(q)
      PROVE  TypeOK'
  BY <1>2 DEF Refuse, Authorize, CheckSuppression, OverQuota
<1>3. ASSUME NEW q \in Requests, FindExisting(q) PROVE TypeOK'
  <2>1. rows[Slot(q)].status \in RowStatus
    BY SlotTyped DEF Row
  <2> QED
    BY <1>3, <2>1 DEF FindExisting
<1>4. ASSUME NEW q \in Requests, Compare(q) PROVE TypeOK'
  <2>1. seen[q] \in RowStatus
    BY <1>4 DEF Compare, SeenIsTrue
  <2>2. mapDbStatusToResponse(seen[q]) \in Answers
    BY <2>1 DEF mapDbStatusToResponse, RowStatus
  <2> QED
    BY <1>4, <2>2 DEF Compare
<1>5. ASSUME NEW q \in Requests, Reserve(q) PROVE TypeOK'
  <2> DEFINE new == [NoRow EXCEPT !.request = q, !.window = window]
  <2>1. new \in Row
    BY FreshRow
  <2> HIDE DEF new
  <2>2. rows' = [rows EXCEPT ![Slot(q)] = new]
    BY <1>5 DEF Reserve, new
  <2>3. rows' \in [Slots -> Row]
    BY <2>1, <2>2
  <2>4. usage' \in [ApiKeys -> [Windows -> Nat]]
    <3>1. usage[KeyOf[q]] \in [Windows -> Nat]
      BY SlotTyped
    <3>2. [usage[KeyOf[q]] EXCEPT ![window] = @ + 1] \in [Windows -> Nat]
      BY <3>1
    <3>3. usage' = [usage EXCEPT ![KeyOf[q]] =
                      [usage[KeyOf[q]] EXCEPT ![window] = @ + 1]]
      BY <1>5, SlotTyped DEF Reserve
    <3> QED
      BY <3>2, <3>3
  <2> QED
    BY <1>5, <2>3, <2>4 DEF Reserve
<1>6. ASSUME NEW q \in Requests, SendSettles(q) PROVE TypeOK'
  <2>1. rows' \in [Slots -> Row]
    <3>1. ASSUME NEW status \in RowStatus, NEW mail \in Requests \cup {NoRequest},
                 SettleRow(q, status, mail)
          PROVE  rows' \in [Slots -> Row]
      BY <3>1, SettledRows
    <3> QED
      BY <1>6, <3>1 DEF SendSettles, SendReturns, SendAmbiguous, SendRefused,
                        RowStatus
  <2> QED
    BY <1>6, <2>1 DEF SendSettles, SendReturns, SendAmbiguous, SendRefused
<1>7. ASSUME NEW q \in Requests, ProviderStep(q) PROVE TypeOK'
  BY <1>7 DEF ProviderStep, ProviderAccepts, ProviderDrops, ProviderRefuses,
              ProviderDecides
<1>8. ASSUME ReconcileStale PROVE TypeOK'
  <2>1. PICK old \in SUBSET Slots \ {{}} :
          rows' = [s \in Slots |-> IF s \in old
                                   THEN [rows[s] EXCEPT !.status = "unknown"]
                                   ELSE rows[s]]
    BY <1>8 DEF ReconcileStale
  <2>2. ASSUME NEW s \in Slots
        PROVE  (IF s \in old THEN [rows[s] EXCEPT !.status = "unknown"]
                             ELSE rows[s]) \in Row
    BY UnknownRow
  <2>3. rows' \in [Slots -> Row]
    BY <2>1, <2>2
  <2> QED
    BY <1>8, <2>3 DEF ReconcileStale
<1>9. ASSUME NEW k \in ApiKeys, RevokeKey(k) PROVE TypeOK'
  BY <1>9 DEF RevokeKey
<1>10. ASSUME NEW r \in Recipients, ExpireSuppression(r) \/ RemoveSuppression(r)
       PROVE  TypeOK'
  BY <1>10 DEF ExpireSuppression, RemoveSuppression, Suppression
<1>11. ASSUME NEW r, NEW type, addSuppression(r, type)
       PROVE  suppression' \in [Recipients -> Suppression]
  BY <1>11 DEF addSuppression, classifyReason, Suppression
<1>12. ASSUME NEW q \in Requests, NEW type \in EventTypes, DeliveryEvent(q, type)
       PROVE  TypeOK'
  <2>1. PICK s \in correlate(q) :
          /\ rows' = [rows EXCEPT ![s] = Resolved(rows[s], q, type)]
          /\ marker' = [marker EXCEPT ![rows[s].request] =
                          IF /\ rows[s].status = "unknown"
                             /\ statusProvenBy(type) # "nothing"
                             /\ @ = "unknown"
                          THEN statusProvenBy(type) ELSE @]
    BY <1>12 DEF DeliveryEvent, SettleSlot
  <2>2. s \in Slots
    BY DEF correlate, ByProviderId, ByEnvelope
  <2>3. rows' \in [Slots -> Row]
    BY <2>1, <2>2, ResolvedRow
  <2>4. marker' \in
          [Requests -> {"none", "sending", "sent", "failed", "unknown"}]
    BY <2>1 DEF statusProvenBy
  <2>5. events' \subseteq Requests \X EventTypes
    BY <1>12 DEF DeliveryEvent, SettleSlot
  <2> QED
    BY <1>11, <1>12, <2>3, <2>4, <2>5 DEF DeliveryEvent, SettleSlot
<1>13. ASSUME NEW r \in Recipients, NEW type \in EventTypes,
              OutboundDeliveryEvent(r, type)
       PROVE  TypeOK'
  BY <1>11, <1>13 DEF OutboundDeliveryEvent
<1>14. CASE NextWindow
  BY <1>14 DEF NextWindow, Windows
<1>15. CASE ObjectCrash
  BY <1>15 DEF ObjectCrash
<1>16. CASE UNCHANGED vars
  BY <1>16 DEF vars
<1> QED
  BY <1>1, <1>2, <1>3, <1>4, <1>5, <1>6, <1>7, <1>8, <1>9, <1>10, <1>12, <1>13,
     <1>14, <1>15, <1>16
  DEF Next, HandlerStep, AdminStep, EventStep

--------------------------------------------------------------------------------
(* What every step leaves in place.                                        *)

\* The steps by what they do to the rows, the usage and the provider.
LEMMA StepKinds ==
  ASSUME [Next]_vars
  PROVE  \/ \E q \in Requests : Reserve(q)
         \/ \E q \in Requests : SendSettles(q)
         \/ \E q \in Requests : ProviderStep(q)
         \/ ReconcileStale
         \/ \E q \in Requests, type \in EventTypes : DeliveryEvent(q, type)
         \/ UNCHANGED <<rows, usage, provider>>
<1>1. ASSUME NEW q \in Requests,
             \/ \E p \in Payloads : ReadKey(q, p)
             \/ Refuse(q) \/ Authorize(q) \/ CheckSuppression(q)
             \/ FindExisting(q) \/ Compare(q) \/ OverQuota(q)
      PROVE  UNCHANGED <<rows, usage, provider>>
  BY <1>1 DEF ReadKey, Refuse, Authorize, CheckSuppression, FindExisting,
              Compare, OverQuota
<1>2. ASSUME \/ \E k \in ApiKeys : RevokeKey(k)
             \/ \E r \in Recipients : ExpireSuppression(r) \/ RemoveSuppression(r)
             \/ \E r \in Recipients, type \in EventTypes :
                  OutboundDeliveryEvent(r, type)
             \/ NextWindow
             \/ ObjectCrash
             \/ UNCHANGED vars
      PROVE  UNCHANGED <<rows, usage, provider>>
  BY <1>2 DEF RevokeKey, ExpireSuppression, RemoveSuppression,
              OutboundDeliveryEvent, NextWindow, ObjectCrash, vars
<1> QED
  BY <1>1, <1>2 DEF Next, HandlerStep, AdminStep, EventStep

\* The steps that rewrite rows keep their request and window, keep an inference,
\* and leave the usage alone.
LEMMA Rewritten ==
  ASSUME TypeOK,
         \/ \E q \in Requests : SendSettles(q)
         \/ ReconcileStale
         \/ \E q \in Requests, type \in EventTypes : DeliveryEvent(q, type)
  PROVE  /\ usage' = usage /\ provider' = provider
         /\ \A s \in Slots :
              /\ rows'[s].request = rows[s].request
              /\ rows'[s].window = rows[s].window
              /\ rows[s].inferred => rows'[s].inferred
<1>1. ASSUME NEW q \in Requests, SendSettles(q)
      PROVE  /\ usage' = usage /\ provider' = provider
             /\ \A s \in Slots :
                  /\ rows'[s].request = rows[s].request
                  /\ rows'[s].window = rows[s].window
                  /\ rows[s].inferred => rows'[s].inferred
  <2>1. PICK status \in RowStatus, mail \in Requests \cup {NoRequest} :
          SettleRow(q, status, mail)
    BY <1>1 DEF SendSettles, SendReturns, SendAmbiguous, SendRefused, RowStatus
  <2>2. usage' = usage /\ provider' = provider
    BY <1>1 DEF SendSettles, SendReturns, SendAmbiguous, SendRefused
  <2> QED
    BY <2>1, <2>2, SettledRows
<1>2. ASSUME ReconcileStale
      PROVE  /\ usage' = usage /\ provider' = provider
             /\ \A s \in Slots :
                  /\ rows'[s].request = rows[s].request
                  /\ rows'[s].window = rows[s].window
                  /\ rows[s].inferred => rows'[s].inferred
  <2>1. PICK old \in SUBSET Slots \ {{}} :
          rows' = [s \in Slots |-> IF s \in old
                                   THEN [rows[s] EXCEPT !.status = "unknown"]
                                   ELSE rows[s]]
    BY <1>2 DEF ReconcileStale
  <2>2. ASSUME NEW s \in Slots
        PROVE  /\ rows'[s].request = rows[s].request
               /\ rows'[s].window = rows[s].window
               /\ rows'[s].inferred = rows[s].inferred
    <3>1. rows[s] \in Row
      BY DEF TypeOK
    <3> QED
      BY <2>1, <3>1, UnknownRow
  <2> QED
    BY <1>2, <2>2 DEF ReconcileStale
<1>3. ASSUME NEW q \in Requests, NEW type \in EventTypes, DeliveryEvent(q, type)
      PROVE  /\ usage' = usage /\ provider' = provider
             /\ \A s \in Slots :
                  /\ rows'[s].request = rows[s].request
                  /\ rows'[s].window = rows[s].window
                  /\ rows[s].inferred => rows'[s].inferred
  <2>1. PICK t \in Slots : rows' = [rows EXCEPT ![t] = Resolved(rows[t], q, type)]
    BY <1>3 DEF DeliveryEvent, SettleSlot, correlate, ByProviderId, ByEnvelope
  <2>2. rows[t] \in Row
    BY DEF TypeOK
  <2>3. ASSUME NEW s \in Slots
        PROVE  /\ rows'[s].request = rows[s].request
               /\ rows'[s].window = rows[s].window
               /\ rows[s].inferred => rows'[s].inferred
    <3>1. CASE s = t
      <4>1. rows'[s] = Resolved(rows[t], q, type)
        BY <2>1, <3>1 DEF TypeOK
      <4> QED
        BY <2>2, <3>1, <4>1, ResolvedRow
    <3>2. CASE s # t
      BY <2>1, <3>2 DEF TypeOK
    <3> QED
      BY <3>1, <3>2
  <2> QED
    BY <1>3, <2>3 DEF DeliveryEvent, SettleSlot
<1> QED
  BY <1>1, <1>2, <1>3

\* What a reservation writes.
LEMMA Reservation ==
  ASSUME TypeOK, NEW q \in Requests, Reserve(q)
  PROVE  /\ ~Reserved(Slot(q))
         /\ rows'[Slot(q)].request = q /\ rows'[Slot(q)].window = window
         /\ rows'[Slot(q)].status = "pending" /\ ~rows'[Slot(q)].inferred
         /\ \A s \in Slots : s # Slot(q) => rows'[s] = rows[s]
         /\ provider' = [provider EXCEPT ![q] = "requested"]
<1> DEFINE new == [NoRow EXCEPT !.request = q, !.window = window]
<1>1. /\ new.request = q /\ new.window = window /\ new.status = "pending"
      /\ ~new.inferred
  BY DEF NoRow
<1> HIDE DEF new
<1>2. /\ rows' = [rows EXCEPT ![Slot(q)] = new]
      /\ ~Reserved(Slot(q)) /\ provider' = [provider EXCEPT ![q] = "requested"]
  BY DEF Reserve, new
<1>3. Slot(q) \in Slots
  BY SlotTyped
<1> QED
  BY <1>1, <1>2, <1>3 DEF TypeOK

\* A reserved row stays its request's, what the provider made of a mail stands,
\* and a request never changes its payload.
LEMMA Carried ==
  ASSUME TypeOK, CallMatchesProvider, [Next]_vars
  PROVE  /\ \A s \in Slots : Reserved(s) =>
              /\ rows'[s].request = rows[s].request
              /\ rows'[s].window = rows[s].window
              /\ rows[s].inferred => rows'[s].inferred
         /\ \A q \in Requests :
              /\ Taken(q) => Taken(q)'
              /\ provider[q] = "refused" => provider'[q] = "refused"
              /\ provider[q] # "none" => provider'[q] # "none"
              /\ call[q] # "none" => body'[q] = body[q]
<1>1. ASSUME NEW s \in Slots, Reserved(s)
      PROVE  /\ rows'[s].request = rows[s].request
             /\ rows'[s].window = rows[s].window
             /\ rows[s].inferred => rows'[s].inferred
  <2>1. CASE \E q \in Requests : Reserve(q)
    BY <1>1, <2>1, Reservation
  <2>2. CASE \/ \E q \in Requests : ProviderStep(q)
             \/ UNCHANGED <<rows, usage, provider>>
    BY <2>2 DEF ProviderStep, ProviderAccepts, ProviderDrops, ProviderRefuses,
                ProviderDecides, storeVars
  <2> QED
    BY <2>1, <2>2, Rewritten, StepKinds
<1>2. ASSUME NEW q \in Requests
      PROVE  /\ Taken(q) => Taken(q)'
             /\ provider[q] = "refused" => provider'[q] = "refused"
             /\ provider[q] # "none" => provider'[q] # "none"
  <2>1. ASSUME NEW r \in Requests, Reserve(r)
        PROVE  /\ provider[r] = "none"
               /\ provider' = [provider EXCEPT ![r] = "requested"]
    BY <2>1 DEF Reserve, CallMatchesProvider, Awaiting, CallState
  <2>2. CASE \E r \in Requests : Reserve(r)
    BY <2>1, <2>2 DEF Taken, TypeOK
  <2>3. CASE \E r \in Requests : ProviderStep(r)
    BY <2>3 DEF ProviderStep, ProviderAccepts, ProviderDrops, ProviderRefuses,
                ProviderDecides, Taken, TypeOK
  <2>4. CASE provider' = provider
    BY <2>4 DEF Taken
  <2> QED
    BY <2>2, <2>3, <2>4, Rewritten, StepKinds
<1>3. ASSUME NEW q \in Requests, call[q] # "none"
      PROVE  body'[q] = body[q]
  <2>1. ASSUME NEW r \in Requests, NEW p \in Payloads, ReadKey(r, p)
        PROVE  body'[q] = body[q]
    BY <1>3, <2>1 DEF ReadKey, TypeOK
  <2>2. ASSUME NEW r \in Requests, HandlerStep(r) PROVE body' = body
    BY <2>2 DEF HandlerStep, Refuse, Authorize, CheckSuppression, FindExisting,
                Compare, OverQuota, Reserve, SendSettles, SendReturns,
                SendAmbiguous, SendRefused
  <2>3. ASSUME NEW r \in Requests, ProviderStep(r) PROVE body' = body
    BY <2>3 DEF ProviderStep, ProviderAccepts, ProviderDrops, ProviderRefuses,
                ProviderDecides
  <2>4. ASSUME AdminStep \/ EventStep \/ NextWindow \/ ObjectCrash \/ UNCHANGED vars
        PROVE  body' = body
    BY <2>4 DEF AdminStep, EventStep, NextWindow, ObjectCrash, vars,
                ReconcileStale, RevokeKey, ExpireSuppression,
                RemoveSuppression, DeliveryEvent, SettleSlot, OutboundDeliveryEvent
  <2> QED
    BY <2>1, <2>2, <2>3, <2>4 DEF Next
<1> QED
  BY <1>1, <1>2, <1>3

--------------------------------------------------------------------------------
(* The conjuncts of TxInvariant.                                           *)

\* A row never passes to another request.
LEMMA OwnerStep ==
  ASSUME TxInvariant, [Next]_vars
  PROVE  RowOwner'
<1> USE DEF TxInvariant
<1>1. ASSUME NEW q \in Requests, Reserve(q) PROVE RowOwner'
  <2>1. ASSUME NEW s \in Slots, s = Slot(q)
        PROVE  Slot(rows'[s].request) = s
    BY <1>1, <2>1, Reservation
  <2>2. ASSUME NEW s \in Slots, s # Slot(q), rows'[s].request # NoRequest
        PROVE  Slot(rows'[s].request) = s
    BY <1>1, <2>2, Reservation DEF RowOwner, Reserved
  <2> QED
    BY <2>1, <2>2 DEF RowOwner, Reserved
<1>2. ASSUME \A s \in Slots : rows'[s].request = rows[s].request
      PROVE  RowOwner'
  BY <1>2 DEF RowOwner, Reserved
<1>3. CASE \/ \E q \in Requests : ProviderStep(q)
           \/ UNCHANGED <<rows, usage, provider>>
  BY <1>2, <1>3 DEF ProviderStep, ProviderAccepts, ProviderDrops,
                    ProviderRefuses, ProviderDecides
<1> QED
  BY <1>1, <1>2, <1>3, Rewritten, StepKinds

\* Only a reservation of a free slot starts a mail.
LEMMA AtMostOneMailStep ==
  ASSUME TxInvariant, [Next]_vars
  PROVE  AtMostOneMail'
<1> USE DEF TxInvariant
<1>1. ASSUME NEW q \in Requests
      PROVE  provider'[q] # "none" <=> rows'[Slot(q)].request = q
  <2>1. provider[q] # "none" <=> rows[Slot(q)].request = q
    BY DEF AtMostOneMail
  <2>2. Slot(q) \in Slots
    BY SlotTyped
  <2>3. ASSUME NEW r \in Requests, Reserve(r)
        PROVE  provider'[q] # "none" <=> rows'[Slot(q)].request = q
    <3>1. CASE q = r
      BY <2>3, <3>1, Reservation DEF TypeOK
    <3>2. CASE q # r /\ Slot(q) = Slot(r)
      <4>1. rows[Slot(q)].request = NoRequest
        BY <2>3, <3>2, Reservation DEF Reserved
      <4>2. provider[q] = "none"
        BY <2>1, <4>1
      <4>3. provider'[q] = "none"
        BY <2>3, <3>2, <4>2, Reservation DEF TypeOK
      <4>4. rows'[Slot(q)].request = r
        BY <2>3, <3>2, Reservation
      <4> QED
        BY <3>2, <4>3, <4>4
    <3>3. CASE q # r /\ Slot(q) # Slot(r)
      BY <2>1, <2>2, <2>3, <3>3, Reservation DEF TypeOK
    <3> QED
      BY <3>1, <3>2, <3>3
  <2>4. ASSUME NEW r \in Requests, ProviderStep(r)
        PROVE  provider'[q] # "none" <=> rows'[Slot(q)].request = q
    BY <2>1, <2>4 DEF ProviderStep, ProviderAccepts, ProviderDrops,
                      ProviderRefuses, ProviderDecides, TypeOK
  <2>5. ASSUME provider' = provider,
               \A s \in Slots : rows'[s].request = rows[s].request
        PROVE  provider'[q] # "none" <=> rows'[Slot(q)].request = q
    BY <2>1, <2>2, <2>5
  <2>6. CASE UNCHANGED <<rows, usage, provider>>
    BY <2>1, <2>6
  <2> QED
    BY <2>3, <2>4, <2>5, <2>6, Rewritten, StepKinds
<1>2. ASSUME NEW q1 \in Requests, NEW q2 \in Requests, Slot(q1) = Slot(q2),
             provider'[q1] # "none", provider'[q2] # "none"
      PROVE  q1 = q2
  BY <1>1, <1>2
<1>3. \A q \in Requests : Slot(q)' = Slot(q)
  BY DEF Slot
<1> QED
  BY <1>1, <1>2, <1>3 DEF AtMostOneMail

\* The charge of a reservation and the row it stands for appear together.
LEMMA QuotaStep ==
  ASSUME TxInvariant, [Next]_vars
  PROVE  QuotaExact'
<1> USE DEF TxInvariant
<1>1. ASSUME usage' = usage,
             \A s \in Slots : /\ rows'[s].request = rows[s].request
                              /\ rows'[s].window = rows[s].window
      PROVE  QuotaExact'
  <2>1. ASSUME NEW k \in ApiKeys, NEW w \in Windows
        PROVE  Charged(k, w)' = Charged(k, w)
    BY <1>1 DEF Charged, Reserved
  <2> QED
    BY <1>1, <2>1 DEF QuotaExact
<1>2. ASSUME NEW q \in Requests, Reserve(q) PROVE QuotaExact'
  <2> DEFINE key == KeyOf[q]
             now == window
  <2>1. /\ key \in ApiKeys /\ now \in Windows /\ Slot(q) \in Slots
        /\ Slot(q)[1] = key
    BY SlotTyped DEF TypeOK
  <2>2. /\ ~Reserved(Slot(q))
        /\ rows'[Slot(q)].request = q /\ rows'[Slot(q)].window = now
        /\ \A s \in Slots : s # Slot(q) => rows'[s] = rows[s]
    BY <1>2, Reservation
  <2>3. /\ usage[key][now] < Quota[key]
        /\ \A k \in ApiKeys, w \in Windows :
             usage'[k][w] = IF k = key /\ w = now THEN usage[k][w] + 1
                                                  ELSE usage[k][w]
    BY <1>2, <2>1 DEF Reserve, TypeOK
  <2>4. \A k \in ApiKeys, w \in Windows : usage[k][w] \in Nat /\ Quota[k] \in Nat
    BY DEF TypeOK
  <2> HIDE DEF key, now
  <2>5. ASSUME NEW k \in ApiKeys, NEW w \in Windows
        PROVE  /\ usage'[k][w] = Cardinality(Charged(k, w)')
               /\ usage'[k][w] <= Quota[k]
    <3>1. /\ usage[k][w] = Cardinality(Charged(k, w))
          /\ usage[k][w] <= Quota[k]
      BY DEF QuotaExact
    <3>2. CASE k = key /\ w = now
      <4>1. Charged(k, w)' = Charged(k, w) \cup {Slot(q)}
        BY <2>1, <2>2, <3>2 DEF Charged, Reserved
      <4>2. Slot(q) \notin Charged(k, w)
        BY <2>2 DEF Charged
      <4>3. IsFiniteSet(Charged(k, w))
        BY SlotsFinite, FS_Subset DEF Charged
      <4>4. Cardinality(Charged(k, w) \cup {Slot(q)})
              = Cardinality(Charged(k, w)) + 1
        BY <4>2, <4>3, FS_AddElement
      <4> QED
        BY <2>3, <2>4, <3>1, <3>2, <4>1, <4>4
    <3>3. CASE ~(k = key /\ w = now)
      <4>1. Charged(k, w)' = Charged(k, w)
        BY <2>1, <2>2, <3>3 DEF Charged, Reserved
      <4> QED
        BY <2>3, <3>1, <3>3, <4>1
    <3> QED
      BY <3>2, <3>3
  <2> QED
    BY <2>5 DEF QuotaExact
<1>3. CASE \/ \E q \in Requests : ProviderStep(q)
           \/ UNCHANGED <<rows, usage, provider>>
  BY <1>1, <1>3 DEF ProviderStep, ProviderAccepts, ProviderDrops,
                    ProviderRefuses, ProviderDecides
<1> QED
  BY <1>1, <1>2, <1>3, Rewritten, StepKinds

\* A step of another request, of the provider, of an administrator or of an
\* event leaves a request where it was and starts no mail for it.
LEMMA WhoseStep ==
  ASSUME TypeOK, [Next]_vars, NEW q \in Requests
  PROVE  \/ \E p \in Payloads : ReadKey(q, p)
         \/ HandlerStep(q)
         \/ ObjectCrash
         \/ /\ call'[q] = call[q] /\ seen'[q] = seen[q]
            /\ answer'[q] = answer[q] /\ body'[q] = body[q]
            /\ provider[q] = "none" <=> provider'[q] = "none"
<1> DEFINE Left == /\ call'[q] = call[q] /\ seen'[q] = seen[q]
                   /\ answer'[q] = answer[q] /\ body'[q] = body[q]
                   /\ provider[q] = "none" <=> provider'[q] = "none"
<1>1. ASSUME NEW r \in Requests, r # q, NEW p \in Payloads, ReadKey(r, p)
      PROVE  Left
  BY <1>1 DEF ReadKey, TypeOK
<1>2. ASSUME NEW r \in Requests, r # q, HandlerStep(r)
      PROVE  Left
  <2>1. CASE Refuse(r) \/ Authorize(r) \/ CheckSuppression(r) \/ OverQuota(r)
    BY <1>2, <2>1 DEF Refuse, Authorize, CheckSuppression, OverQuota, TypeOK
  <2>2. CASE FindExisting(r)
    BY <1>2, <2>2 DEF FindExisting, TypeOK
  <2>3. CASE Compare(r)
    BY <1>2, <2>3 DEF Compare, TypeOK
  <2>4. CASE Reserve(r)
    BY <1>2, <2>4 DEF Reserve, TypeOK
  <2>5. CASE SendSettles(r)
    BY <1>2, <2>5 DEF SendSettles, SendReturns, SendAmbiguous, SendRefused, TypeOK
  <2> QED
    BY <1>2, <2>1, <2>2, <2>3, <2>4, <2>5 DEF HandlerStep
<1>3. ASSUME NEW r \in Requests, ProviderStep(r)
      PROVE  Left
  BY <1>3 DEF ProviderStep, ProviderAccepts, ProviderDrops, ProviderRefuses,
              ProviderDecides, TypeOK
<1>4. ASSUME AdminStep \/ EventStep \/ NextWindow \/ UNCHANGED vars
      PROVE  Left
  BY <1>4 DEF AdminStep, EventStep, NextWindow, vars, ReconcileStale, RevokeKey,
              ExpireSuppression, RemoveSuppression, DeliveryEvent, SettleSlot,
              OutboundDeliveryEvent
<1> QED
  BY <1>1, <1>2, <1>3, <1>4 DEF Next

\* A settled status comes from the send call of the row's own request, or from
\* an event that says so in the row.
LEMMA StatusStep ==
  ASSUME TxInvariant, [Next]_vars
  PROVE  StatusIsTrue'
<1> USE DEF TxInvariant
<1> DEFINE Honest(row) ==
             /\ row.status = "sent" => Taken(row.request) /\ row.mail = row.request
             /\ row.status = "failed" => provider[row.request] = "refused"
<1> SUFFICES ASSUME NEW s \in Slots, rows'[s].request # NoRequest,
                    ~rows'[s].inferred
             PROVE  Honest(rows[s])'
  BY DEF StatusIsTrue, Reserved
<1>1. rows[s].request # NoRequest /\ ~rows[s].inferred => Honest(rows[s])
  BY DEF StatusIsTrue, Reserved
<1>2. rows[s].request \in Requests \cup {NoRequest} /\ rows[s] \in Row
  BY DEF TypeOK, Row
<1>3. CASE rows'[s] = rows[s]
  BY <1>1, <1>2, <1>3, Carried DEF Taken
<1>4. ASSUME NEW q \in Requests, Reserve(q) PROVE Honest(rows[s])'
  BY <1>3, <1>4, Reservation
<1>5. ASSUME NEW q \in Requests, SendSettles(q) PROVE Honest(rows[s])'
  <2>1. CASE SendReturns(q)
    <3>1. SettleRow(q, "sent", q) /\ Taken(q) /\ provider' = provider
      BY <2>1 DEF SendReturns, Taken
    <3>2. CASE s = Slot(q) /\ rows[s].request = q
      <4>1. /\ rows'[s].request = q /\ rows'[s].status = "sent"
            /\ rows'[s].mail = q
        BY <3>1, <3>2, SettledRows DEF RowStatus
      <4> QED
        BY <3>1, <4>1 DEF Taken
    <3>3. CASE ~(s = Slot(q) /\ rows[s].request = q)
      BY <1>3, <3>1, <3>3, SettledRows DEF RowStatus
    <3> QED
      BY <3>2, <3>3
  <2>2. CASE SendAmbiguous(q)
    <3>1. SettleRow(q, "unknown", NoRequest)
      BY <2>2 DEF SendAmbiguous
    <3>2. rows'[s].status = "unknown" \/ rows'[s] = rows[s]
      BY <3>1, SettledRows DEF RowStatus
    <3> QED
      BY <1>3, <3>2
  <2>3. CASE SendRefused(q)
    <3>1. /\ SettleRow(q, "failed", NoRequest)
          /\ provider[q] = "refused" /\ provider' = provider
      BY <2>3 DEF SendRefused
    <3>2. CASE s = Slot(q) /\ rows[s].request = q
      <4>1. rows'[s].request = q /\ rows'[s].status = "failed"
        BY <3>1, <3>2, SettledRows DEF RowStatus
      <4> QED
        BY <3>1, <4>1
    <3>3. CASE ~(s = Slot(q) /\ rows[s].request = q)
      BY <1>3, <3>1, <3>3, SettledRows DEF RowStatus
    <3> QED
      BY <3>2, <3>3
  <2> QED
    BY <1>5, <2>1, <2>2, <2>3 DEF SendSettles
<1>6. ASSUME ReconcileStale PROVE Honest(rows[s])'
  <2>1. rows'[s] = rows[s] \/ rows'[s] = [rows[s] EXCEPT !.status = "unknown"]
    BY <1>6 DEF ReconcileStale
  <2> QED
    BY <1>2, <1>3, <2>1, UnknownRow
<1>7. ASSUME NEW q \in Requests, NEW type \in EventTypes, DeliveryEvent(q, type)
      PROVE  Honest(rows[s])'
  <2>1. PICK t \in Slots : rows' = [rows EXCEPT ![t] = Resolved(rows[t], q, type)]
    BY <1>7 DEF DeliveryEvent, SettleSlot, correlate, ByProviderId, ByEnvelope
  <2>2. CASE s = t
    <3>1. rows'[s] = Resolved(rows[s], q, type)
      BY <2>1, <2>2 DEF TypeOK
    <3>2. CASE rows[s].status = "unknown"
      BY <1>2, <3>1, <3>2, ResolvedRow
    <3>3. CASE rows[s].status # "unknown"
      <4>1. /\ rows'[s].request = rows[s].request
            /\ rows'[s].status = rows[s].status
            /\ rows'[s].mail = rows[s].mail
            /\ rows'[s].inferred = rows[s].inferred
        BY <1>2, <3>1, <3>3, ResolvedRow
      <4>2. provider' = provider
        BY <1>7 DEF DeliveryEvent, SettleSlot
      <4> QED
        BY <1>1, <4>1, <4>2 DEF Taken
    <3> QED
      BY <3>2, <3>3
  <2>3. CASE s # t
    BY <1>3, <2>1, <2>3 DEF TypeOK
  <2> QED
    BY <2>2, <2>3
<1>8. ASSUME NEW q \in Requests, ProviderStep(q) PROVE Honest(rows[s])'
  BY <1>3, <1>8 DEF ProviderStep, ProviderAccepts, ProviderDrops,
                    ProviderRefuses, ProviderDecides
<1> QED
  BY <1>3, <1>4, <1>5, <1>6, <1>7, <1>8, StepKinds

\* Before the send a request has no mail, after it an answer.
LEMMA CallStep ==
  ASSUME TxInvariant, [Next]_vars
  PROVE  CallMatchesProvider'
<1> USE DEF TxInvariant
<1> DEFINE Fits(q) ==
             /\ call[q] = "none" <=> body[q] = NoPayload
             /\ call[q] \in Awaiting \ {"sending"} => provider[q] = "none"
             /\ call[q] = "none" => provider[q] = "none"
             /\ call[q] = "sending" => provider[q] # "none"
             /\ call[q] # "answered" => answer[q] = "none"
<1> SUFFICES ASSUME NEW q \in Requests PROVE Fits(q)'
  BY DEF CallMatchesProvider
<1>1. Fits(q)
  BY DEF CallMatchesProvider
<1> USE DEF Awaiting, CallState
<1>2. ASSUME NEW p \in Payloads, ReadKey(q, p) PROVE Fits(q)'
  BY <1>1, <1>2 DEF ReadKey, TypeOK
<1>3. ASSUME Refuse(q) \/ Authorize(q) \/ CheckSuppression(q) \/ OverQuota(q)
      PROVE  Fits(q)'
  BY <1>1, <1>3 DEF Refuse, Authorize, CheckSuppression, OverQuota, TypeOK
<1>4. ASSUME FindExisting(q) \/ Compare(q) PROVE Fits(q)'
  BY <1>1, <1>4 DEF FindExisting, Compare, TypeOK
<1>5. ASSUME Reserve(q) PROVE Fits(q)'
  BY <1>1, <1>5 DEF Reserve, TypeOK
<1>6. ASSUME SendSettles(q) PROVE Fits(q)'
  BY <1>1, <1>6 DEF SendSettles, SendReturns, SendAmbiguous, SendRefused, TypeOK
<1>7. ASSUME ObjectCrash PROVE Fits(q)'
  BY <1>1, <1>7 DEF ObjectCrash, TypeOK
<1>8. ASSUME call'[q] = call[q], answer'[q] = answer[q], body'[q] = body[q],
             provider[q] = "none" <=> provider'[q] = "none"
      PROVE  Fits(q)'
  BY <1>1, <1>8
<1> QED
  BY <1>2, <1>3, <1>4, <1>5, <1>6, <1>7, <1>8, WhoseStep DEF HandlerStep

\* What is known of the request that reserved a slot stays true.
LEMMA KnownStays ==
  ASSUME TxInvariant, [Next]_vars,
         NEW s \in Slots, NEW r \in Requests, rows[s].request = r
  PROVE  /\ rows'[s].request = r
         /\ provider[r] # "none"
         /\ body'[r] = body[r]
         /\ rows[s].inferred \/ Taken(r) => rows'[s].inferred \/ Taken(r)'
         /\ rows[s].inferred \/ provider[r] = "refused" =>
              rows'[s].inferred \/ provider'[r] = "refused"
<1> USE DEF TxInvariant
<1>1. Reserved(s)
  BY DEF Reserved
<1>2. Slot(r) = s
  BY <1>1 DEF RowOwner
<1>3. provider[r] # "none"
  BY <1>2 DEF AtMostOneMail
<1>4. call[r] # "none"
  BY <1>3 DEF CallMatchesProvider
<1>5. rows'[s].request = r /\ (rows[s].inferred => rows'[s].inferred)
  BY <1>1, Carried
<1>6. /\ body'[r] = body[r]
      /\ Taken(r) => Taken(r)'
      /\ provider[r] = "refused" => provider'[r] = "refused"
  BY <1>4, Carried
<1> QED
  BY <1>3, <1>5, <1>6

\* What a replay read before it compares the payload hashes.
LEMMA SeenStep ==
  ASSUME TxInvariant, [Next]_vars
  PROVE  SeenIsTrue'
<1> USE DEF TxInvariant
<1> DEFINE Known(q) ==
             LET row == rows[Slot(q)]
             IN /\ row.request # NoRequest
                /\ seen[q] \in RowStatus
                /\ seen[q] = "sent" => row.inferred \/ Taken(row.request)
                /\ seen[q] = "failed" =>
                     row.inferred \/ provider[row.request] = "refused"
<1> SUFFICES ASSUME NEW q \in Requests, call'[q] = "comparing"
             PROVE  Known(q)'
  BY DEF SeenIsTrue
<1>0. Slot(q)' = Slot(q) /\ Slot(q) \in Slots
  BY SlotTyped DEF Slot
<1>1. CASE FindExisting(q)
  <2>1. /\ rows[Slot(q)].request # NoRequest
        /\ seen'[q] = rows[Slot(q)].status
        /\ rows' = rows /\ provider' = provider
    BY <1>1 DEF FindExisting, Reserved, TypeOK
  <2>2. rows[Slot(q)].status \in RowStatus
    BY <1>0 DEF TypeOK, Row
  <2>3. StatusIsTrue
    OBVIOUS
  <2> QED
    BY <1>0, <2>1, <2>2, <2>3 DEF StatusIsTrue, Reserved, Taken
<1>2. CASE call[q] = "comparing" /\ seen'[q] = seen[q]
  <2>1. Known(q)
    BY <1>2 DEF SeenIsTrue
  <2>2. PICK r \in Requests : r = rows[Slot(q)].request
    BY <1>0, <2>1 DEF TypeOK, Row
  <2>3. /\ rows'[Slot(q)].request = r
        /\ rows[Slot(q)].inferred \/ Taken(r) =>
             rows'[Slot(q)].inferred \/ Taken(r)'
        /\ rows[Slot(q)].inferred \/ provider[r] = "refused" =>
             rows'[Slot(q)].inferred \/ provider'[r] = "refused"
    BY <1>0, <2>2, KnownStays
  <2>4. Taken(r)' <=> provider'[r] \in {"accepted", "dropped"}
    BY DEF Taken
  <2> QED
    BY <1>0, <1>2, <2>1, <2>2, <2>3, <2>4 DEF Taken
<1>3. ASSUME HandlerStep(q), ~FindExisting(q)
      PROVE  FALSE
  BY <1>3 DEF HandlerStep, Refuse, Authorize, CheckSuppression, Compare,
              OverQuota, Reserve, SendSettles, SendReturns, SendAmbiguous,
              SendRefused, TypeOK
<1>4. ASSUME NEW p \in Payloads, ReadKey(q, p)
      PROVE  FALSE
  BY <1>4 DEF ReadKey, TypeOK
<1>5. ASSUME ObjectCrash
      PROVE  FALSE
  BY <1>5 DEF ObjectCrash, Awaiting, CallState, TypeOK
<1> QED
  BY <1>1, <1>2, <1>3, <1>4, <1>5, WhoseStep

\* Each answer, when given, speaks for the row it was read from or wrote.
LEMMA AnswerStep ==
  ASSUME TxInvariant, [Next]_vars
  PROVE  AnswerIsTrue'
<1> USE DEF TxInvariant
<1> DEFINE
      Bold == {"sent", "accepted", "unknown", "permanent_failure"}
      Fits(q) ==
        LET row == rows[Slot(q)]
        IN /\ answer[q] \in Bold =>
                row.request # NoRequest /\ body[row.request] = body[q]
           /\ answer[q] = "sent" => row.inferred \/ Taken(row.request)
           /\ answer[q] = "permanent_failure" =>
                row.inferred \/ provider[row.request] = "refused"
           /\ answer[q] \in {"rejected", "idempotency_conflict"} =>
                provider[q] = "none"
<1> SUFFICES ASSUME NEW q \in Requests PROVE Fits(q)'
  BY DEF AnswerIsTrue
<1>1. Fits(q)
  BY DEF AnswerIsTrue
<1>2. Slot(q)' = Slot(q) /\ Slot(q) \in Slots
  BY SlotTyped DEF Slot
<1>3. \A r \in Requests : Taken(r)' <=> provider'[r] \in {"accepted", "dropped"}
  BY DEF Taken
<1>4. CASE answer'[q] \notin Bold
  <2>1. CASE answer'[q] \notin {"rejected", "idempotency_conflict"}
    BY <1>4, <2>1
  <2>2. CASE answer'[q] \in {"rejected", "idempotency_conflict"}
    <3>1. provider[q] = "none"
          /\ (answer[q] = answer'[q] => call[q] = "answered")
      <4>1. CASE answer'[q] = answer[q]
        BY <1>1, <2>2, <4>1 DEF CallMatchesProvider
      <4>2. CASE answer'[q] # answer[q]
        <5>1. HandlerStep(q)
          BY <4>2, WhoseStep DEF ReadKey, ObjectCrash
        <5>2. ~Reserve(q) /\ ~SendSettles(q)
          BY <2>2, <4>2 DEF Reserve, SendSettles, SendReturns, SendAmbiguous,
                            SendRefused, TypeOK
        <5>3. call[q] \in {"authenticating", "importing", "hashing", "comparing"}
          BY <5>1, <5>2 DEF HandlerStep, Refuse, Authorize, CheckSuppression,
                            FindExisting, Compare, OverQuota
        <5> QED
          BY <4>2, <5>3 DEF CallMatchesProvider, Awaiting, CallState
      <4> QED
        BY <4>1, <4>2
    <3>2. ~Reserve(q)
      BY <2>2, <3>1 DEF Reserve
    <3>3. provider'[q] = "none"
      BY <3>1, <3>2, WhoseStep DEF HandlerStep, ReadKey, ObjectCrash, Refuse,
         Authorize, CheckSuppression, FindExisting, Compare, OverQuota,
         SendSettles, SendReturns, SendAmbiguous, SendRefused
    <3> QED
      BY <1>4, <2>2, <3>3
  <2> QED
    BY <2>1, <2>2
<1>5. CASE answer'[q] \in Bold /\ answer'[q] = answer[q]
  <2>1. call[q] = "answered"
    BY <1>5 DEF CallMatchesProvider
  <2>2. body'[q] = body[q]
    BY <2>1, Carried
  <2>3. PICK r \in Requests : r = rows[Slot(q)].request
    BY <1>1, <1>2, <1>5 DEF TypeOK, Row
  <2>4. /\ rows'[Slot(q)].request = r /\ body'[r] = body[r]
        /\ rows[Slot(q)].inferred \/ Taken(r) =>
             rows'[Slot(q)].inferred \/ Taken(r)'
        /\ rows[Slot(q)].inferred \/ provider[r] = "refused" =>
             rows'[Slot(q)].inferred \/ provider'[r] = "refused"
    BY <1>2, <2>3, KnownStays
  <2> QED
    BY <1>1, <1>2, <1>3, <1>5, <2>2, <2>3, <2>4
<1>6. CASE answer'[q] \in Bold /\ answer'[q] # answer[q]
  <2>1. Compare(q) \/ SendSettles(q)
    BY <1>6, WhoseStep DEF HandlerStep, ReadKey, ObjectCrash, Refuse, Authorize,
       CheckSuppression, FindExisting, OverQuota, Reserve, TypeOK
  <2>2. CASE Compare(q)
    <3>1. /\ call[q] = "comparing" /\ seen[q] \in RowStatus
          /\ rows' = rows /\ provider' = provider /\ body' = body
      BY <2>2 DEF Compare, SeenIsTrue
    <3>2. /\ body[rows[Slot(q)].request] = body[q]
          /\ answer'[q] = mapDbStatusToResponse(seen[q])
      BY <1>6, <2>2 DEF Compare, TypeOK
    <3>3. /\ answer'[q] = "sent" => seen[q] = "sent"
          /\ answer'[q] = "permanent_failure" => seen[q] = "failed"
      BY <3>1, <3>2 DEF mapDbStatusToResponse, RowStatus
    <3>4. LET row == rows[Slot(q)]
          IN /\ row.request # NoRequest
             /\ seen[q] = "sent" => row.inferred \/ Taken(row.request)
             /\ seen[q] = "failed" =>
                  row.inferred \/ provider[row.request] = "refused"
      BY <3>1 DEF SeenIsTrue
    <3>5. PICK r \in Requests : r = rows[Slot(q)].request
      BY <1>2, <3>4 DEF TypeOK, Row
    <3> QED
      BY <1>2, <1>3, <1>6, <3>1, <3>2, <3>3, <3>4, <3>5 DEF Taken
  <2>3. CASE SendSettles(q)
    <3>1. /\ call[q] = "sending" /\ provider' = provider /\ body' = body
          /\ answer'[q] = "sent" => provider[q] \in {"accepted", "dropped"}
          /\ answer'[q] = "permanent_failure" => provider[q] = "refused"
      BY <2>3 DEF SendSettles, SendReturns, SendAmbiguous, SendRefused, TypeOK
    <3>2. rows[Slot(q)].request = q
      BY <3>1 DEF CallMatchesProvider, AtMostOneMail
    <3>3. rows'[Slot(q)].request = q
      BY <1>2, <3>2, KnownStays
    <3> QED
      BY <1>2, <1>3, <1>6, <3>1, <3>3
  <2> QED
    BY <2>1, <2>2, <2>3
<1> QED
  BY <1>4, <1>5, <1>6

--------------------------------------------------------------------------------
(* The theorems.                                                           *)

\* Nothing was asked, reserved, charged or sent at the start.
LEMMA InitInvariant == Init => TxInvariant
<1> SUFFICES ASSUME Init PROVE TxInvariant
  OBVIOUS
<1> USE DEF Init
<1>1. TypeOK
  BY EmptyRow DEF TypeOK, Suppression, RowStatus, CallState, Answers, Windows
<1>2. \A s \in Slots : rows[s].request = NoRequest
  BY EmptyRow
<1>3. \A q \in Requests : Slot(q) \in Slots
  BY SlotTyped
<1>4. AtMostOneMail
  BY <1>2, <1>3 DEF AtMostOneMail
<1>5. QuotaExact
  <2>1. ASSUME NEW k \in ApiKeys, NEW w \in Windows
        PROVE  Charged(k, w) = {}
    BY <1>2 DEF Charged, Reserved
  <2>2. ASSUME NEW k \in ApiKeys, NEW w \in Windows
        PROVE  usage[k][w] = 0 /\ 0 <= Quota[k]
    OBVIOUS
  <2>3. Cardinality({}) = 0
    BY FS_EmptySet
  <2>4. ASSUME NEW k \in ApiKeys, NEW w \in Windows
        PROVE  /\ usage[k][w] = Cardinality(Charged(k, w))
               /\ usage[k][w] <= Quota[k]
    BY <2>1, <2>2, <2>3
  <2> QED
    BY <2>4 DEF QuotaExact
<1>6. StatusIsTrue /\ RowOwner
  BY <1>2 DEF StatusIsTrue, RowOwner, Reserved
<1>7. AnswerIsTrue /\ CallMatchesProvider /\ SeenIsTrue
  BY DEF AnswerIsTrue, CallMatchesProvider, SeenIsTrue, Awaiting, CallState
<1> QED
  BY <1>1, <1>4, <1>5, <1>6, <1>7 DEF TxInvariant

\* Every reachable state satisfies TxInvariant, whatever requests, replays,
\* crashes, reconciliations and events preceded it.
THEOREM Invariance == Spec => []TxInvariant
<1>1. TxInvariant /\ [Next]_vars => TxInvariant'
  <2> SUFFICES ASSUME TxInvariant, [Next]_vars PROVE TxInvariant'
    OBVIOUS
  <2>1. TypeOK' /\ AtMostOneMail' /\ QuotaExact' /\ StatusIsTrue'
    BY TypeStep, AtMostOneMailStep, QuotaStep, StatusStep DEF TxInvariant
  <2>2. AnswerIsTrue' /\ RowOwner' /\ CallMatchesProvider' /\ SeenIsTrue'
    BY AnswerStep, OwnerStep, CallStep, SeenStep
  <2> QED
    BY <2>1, <2>2 DEF TxInvariant
<1> QED
  BY <1>1, InitInvariant, PTL DEF Spec

\* Types are kept.
THEOREM TypeCorrect == Spec => []TypeOK
<1>1. TxInvariant => TypeOK
  BY DEF TxInvariant
<1> QED
  BY <1>1, Invariance, PTL

\* One key and one Idempotency-Key never put two mails out.
THEOREM MailedOnce == Spec => []AtMostOneMail
<1>1. TxInvariant => AtMostOneMail
  BY DEF TxInvariant
<1> QED
  BY <1>1, Invariance, PTL

\* The usage counter is the number of reservations, and within the quota.
THEOREM QuotaIsExact == Spec => []QuotaExact
<1>1. TxInvariant => QuotaExact
  BY DEF TxInvariant
<1> QED
  BY <1>1, Invariance, PTL

\* A status that was not inferred is the provider's answer to that request.
THEOREM StatusesAreTrue == Spec => []StatusIsTrue
<1>1. TxInvariant => StatusIsTrue
  BY DEF TxInvariant
<1> QED
  BY <1>1, Invariance, PTL

\* No answer speaks for another payload or claims an outcome nobody saw.
THEOREM AnswersAreTrue == Spec => []AnswerIsTrue
<1>1. TxInvariant => AnswerIsTrue
  BY DEF TxInvariant
<1> QED
  BY <1>1, Invariance, PTL

\* A settled row is written only by its own send call.
THEOREM SettledForGood == Spec => SettledStays
<1> DEFINE Stays(s) ==
             /\ Reserved(s)
             /\ rows[s].status \in {"sent", "failed"}
             /\ call[rows[s].request] # "sending"
             => /\ rows'[s].status = rows[s].status
                /\ rows'[s].request = rows[s].request
<1>1. ASSUME TxInvariant, [Next]_vars, NEW s \in Slots
      PROVE  Stays(s)
  <2> SUFFICES ASSUME Reserved(s), rows[s].status \in {"sent", "failed"},
                      call[rows[s].request] # "sending"
               PROVE  rows'[s].status = rows[s].status
    BY <1>1, Carried DEF TxInvariant
  <2>1. rows[s] \in Row /\ TypeOK
    BY <1>1 DEF TxInvariant, TypeOK
  <2>2. ASSUME NEW q \in Requests, Reserve(q)
        PROVE  rows'[s].status = rows[s].status
    BY <2>1, <2>2, Reservation
  <2>3. ASSUME NEW q \in Requests, SendSettles(q)
        PROVE  rows'[s].status = rows[s].status
    <3>1. call[q] = "sending"
      BY <2>3 DEF SendSettles, SendReturns, SendAmbiguous, SendRefused
    <3>2. PICK status \in RowStatus, mail \in Requests \cup {NoRequest} :
            SettleRow(q, status, mail)
      BY <2>3 DEF SendSettles, SendReturns, SendAmbiguous, SendRefused, RowStatus
    <3> QED
      BY <2>1, <3>1, <3>2, SettledRows
  <2>4. ASSUME ReconcileStale PROVE rows'[s].status = rows[s].status
    BY <2>4 DEF ReconcileStale, Stale
  <2>5. ASSUME NEW q \in Requests, NEW type \in EventTypes,
               DeliveryEvent(q, type)
        PROVE  rows'[s].status = rows[s].status
    <3>1. PICK t \in Slots :
            rows' = [rows EXCEPT ![t] = Resolved(rows[t], q, type)]
      BY <2>5 DEF DeliveryEvent, SettleSlot, correlate, ByProviderId, ByEnvelope
    <3>2. CASE s = t
      <4>1. rows'[s] = Resolved(rows[s], q, type)
        BY <2>1, <3>1, <3>2 DEF TypeOK
      <4>2. rows[s].status # "unknown"
        OBVIOUS
      <4> QED
        BY <2>1, <4>1, <4>2, ResolvedRow
    <3>3. CASE s # t
      BY <2>1, <3>1, <3>3 DEF TypeOK
    <3> QED
      BY <3>2, <3>3
  <2>6. ASSUME NEW q \in Requests, ProviderStep(q)
        PROVE  rows'[s].status = rows[s].status
    BY <2>6 DEF ProviderStep, ProviderAccepts, ProviderDrops, ProviderRefuses,
                ProviderDecides
  <2>7. CASE UNCHANGED <<rows, usage, provider>>
    BY <2>7
  <2> QED
    BY <1>1, <2>2, <2>3, <2>4, <2>5, <2>6, <2>7, StepKinds
<1>2. TxInvariant /\ [Next]_vars => [\A s \in Slots : Stays(s)]_vars
  BY <1>1
<1> QED
  BY <1>2, Invariance, PTL DEF Spec, SettledStays

================================================================================
