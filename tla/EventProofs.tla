------------------------------ MODULE EventProofs ------------------------------
(***************************************************************************)
(* What EventRouting guarantees for any mail, events, keys and retry       *)
(* limits.  First, routed through D1 and the queue the events do to the    *)
(* object only what TransactionalSend allows, so everything proved there   *)
(* holds here.  Then D1: the status of a row that is sent or failed is     *)
(* final as long as its own send call is over, and nobody takes a snapshot *)
(* or mirrors a verdict before that; hence whatever D1 is told, however    *)
(* late, is still so.                                                      *)
(***************************************************************************)
EXTENDS EventRouting, TransactionalSendProofs

--------------------------------------------------------------------------------
(* The object's side: every step is a step of TransactionalSend, or none.  *)

LEMMA RoutingRefines == [RoutingNext]_allVars => [Next]_vars
<1> SUFFICES ASSUME [RoutingNext]_allVars PROVE [Next]_vars
  OBVIOUS
<1>1. ASSUME NEW q \in Requests, HandlerAnswers(q) PROVE [Next]_vars
  BY <1>1 DEF HandlerAnswers, Next, HandlerStep
<1>2. ASSUME OtherTxStep PROVE [Next]_vars
  BY <1>2 DEF OtherTxStep, Next, HandlerStep, AdminStep
<1>3. ASSUME NEW w \in writing, upsertTransactionalRequestLog(w) \/ LogWriteLost(w)
      PROVE  UNCHANGED vars
  BY <1>3 DEF upsertTransactionalRequestLog, LogWriteLost
<1>4. ASSUME NEW h \in HumanMails, OutboundSettles(h) PROVE UNCHANGED vars
  BY <1>4 DEF OutboundSettles
<1>5. ASSUME NEW e \in Event, Publish(e) \/ Bury(e) PROVE UNCHANGED vars
  BY <1>5 DEF Publish, Bury, handleDeadLetterQueue, TombstoneFails
<1>6. ASSUME NEW e \in Event, Consume(e) PROVE [Next]_vars
  <2>1. CASE ForwardTransactional(e)
    <3>1. DeliveryEvent(e[1], e[2]) /\ e[1] \in Requests /\ e[2] \in EventTypes
      BY <2>1, ConstantsAssumption DEF ForwardTransactional, Settle, DeliveryEvent
    <3>2. QED
      BY <3>1 DEF Next, EventStep
  <2>2. CASE ForwardHuman(e)
    <3>1. /\ AddressOf[e[1]] \in Recipients /\ e[2] \in Reports /\ e[2] \in EventTypes
          /\ addSuppression(AddressOf[e[1]], e[2])
          /\ UNCHANGED <<keyStatus, rows, usage, marker, events, callVars, window, provider>>
      BY <2>2, RoutingAssumption, ConstantsAssumption DEF ForwardHuman, Event, callVars
    <3>2. CASE classifyReason(e[2]) # "none" /\ suppression[AddressOf[e[1]]] = "none"
      BY <3>1, <3>2 DEF Next, EventStep, OutboundDeliveryEvent, callVars
    <3>3. CASE ~(classifyReason(e[2]) # "none" /\ suppression[AddressOf[e[1]]] = "none")
      BY <3>1, <3>3 DEF addSuppression, vars, storeVars, callVars
    <3>4. QED
      BY <3>2, <3>3
  <2>3. CASE ~ForwardTransactional(e) /\ ~ForwardHuman(e)
    BY <1>6, <2>3 DEF Consume, resolveMailboxIdFromEvent, Unresolved, ForwardAgain, ForwardRefused,
                      MirrorResolution, MirrorDelivery, MirrorSuppression, ConsumerFails
  <2>4. QED
    BY <2>1, <2>2, <2>3
<1>7. CASE UNCHANGED allVars
  BY <1>7 DEF allVars
<1>8. QED
  BY <1>1, <1>2, <1>3, <1>4, <1>5, <1>6, <1>7 DEF RoutingNext

LEMMA RoutingIsTx == RoutingSpec => Spec
<1>1. RoutingInit => Init
  BY DEF RoutingInit
<1>2. QED
  BY <1>1, RoutingRefines, PTL DEF RoutingSpec, Spec

\* What TransactionalSendProofs shows of the object holds here too.
LEMMA ObjectInvariance == RoutingSpec => []TxInvariant
BY RoutingIsTx, Invariance, PTL

--------------------------------------------------------------------------------
(* The inductive invariant.                                                *)

\* What D1 is told of request q, or will be: if it is an outcome, the row of
\* q has it.
Backed(q, status) ==
  status \in {"sent", "failed"} =>
    rows[Slot(q)].request = q /\ rows[Slot(q)].status = status

\* A row that is no longer pending is no longer being written by its send
\* call: routing leaves the reconciler out.
SendsOver ==
  \A s \in Slots :
    Reserved(s) /\ rows[s].status # "pending" => call[rows[s].request] # "sending"

\* Where one event may be, with what the consumer remembers of it.
EventAt(e, where, attempts, progress, request, outcome) ==
  /\ where \in QueueState /\ progress \in Stages
  /\ attempts \in 0 .. MaxRetries + DeadRetries + 2
  /\ request \in Requests \cup {NoRequest}
  /\ outcome \in {"nothing", "sent", "failed"}
  /\ progress # "idle" => where = "waiting"
  /\ where \in {"none", "waiting"} => attempts <= MaxRetries
  /\ where = "dead" => attempts <= MaxRetries + DeadRetries + 1
  /\ where = "acked" \/ progress \in {"settled", "dated", "suppressed"} => Recorded(e)
  /\ progress \in {"idle", "routed"} => outcome = "nothing"
  /\ outcome # "nothing" =>
       request \in Requests /\ e[1] \in Requests /\ Backed(request, outcome)

EventsSound ==
  \A e \in Event : EventAt(e, queue[e], tries[e], stage[e], hint[e], news[e])

LogSound ==
  /\ \A q \in Requests : Backed(q, log[q].status)
  /\ \A w \in writing : Backed(w[1], w[2].status)

RoutingIInv == RoutingTypeOK /\ SendsOver /\ EventsSound /\ LogSound

LEMMA RoutingStarts == RoutingInit /\ TypeOK => RoutingIInv
<1> SUFFICES ASSUME RoutingInit, TypeOK PROVE RoutingIInv
  OBVIOUS
<1>1. NoLog \in LogRow /\ NoLog.status = "none"
  BY DEF NoLog, LogRow, DeliveryStatus
<1>2. RoutingTypeOK
  BY <1>1, RoutingAssumption DEF RoutingInit, RoutingTypeOK, QueueState, Stages
<1>3. SendsOver
  BY ConstantsAssumption DEF RoutingInit, Init, SendsOver, Reserved, NoRow
<1>4. EventsSound
  BY <1>2, RoutingAssumption
  DEF RoutingInit, RoutingTypeOK, EventsSound, EventAt, Backed, QueueState, Stages
<1>5. LogSound
  BY <1>1 DEF RoutingInit, LogSound, Backed
<1> QED
  BY <1>2, <1>3, <1>4, <1>5 DEF RoutingIInv

--------------------------------------------------------------------------------
(* The object's rows.                                                      *)

\* What SettledStays says of one step.
RowsFinal ==
  \A s \in Slots :
    /\ Reserved(s)
    /\ rows[s].status \in {"sent", "failed"}
    /\ call[rows[s].request] # "sending"
    => /\ rows'[s].status = rows[s].status
       /\ rows'[s].request = rows[s].request

\* An outcome the row of q has, it keeps.
LEMMA BackedStays ==
  ASSUME SendsOver, RowsFinal, NEW q \in Requests, NEW status, Backed(q, status)
  PROVE  Backed(q, status)'
<1>1. Slot(q) \in Slots
  BY SlotTyped
<1>2. SUFFICES ASSUME status \in {"sent", "failed"}
               PROVE  rows'[Slot(q)].request = q /\ rows'[Slot(q)].status = status
  BY DEF Backed
<1>3. rows[Slot(q)].request = q /\ rows[Slot(q)].status = status /\ Reserved(Slot(q))
  BY <1>2, ConstantsAssumption DEF Backed, Reserved
<1>4. call[rows[Slot(q)].request] # "sending"
  BY <1>1, <1>2, <1>3 DEF SendsOver
<1> QED
  BY <1>1, <1>2, <1>3, <1>4 DEF RowsFinal

\* The ledgers of the object are never cleared.
LedgersGrow == events \subseteq events' /\ humanSeen \subseteq humanSeen'

\* An event the step did not touch is where it was.
LEMMA EventRests ==
  ASSUME SendsOver, RowsFinal, LedgersGrow, NEW e \in Event,
         NEW where, NEW attempts, NEW progress, NEW request, NEW outcome,
         EventAt(e, where, attempts, progress, request, outcome)
  PROVE  EventAt(e, where, attempts, progress, request, outcome)'
<1>1. Recorded(e) => Recorded(e)'
  BY DEF LedgersGrow, Recorded
<1>2. outcome # "nothing" => Backed(request, outcome)'
  BY BackedStays DEF EventAt
<1> QED
  BY <1>1, <1>2 DEF EventAt

QueueTyped ==
  /\ queue \in [Event -> QueueState]
  /\ tries \in [Event -> 0 .. MaxRetries + DeadRetries + 2]
  /\ stage \in [Event -> Stages]
  /\ hint \in [Event -> Requests \cup {NoRequest}]
  /\ news \in [Event -> {"nothing", "sent", "failed"}]

\* One event moves, the others rest.
LEMMA EventMoves ==
  ASSUME QueueTyped, EventsSound, SendsOver, RowsFinal, LedgersGrow, NEW e \in Event,
         NEW where, NEW attempts, NEW progress, NEW request, NEW outcome,
         EventAt(e, where, attempts, progress, request, outcome)',
         queue' = [queue EXCEPT ![e] = where],
         tries' = [tries EXCEPT ![e] = attempts],
         stage' = [stage EXCEPT ![e] = progress],
         hint' = [hint EXCEPT ![e] = request],
         news' = [news EXCEPT ![e] = outcome]
  PROVE  QueueTyped' /\ EventsSound'
<1>1. /\ where \in QueueState /\ progress \in Stages
      /\ attempts \in 0 .. MaxRetries + DeadRetries + 2
      /\ request \in Requests \cup {NoRequest}
      /\ outcome \in {"nothing", "sent", "failed"}
  BY DEF EventAt
<1>2. QueueTyped'
  BY <1>1 DEF QueueTyped
<1>3. ASSUME NEW x \in Event
      PROVE  EventAt(x, queue[x], tries[x], stage[x], hint[x], news[x])'
  <2>1. CASE x = e
    <3>1. /\ queue'[x] = where /\ tries'[x] = attempts /\ stage'[x] = progress
          /\ hint'[x] = request /\ news'[x] = outcome
      BY <2>1 DEF QueueTyped
    <3>2. QED
      BY <2>1, <3>1 DEF EventAt, Recorded, Backed
  <2>2. CASE x # e
    <3>1. /\ queue'[x] = queue[x] /\ tries'[x] = tries[x] /\ stage'[x] = stage[x]
          /\ hint'[x] = hint[x] /\ news'[x] = news[x]
      BY <2>2 DEF QueueTyped
    <3>2. PICK qx, tx, gx, hx, nx :
            qx = queue[x] /\ tx = tries[x] /\ gx = stage[x] /\ hx = hint[x] /\ nx = news[x]
      OBVIOUS
    <3>3. EventAt(x, qx, tx, gx, hx, nx)
      BY <3>2 DEF EventsSound
    <3>4. EventAt(x, qx, tx, gx, hx, nx)'
      BY <3>3, EventRests
    <3>5. QED
      BY <3>1, <3>2, <3>4 DEF EventAt, Recorded, Backed
  <2>3. QED
    BY <2>1, <2>2
<1> QED
  BY <1>2, <1>3 DEF EventsSound

\* Nothing moves in the queue.
LEMMA EventsRest ==
  ASSUME QueueTyped, EventsSound, SendsOver, RowsFinal, LedgersGrow,
         UNCHANGED queueVars
  PROVE  QueueTyped' /\ EventsSound'
<1>1. QueueTyped'
  BY DEF QueueTyped, queueVars
<1>2. ASSUME NEW x \in Event
      PROVE  EventAt(x, queue[x], tries[x], stage[x], hint[x], news[x])'
  <2>1. PICK qx, tx, gx, hx, nx :
          qx = queue[x] /\ tx = tries[x] /\ gx = stage[x] /\ hx = hint[x] /\ nx = news[x]
    OBVIOUS
  <2>2. EventAt(x, qx, tx, gx, hx, nx)
    BY <2>1 DEF EventsSound
  <2>3. EventAt(x, qx, tx, gx, hx, nx)'
    BY <2>2, EventRests
  <2> QED
    BY <2>1, <2>3 DEF EventAt, Recorded, Backed, queueVars
<1> QED
  BY <1>1, <1>2 DEF EventsSound

--------------------------------------------------------------------------------
(* The object's own steps.                                                 *)

\* Who owns a row, in every state the object can be in.
LEMMA OwnRow ==
  ASSUME TxInvariant, NEW s \in Slots, Reserved(s)
  PROVE  /\ rows[s] \in Row /\ rows[s].request \in Requests
         /\ Slot(rows[s].request) = s
  BY DEF TxInvariant, TypeOK, RowOwner, Reserved, Row

\* Slots whose row keeps its request, and is past pending only if it was.
LEMMA SendsOverStays ==
  ASSUME SendsOver,
         \A s \in Slots : /\ rows'[s].request = rows[s].request
                          /\ rows'[s].status # "pending" => rows[s].status # "pending",
         \A q \in Requests : call'[q] = "sending" => call[q] = "sending",
         TxInvariant
  PROVE  SendsOver'
<1> SUFFICES ASSUME NEW s \in Slots, Reserved(s)', rows'[s].status # "pending"
             PROVE  call'[rows'[s].request] # "sending"
  BY DEF SendsOver
<1>1. Reserved(s) /\ rows[s].status # "pending"
  BY DEF Reserved
<1>2. rows[s].request \in Requests
  BY <1>1, OwnRow
<1> QED
  BY <1>1, <1>2 DEF SendsOver

LEMMA SettlingIsOver ==
  ASSUME TxInvariant, SendsOver, NEW q \in Requests, SendSettles(q)
  PROVE  /\ SendsOver'
         /\ rows'[Slot(q)].request = q
<1>0. Slot(q) \in Slots /\ TypeOK
  BY SlotTyped DEF TxInvariant
<1>1. /\ call[q] = "sending" /\ call' = [call EXCEPT ![q] = "answered"]
  BY DEF SendSettles, SendReturns, SendAmbiguous, SendRefused, Answer
<1>2. PICK status \in RowStatus, mail \in Requests \cup {NoRequest} :
        SettleRow(q, status, mail)
  BY DEF SendSettles, SendReturns, SendAmbiguous, SendRefused, RowStatus
<1>3. \A s \in Slots :
        /\ rows'[s].request = rows[s].request
        /\ ~(s = Slot(q) /\ rows[s].request = q) => rows'[s] = rows[s]
  BY <1>0, <1>2, SettledRows
<1>4. rows[Slot(q)].request = q
  BY <1>1 DEF TxInvariant, CallMatchesProvider, AtMostOneMail
<1>5. ASSUME NEW s \in Slots, Reserved(s)', rows'[s].status # "pending"
      PROVE  call'[rows'[s].request] # "sending"
  <2>1. Reserved(s) /\ rows[s].request \in Requests
    BY <1>3, <1>5, OwnRow DEF Reserved
  <2>2. CASE rows[s].request = q
    BY <1>0, <1>1, <1>3, <2>1, <2>2 DEF TypeOK
  <2>3. CASE rows[s].request # q
    <3>1. call[rows[s].request] # "sending"
      BY <1>3, <1>5, <2>1, <2>3 DEF SendsOver
    <3>2. QED
      BY <1>0, <1>1, <1>3, <2>1, <2>3, <3>1 DEF TypeOK
  <2>4. QED
    BY <2>2, <2>3
<1> QED
  BY <1>0, <1>3, <1>4, <1>5 DEF SendsOver

LEMMA ReservingIsPending ==
  ASSUME TxInvariant, SendsOver, NEW q \in Requests, Reserve(q)
  PROVE  SendsOver'
<1>0. Slot(q) \in Slots /\ TypeOK
  BY SlotTyped DEF TxInvariant
<1>1. PICK w \in Windows : w = window
  BY <1>0 DEF TypeOK
<1> DEFINE row == [NoRow EXCEPT !.request = q, !.window = w]
<1>2. row.request = q /\ row.status = "pending"
  BY DEF NoRow
<1>3. /\ rows' = [rows EXCEPT ![Slot(q)] = row] /\ ~Reserved(Slot(q))
      /\ call' = [call EXCEPT ![q] = "sending"]
  BY <1>1 DEF Reserve, Goto
<1> HIDE DEF row
<1> SUFFICES ASSUME NEW s \in Slots, Reserved(s)', rows'[s].status # "pending"
             PROVE  call'[rows'[s].request] # "sending"
  BY DEF SendsOver
<1>4. s # Slot(q) /\ rows'[s] = rows[s]
  BY <1>0, <1>2, <1>3 DEF TypeOK
<1>5. Reserved(s) /\ rows[s].request \in Requests /\ rows[s].request # q
  BY <1>4, OwnRow DEF Reserved
<1>6. call[rows[s].request] # "sending"
  BY <1>4, <1>5 DEF SendsOver
<1> QED
  BY <1>0, <1>3, <1>4, <1>5, <1>6 DEF TypeOK

\* What an event settles, and what the consumer learns of it.
LEMMA EventSettles ==
  ASSUME TxInvariant, SendsOver, NEW q \in Requests, NEW type \in EventTypes,
         DeliveryEvent(q, type), NEW s \in correlate(q), SettleSlot(s, q, type),
         NEW request, request = rows[s].request
  PROVE  /\ SendsOver'
         /\ request \in Requests
         /\ rows[s].status = "unknown" => Backed(request, statusProvenBy(type))'
<1>1. s \in Slots /\ Reserved(s) /\ TypeOK
  BY DEF correlate, ByProviderId, ByEnvelope, TxInvariant
<1>2. rows[s] \in Row /\ rows[s].request \in Requests /\ Slot(rows[s].request) = s
  BY <1>1, OwnRow
<1>3. PICK row, new : row = rows[s] /\ new = Resolved(row, q, type)
  OBVIOUS
<1>4. /\ rows' = [rows EXCEPT ![s] = new]
      /\ call' = call
  BY <1>3 DEF SettleSlot, DeliveryEvent, callVars
<1>5. /\ new.request = row.request
      /\ row.status # "unknown" => new.status = row.status
  BY <1>2, <1>3, ResolvedRow
<1>6. row.status = "unknown" /\ statusProvenBy(type) # "nothing"
        => new.status = statusProvenBy(type)
  BY <1>2, <1>3 DEF Resolved, Row
<1>7. rows'[s] = new /\ \A t \in Slots : t # s => rows'[t] = rows[t]
  BY <1>1, <1>4 DEF TypeOK
<1>8. SendsOver'
  BY <1>3, <1>4, <1>5, <1>7, SendsOverStays
<1>9. ASSUME rows[s].status = "unknown"
      PROVE  Backed(request, statusProvenBy(type))'
  BY <1>2, <1>3, <1>5, <1>6, <1>7, <1>9 DEF Backed
<1> QED
  BY <1>2, <1>8, <1>9

--------------------------------------------------------------------------------
(* Every step of the routing keeps the invariant.                          *)

TablesTyped ==
  /\ log \in [Requests -> LogRow]
  /\ writing \subseteq Requests \X LogRow
  /\ outbound \subseteq HumanMails
  /\ mirror \in [Recipients -> {"none", "hard_bounce", "complaint"}]
  /\ humanSeen \subseteq HumanMails \X EventTypes
  /\ reported \in Traffic

LEMMA TypesSplit == RoutingTypeOK <=> TablesTyped /\ QueueTyped
BY DEF RoutingTypeOK, TablesTyped, QueueTyped

\* What D1 was told stays so while nobody writes the log.
LEMMA LogRests ==
  ASSUME LogSound, TablesTyped, SendsOver, RowsFinal, log' = log, writing' \subseteq writing
  PROVE  LogSound'
<1>1. ASSUME NEW q \in Requests PROVE Backed(q, log[q].status)'
  <2>1. PICK status : status = log[q].status
    OBVIOUS
  <2>2. Backed(q, status)'
    BY <2>1, BackedStays DEF LogSound
  <2> QED
    BY <2>1, <2>2 DEF Backed
<1>2. ASSUME NEW w \in writing' PROVE Backed(w[1], w[2].status)'
  <2>1. w \in writing /\ w[1] \in Requests
    BY DEF TablesTyped
  <2>2. Backed(w[1], w[2].status)
    BY <2>1 DEF LogSound
  <2> QED
    BY <2>1, <2>2, BackedStays
<1> QED
  BY <1>1, <1>2 DEF LogSound

\* One row of the log changes, to a status that is so.
LEMMA LogMoves ==
  ASSUME LogSound, TablesTyped, SendsOver, RowsFinal, NEW q \in Requests,
         NEW row \in LogRow, log' = [log EXCEPT ![q] = row], Backed(q, row.status)',
         writing' \subseteq writing
  PROVE  LogSound' /\ log' \in [Requests -> LogRow]
<1>1. ASSUME NEW p \in Requests PROVE Backed(p, log[p].status)'
  <2>1. PICK status : status = log[p].status
    OBVIOUS
  <2>2. Backed(p, status)'
    BY <2>1, BackedStays DEF LogSound
  <2>3. CASE p = q
    BY <2>3 DEF Backed, TablesTyped
  <2>4. CASE p # q
    BY <2>1, <2>2, <2>4 DEF Backed, TablesTyped
  <2> QED
    BY <2>3, <2>4
<1>2. ASSUME NEW w \in writing' PROVE Backed(w[1], w[2].status)'
  <2>1. w \in writing /\ w[1] \in Requests
    BY DEF TablesTyped
  <2>2. Backed(w[1], w[2].status)
    BY <2>1 DEF LogSound
  <2> QED
    BY <2>1, <2>2, BackedStays
<1> QED
  BY <1>1, <1>2 DEF LogSound, TablesTyped

\* What every lemma below starts from.
Setting == RoutingIInv /\ TxInvariant /\ TxInvariant' /\ RowsFinal

LEMMA SettingParts ==
  ASSUME Setting
  PROVE  /\ TablesTyped /\ QueueTyped /\ SendsOver /\ EventsSound /\ LogSound
         /\ TypeOK /\ TypeOK' /\ RowsFinal /\ TxInvariant
BY TypesSplit DEF Setting, RoutingIInv, TxInvariant

\* A handler answers: the snapshot it leaves is true now.
LEMMA AnswerKeeps ==
  ASSUME Setting, NEW q \in Requests, HandlerAnswers(q)
  PROVE  RoutingIInv'
<1>0. /\ TablesTyped /\ QueueTyped /\ SendsOver /\ EventsSound /\ LogSound
      /\ TypeOK /\ TypeOK' /\ RowsFinal /\ TxInvariant
  BY SettingParts
<1>1. Slot(q) \in Slots
  BY SlotTyped
<1>2. SendsOver'
  <2>1. CASE SendSettles(q)
    BY <1>0, <2>1, SettlingIsOver
  <2>2. CASE Compare(q)
    <3>1. rows' = rows /\ call' = [call EXCEPT ![q] = "answered"]
      BY <2>2 DEF Compare, Answer, storeVars
    <3>2. QED
      BY <1>0, <3>1, SendsOverStays DEF TypeOK
  <2>3. QED
    BY <2>1, <2>2 DEF HandlerAnswers
<1>3. UNCHANGED <<d1Vars, ledgerVars, queueVars>> /\ ProjectAnswer(q)
  BY DEF HandlerAnswers
<1>4. UNCHANGED events
  BY DEF HandlerAnswers, SendSettles, SendReturns, SendAmbiguous, SendRefused, Compare, storeVars
<1>5. QueueTyped' /\ EventsSound'
  BY <1>0, <1>3, <1>4, EventsRest DEF LedgersGrow, ledgerVars
<1>6. LogSound' /\ writing' \subseteq Requests \X LogRow
  <2>1. CASE answer'[q] \in {"sent", "permanent_failure", "unknown"}
    <3>1. PICK row : row = rows'[Slot(q)]
      OBVIOUS
    <3>2. row.request # NoRequest /\ row \in Row
      BY <1>0, <1>1, <2>1, <3>1 DEF Setting, TxInvariant, AnswerIsTrue, TypeOK
    <3>3. row.request \in Requests /\ Slot(row.request) = Slot(q)
      BY <1>1, <3>1, <3>2 DEF Setting, TxInvariant, RowOwner, Reserved, Row
    <3>4. writing' = writing \cup {<<row.request, Snapshot(row)>>}
      BY <1>3, <2>1, <3>1 DEF ProjectAnswer
    <3>5. Snapshot(row) \in LogRow /\ Snapshot(row).status = row.status
      BY <3>2 DEF Snapshot, LogRow, Row
    <3>6. Backed(row.request, Snapshot(row).status)'
      BY <3>1, <3>3, <3>5 DEF Backed
    <3>7. log' = log
      BY <1>3 DEF d1Vars
    <3>8. ASSUME NEW w \in writing' PROVE Backed(w[1], w[2].status)'
      <4>1. CASE w \in writing
        <5>1. w[1] \in Requests /\ Backed(w[1], w[2].status)
          BY <1>0, <4>1 DEF TablesTyped, LogSound
        <5> QED
          BY <1>0, <5>1, BackedStays
      <4>2. CASE w = <<row.request, Snapshot(row)>>
        BY <3>6, <4>2
      <4> QED
        BY <3>4, <4>1, <4>2
    <3>9. ASSUME NEW p \in Requests PROVE Backed(p, log[p].status)'
      <4>1. PICK status : status = log[p].status
        OBVIOUS
      <4>2. Backed(p, status)'
        BY <1>0, <4>1, BackedStays DEF LogSound
      <4> QED
        BY <3>7, <4>1, <4>2 DEF Backed
    <3> QED
      BY <1>0, <3>3, <3>4, <3>5, <3>8, <3>9 DEF LogSound, TablesTyped
  <2>2. CASE ~(answer'[q] \in {"sent", "permanent_failure", "unknown"})
    BY <1>0, <1>3, <2>2, LogRests DEF ProjectAnswer, TablesTyped, d1Vars
  <2> QED
    BY <2>1, <2>2
<1>7. TablesTyped'
  BY <1>0, <1>3, <1>6 DEF TablesTyped, d1Vars, ledgerVars
<1> QED
  BY <1>2, <1>5, <1>6, <1>7, TypesSplit DEF RoutingIInv, RoutingTypeOK, TablesTyped, QueueTyped

\* The object is left alone.
LEMMA ObjectRests ==
  ASSUME Setting, UNCHANGED vars
  PROVE  SendsOver' /\ events' = events
BY SettingParts DEF vars, storeVars, SendsOver, Reserved, callVars

\* The object works, and nothing of it is routed.
LEMMA OtherTxKeeps ==
  ASSUME Setting, OtherTxStep
  PROVE  RoutingIInv'
<1>0. /\ TablesTyped /\ QueueTyped /\ SendsOver /\ EventsSound /\ LogSound
      /\ TypeOK /\ TypeOK' /\ RowsFinal /\ TxInvariant
  BY SettingParts
<1>1. UNCHANGED routingVars
  BY DEF OtherTxStep
<1>2. SendsOver' /\ UNCHANGED events
  <2>1. CASE \E q \in Requests : Reserve(q)
    BY <1>0, <2>1, ReservingIsPending DEF Reserve
  <2>2. CASE \E q \in Requests :
               \/ \E p \in Payloads : ReadKey(q, p)
               \/ Refuse(q) \/ Authorize(q) \/ CheckSuppression(q)
               \/ FindExisting(q) \/ OverQuota(q)
    <3>1. PICK q \in Requests :
               \/ \E p \in Payloads : ReadKey(q, p)
               \/ Refuse(q) \/ Authorize(q) \/ CheckSuppression(q)
               \/ FindExisting(q) \/ OverQuota(q)
      BY <2>2
    <3>2. UNCHANGED <<rows, events>>
      BY <3>1 DEF ReadKey, Refuse, Authorize, CheckSuppression, FindExisting, OverQuota, storeVars
    <3>3. \E phase \in CallState \ {"sending"} : call' = [call EXCEPT ![q] = phase]
      BY <3>1 DEF ReadKey, Refuse, Authorize, CheckSuppression, FindExisting, OverQuota,
                  Goto, Answer, CallState
    <3>4. \A p \in Requests : call'[p] = "sending" => call[p] = "sending"
      BY <1>0, <3>3 DEF TypeOK
    <3>5. QED
      BY <1>0, <3>2, <3>4, SendsOverStays
  <2>3. CASE (\E q \in Requests : ProviderStep(q)) \/ \E r \in Recipients : RemoveSuppression(r)
    <3>1. UNCHANGED <<rows, events, call>>
      BY <2>3 DEF ProviderStep, ProviderAccepts, ProviderDrops, ProviderRefuses, ProviderDecides,
                  RemoveSuppression, storeVars, callVars
    <3>2. QED
      BY <1>0, <3>1, SendsOverStays
  <2>4. QED
    BY <2>1, <2>2, <2>3 DEF OtherTxStep
<1>3. QueueTyped' /\ EventsSound'
  BY <1>0, <1>1, <1>2, EventsRest DEF LedgersGrow, routingVars
<1>4. LogSound'
  BY <1>0, <1>1, LogRests DEF routingVars
<1>5. TablesTyped'
  BY <1>0, <1>1 DEF TablesTyped, routingVars
<1> QED
  BY <1>2, <1>3, <1>4, <1>5, TypesSplit
  DEF RoutingIInv, RoutingTypeOK, TablesTyped, QueueTyped

\* A late write of the log, or none.
LEMMA LateWriteKeeps ==
  ASSUME Setting, NEW w \in writing,
         upsertTransactionalRequestLog(w) \/ LogWriteLost(w)
  PROVE  RoutingIInv'
<1>0. /\ TablesTyped /\ QueueTyped /\ SendsOver /\ EventsSound /\ LogSound
      /\ TypeOK /\ TypeOK' /\ RowsFinal /\ TxInvariant
  BY SettingParts
<1>1. /\ UNCHANGED <<vars, outbound, mirror, ledgerVars, queueVars>>
      /\ writing' \subseteq writing
  BY DEF upsertTransactionalRequestLog, LogWriteLost, d1Vars
<1>2. SendsOver' /\ UNCHANGED events
  BY <1>1, ObjectRests
<1>3. QueueTyped' /\ EventsSound'
  BY <1>0, <1>1, <1>2, EventsRest DEF LedgersGrow, ledgerVars
<1>4. LogSound' /\ log' \in [Requests -> LogRow]
  <2>1. CASE upsertTransactionalRequestLog(w)
    <3>1. w[1] \in Requests /\ w[2] \in LogRow /\ Backed(w[1], w[2].status)
      BY <1>0 DEF TablesTyped, LogSound
    <3>2. Backed(w[1], w[2].status)'
      BY <1>0, <3>1, BackedStays
    <3>3. log' = [log EXCEPT ![w[1]] = w[2]]
      BY <2>1 DEF upsertTransactionalRequestLog
    <3>4. QED
      BY <1>0, <1>1, <3>1, <3>2, <3>3, LogMoves
  <2>2. CASE LogWriteLost(w)
    BY <1>0, <1>1, <2>2, LogRests DEF LogWriteLost, d1Vars, TablesTyped
  <2>3. QED
    BY <2>1, <2>2
<1>5. TablesTyped'
  BY <1>0, <1>1, <1>4 DEF TablesTyped, ledgerVars
<1> QED
  BY <1>2, <1>3, <1>4, <1>5, TypesSplit
  DEF RoutingIInv, RoutingTypeOK, TablesTyped, QueueTyped

\* The send saga notes a provider id.
LEMMA OutboundKeeps ==
  ASSUME Setting, NEW h \in HumanMails, OutboundSettles(h)
  PROVE  RoutingIInv'
<1>0. /\ TablesTyped /\ QueueTyped /\ SendsOver /\ EventsSound /\ LogSound
      /\ TypeOK /\ TypeOK' /\ RowsFinal /\ TxInvariant
  BY SettingParts
<1>1. /\ UNCHANGED <<vars, log, writing, mirror, ledgerVars, queueVars>>
      /\ outbound' = outbound \cup {h}
  BY DEF OutboundSettles
<1>2. SendsOver' /\ UNCHANGED events
  BY <1>1, ObjectRests
<1>3. QueueTyped' /\ EventsSound'
  BY <1>0, <1>1, <1>2, EventsRest DEF LedgersGrow, ledgerVars
<1>4. LogSound'
  BY <1>0, <1>1, LogRests
<1>5. TablesTyped'
  BY <1>0, <1>1 DEF TablesTyped, ledgerVars
<1> QED
  BY <1>2, <1>3, <1>4, <1>5, TypesSplit
  DEF RoutingIInv, RoutingTypeOK, TablesTyped, QueueTyped

--------------------------------------------------------------------------------
(* One event moves and the object is left alone.                           *)

\* A function is itself with one of its own values.
LEMMA SameThere ==
  ASSUME QueueTyped, NEW e \in Event
  PROVE  /\ queue = [queue EXCEPT ![e] = queue[e]]
         /\ tries = [tries EXCEPT ![e] = tries[e]]
         /\ stage = [stage EXCEPT ![e] = stage[e]]
         /\ hint = [hint EXCEPT ![e] = hint[e]]
         /\ news = [news EXCEPT ![e] = news[e]]
BY DEF QueueTyped

LEMMA ConsumerKeeps ==
  ASSUME Setting, NEW e \in Event, UNCHANGED <<vars, ledgerVars>>,
         NEW where, NEW attempts, NEW progress, NEW request, NEW outcome,
         EventAt(e, where, attempts, progress, request, outcome),
         queue' = [queue EXCEPT ![e] = where],
         tries' = [tries EXCEPT ![e] = attempts],
         stage' = [stage EXCEPT ![e] = progress],
         hint' = [hint EXCEPT ![e] = request],
         news' = [news EXCEPT ![e] = outcome],
         TablesTyped', LogSound'
  PROVE  RoutingIInv'
<1>0. /\ TablesTyped /\ QueueTyped /\ SendsOver /\ EventsSound /\ LogSound
      /\ TypeOK /\ TypeOK' /\ RowsFinal /\ TxInvariant
  BY SettingParts
<1>1. SendsOver' /\ UNCHANGED events
  BY ObjectRests
<1>2. LedgersGrow
  BY <1>1 DEF LedgersGrow, ledgerVars
<1>3. EventAt(e, where, attempts, progress, request, outcome)'
  BY <1>0, <1>2, EventRests
<1>4. QueueTyped' /\ EventsSound'
  BY <1>0, <1>2, <1>3, EventMoves
<1> QED
  BY <1>1, <1>4, TypesSplit DEF RoutingIInv, RoutingTypeOK, TablesTyped, QueueTyped

\* The tables of D1 stay as they are.
LEMMA TablesRest ==
  ASSUME Setting, UNCHANGED <<writing, d1Vars, ledgerVars>>
  PROVE  TablesTyped' /\ LogSound'
<1>0. TablesTyped /\ SendsOver /\ LogSound /\ RowsFinal
  BY SettingParts
<1>1. LogSound'
  BY <1>0, LogRests DEF d1Vars
<1> QED
  BY <1>0, <1>1 DEF TablesTyped, d1Vars, ledgerVars

\* Another attempt, or the dead-letter queue.
LEMMA RetryKeeps ==
  ASSUME Setting, NEW e \in Event, Retry(e), queue[e] = "waiting",
         UNCHANGED <<vars, writing, d1Vars, ledgerVars>>
  PROVE  RoutingIInv'
<1>0. QueueTyped /\ EventsSound
  BY SettingParts
<1>1. PICK where, attempts :
        /\ where = IF tries[e] = MaxRetries THEN "dead" ELSE "waiting"
        /\ attempts = tries[e] + 1
  OBVIOUS
<1>2. EventAt(e, where, attempts, "idle", NoRequest, "nothing")
  <2>1. EventAt(e, queue[e], tries[e], stage[e], hint[e], news[e])
    BY <1>0 DEF EventsSound
  <2>2. tries[e] \in Nat /\ tries[e] <= MaxRetries
    BY <2>1 DEF EventAt
  <2> QED
    BY <1>1, <2>2, RoutingAssumption DEF EventAt, QueueState, Stages
<1>3. /\ queue' = [queue EXCEPT ![e] = where]
      /\ tries' = [tries EXCEPT ![e] = attempts]
      /\ stage' = [stage EXCEPT ![e] = "idle"]
      /\ hint' = [hint EXCEPT ![e] = NoRequest]
      /\ news' = [news EXCEPT ![e] = "nothing"]
  BY <1>0, <1>1 DEF Retry, QueueTyped
<1> QED
  BY <1>2, <1>3, TablesRest, ConsumerKeeps

LEMMA BusyWaits ==
  ASSUME Setting, NEW e \in Event, Receivable(e) \/ Busy(e)
  PROVE  queue[e] = "waiting"
BY SettingParts DEF Receivable, Busy, EventsSound, EventAt

LEMMA RetryingKeeps ==
  ASSUME Setting, NEW e \in Event,
         Unresolved(e) \/ ForwardRefused(e) \/ ConsumerFails(e)
  PROVE  RoutingIInv'
<1>1. Receivable(e) \/ Busy(e)
  BY DEF Unresolved, ForwardRefused, ConsumerFails, Busy
<1>2. Retry(e) /\ UNCHANGED <<vars, writing, d1Vars, ledgerVars>>
  BY DEF Unresolved, ForwardRefused, ConsumerFails
<1> QED
  BY <1>1, <1>2, BusyWaits, RetryKeeps

\* The provider publishes, the dead-letter queue gives up or not.
LEMMA QueueKeeps ==
  ASSUME Setting, NEW e \in Event, Publish(e) \/ Bury(e)
  PROVE  RoutingIInv'
<1>0. QueueTyped /\ EventsSound
  BY SettingParts
<1>1. PICK q, t, g, h, n :
        q = queue[e] /\ t = tries[e] /\ g = stage[e] /\ h = hint[e] /\ n = news[e]
  OBVIOUS
<1>2. EventAt(e, q, t, g, h, n)
  BY <1>0, <1>1 DEF EventsSound
<1>3. /\ queue = [queue EXCEPT ![e] = q] /\ tries = [tries EXCEPT ![e] = t]
      /\ stage = [stage EXCEPT ![e] = g] /\ hint = [hint EXCEPT ![e] = h]
      /\ news = [news EXCEPT ![e] = n]
  BY <1>0, <1>1, SameThere
<1>4. UNCHANGED <<vars, writing, d1Vars, ledgerVars, stage, hint, news>>
  BY DEF Publish, Bury, handleDeadLetterQueue, TombstoneFails
<1>5. PICK where, attempts :
        /\ queue' = [queue EXCEPT ![e] = where]
        /\ tries' = [tries EXCEPT ![e] = attempts]
        /\ EventAt(e, where, attempts, g, h, n)
  <2>1. CASE Publish(e)
    <3>1. q = "none" /\ queue' = [queue EXCEPT ![e] = "waiting"] /\ tries' = tries
      BY <1>1, <2>1 DEF Publish
    <3>2. EventAt(e, "waiting", t, g, h, n)
      BY <1>2, <3>1 DEF EventAt, QueueState
    <3> QED
      BY <1>3, <3>1, <3>2
  <2>2. CASE handleDeadLetterQueue(e)
    <3>1. q = "dead" /\ queue' = [queue EXCEPT ![e] = "buried"] /\ tries' = tries
      BY <1>1, <2>2 DEF handleDeadLetterQueue
    <3>2. EventAt(e, "buried", t, g, h, n)
      BY <1>2, <3>1 DEF EventAt, QueueState
    <3> QED
      BY <1>3, <3>1, <3>2
  <2>3. CASE TombstoneFails(e)
    <3>1. PICK where : where = IF t = MaxRetries + DeadRetries + 1 THEN "lost" ELSE q
      OBVIOUS
    <3>2. /\ q = "dead" /\ tries' = [tries EXCEPT ![e] = t + 1]
          /\ queue' = [queue EXCEPT ![e] = where]
      BY <1>0, <1>1, <2>3, <3>1 DEF TombstoneFails, QueueTyped
    <3>3. t \in Nat /\ t <= MaxRetries + DeadRetries + 1
      BY <1>2, <3>2 DEF EventAt
    <3>4. EventAt(e, where, t + 1, g, h, n)
      BY <1>2, <3>1, <3>2, <3>3, RoutingAssumption DEF EventAt, QueueState
    <3> QED
      BY <3>2, <3>4
  <2> QED
    BY <2>1, <2>2, <2>3 DEF Bury
<1> QED
  <2>1. /\ stage' = [stage EXCEPT ![e] = g] /\ hint' = [hint EXCEPT ![e] = h]
        /\ news' = [news EXCEPT ![e] = n]
    BY <1>3, <1>4
  <2>2. UNCHANGED <<vars, ledgerVars>> /\ UNCHANGED <<writing, d1Vars, ledgerVars>>
    BY <1>4
  <2>3. TablesTyped' /\ LogSound'
    BY <2>2, TablesRest
  <2> QED
    BY <1>5, <2>1, <2>2, <2>3, ConsumerKeeps

\* A mailbox is found, or the object has the event already.
LEMMA RouteKeeps ==
  ASSUME Setting, NEW e \in Event, resolveMailboxIdFromEvent(e) \/ ForwardAgain(e)
  PROVE  RoutingIInv'
<1>0. QueueTyped /\ EventsSound
  BY SettingParts
<1>1. PICK q, t, g, h, n :
        q = queue[e] /\ t = tries[e] /\ g = stage[e] /\ h = hint[e] /\ n = news[e]
  OBVIOUS
<1>2. EventAt(e, q, t, g, h, n)
  BY <1>0, <1>1 DEF EventsSound
<1>3. /\ queue = [queue EXCEPT ![e] = q] /\ tries = [tries EXCEPT ![e] = t]
      /\ hint = [hint EXCEPT ![e] = h] /\ news = [news EXCEPT ![e] = n]
  BY <1>0, <1>1, SameThere
<1>4. UNCHANGED <<vars, ledgerVars, writing, d1Vars, queue, tries, news>>
  BY DEF resolveMailboxIdFromEvent, ForwardAgain
<1>5. PICK progress, request :
        /\ stage' = [stage EXCEPT ![e] = progress]
        /\ hint' = [hint EXCEPT ![e] = request]
        /\ EventAt(e, q, t, progress, request, n)
  <2>1. CASE resolveMailboxIdFromEvent(e)
    <3>1. PICK request \in Requests \cup {NoRequest} : hint' = [hint EXCEPT ![e] = request]
      BY <2>1 DEF resolveMailboxIdFromEvent, Routes, lookupTransactionalRequestByProviderMessageId,
                  lookupUnresolvedTransactionalRequestsByEnvelope
    <3>2. q = "waiting" /\ stage' = [stage EXCEPT ![e] = "routed"] /\ n = "nothing"
      <4>1. q = "waiting" /\ g = "idle" /\ stage' = [stage EXCEPT ![e] = "routed"]
        BY <1>1, <2>1 DEF resolveMailboxIdFromEvent, Receivable, Busy
      <4>2. n = "nothing"
        BY <1>2, <4>1 DEF EventAt
      <4> QED
        BY <4>1, <4>2
    <3>3. EventAt(e, q, t, "routed", request, n)
      BY <1>2, <3>2 DEF EventAt, Stages
    <3> QED
      BY <3>1, <3>2, <3>3
  <2>2. CASE ForwardAgain(e)
    <3>1. /\ g = "routed" /\ Recorded(e) /\ stage' = [stage EXCEPT ![e] = "settled"]
          /\ hint' = hint
      BY <1>1, <2>2 DEF ForwardAgain
    <3>2. EventAt(e, q, t, "settled", h, n)
      BY <1>2, <3>1 DEF EventAt, Stages
    <3> QED
      BY <1>3, <3>1, <3>2
  <2> QED
    BY <2>1, <2>2
<1> QED
  <2>1. /\ queue' = [queue EXCEPT ![e] = q] /\ tries' = [tries EXCEPT ![e] = t]
        /\ news' = [news EXCEPT ![e] = n]
    BY <1>3, <1>4
  <2>2. UNCHANGED <<vars, ledgerVars>> /\ UNCHANGED <<writing, d1Vars, ledgerVars>>
    BY <1>4
  <2>3. TablesTyped' /\ LogSound'
    BY <2>2, TablesRest
  <2> QED
    BY <1>5, <2>1, <2>2, <2>3, ConsumerKeeps

\* The object settles a row, and the answer is about that very row.
LEMMA ForwardKeeps ==
  ASSUME Setting, NEW e \in Event, ForwardTransactional(e)
  PROVE  RoutingIInv'
<1>0. /\ TablesTyped /\ QueueTyped /\ SendsOver /\ EventsSound /\ LogSound
      /\ TypeOK /\ TypeOK' /\ RowsFinal /\ TxInvariant
  BY SettingParts
<1>1. PICK q, t, g, h, n :
        q = queue[e] /\ t = tries[e] /\ g = stage[e] /\ h = hint[e] /\ n = news[e]
  OBVIOUS
<1>2. EventAt(e, q, t, g, h, n) /\ g = "routed"
  BY <1>0, <1>1 DEF EventsSound, ForwardTransactional
<1>3. e = <<e[1], e[2]>> /\ e[1] \in Requests /\ e[2] \in EventTypes
  BY ConstantsAssumption DEF Event, ForwardTransactional
<1>4. PICK s \in correlate(e[1]) :
        /\ Settle(e, s)
        /\ hint' = [hint EXCEPT ![e] = rows[s].request]
        /\ news' = [news EXCEPT ![e] =
                      IF rows[s].status = "unknown" THEN statusProvenBy(e[2]) ELSE "nothing"]
  BY DEF ForwardTransactional
<1>5. PICK request, outcome :
        /\ request = rows[s].request
        /\ outcome = IF rows[s].status = "unknown" THEN statusProvenBy(e[2]) ELSE "nothing"
  OBVIOUS
<1>6. DeliveryEvent(e[1], e[2]) /\ SettleSlot(s, e[1], e[2])
  BY <1>4 DEF Settle
<1>7. /\ SendsOver' /\ request \in Requests
      /\ rows[s].status = "unknown" => Backed(request, statusProvenBy(e[2]))'
  BY <1>0, <1>3, <1>5, <1>6, EventSettles
<1>8. outcome \in {"nothing", "sent", "failed"} /\ (outcome # "nothing" => Backed(request, outcome)')
  BY <1>5, <1>7 DEF statusProvenBy
<1>9. events' = events \cup {e} /\ UNCHANGED <<ledgerVars, writing, d1Vars, queue, tries>>
      /\ stage' = [stage EXCEPT ![e] = "settled"]
  BY <1>3, <1>6 DEF DeliveryEvent, ForwardTransactional
<1>10. LedgersGrow /\ Recorded(e)'
  BY <1>9 DEF LedgersGrow, Recorded, ledgerVars
<1>11. EventAt(e, q, t, "settled", request, outcome)'
  BY <1>2, <1>3, <1>7, <1>8, <1>10 DEF EventAt, Stages
<1>12. /\ queue' = [queue EXCEPT ![e] = q] /\ tries' = [tries EXCEPT ![e] = t]
       /\ hint' = [hint EXCEPT ![e] = request] /\ news' = [news EXCEPT ![e] = outcome]
  BY <1>0, <1>1, <1>4, <1>5, <1>9, SameThere
<1>13. QueueTyped' /\ EventsSound'
  BY <1>0, <1>9, <1>10, <1>11, <1>12, EventMoves
<1>14. TablesTyped' /\ LogSound'
  BY <1>9, TablesRest
<1> QED
  BY <1>7, <1>13, <1>14, TypesSplit DEF RoutingIInv, RoutingTypeOK, TablesTyped, QueueTyped

\* The ledger of mail people confirmed takes the event.
LEMMA ForwardHumanKeeps ==
  ASSUME Setting, NEW e \in Event, ForwardHuman(e)
  PROVE  RoutingIInv'
<1>0. /\ TablesTyped /\ QueueTyped /\ SendsOver /\ EventsSound /\ LogSound
      /\ TypeOK /\ TypeOK' /\ RowsFinal /\ TxInvariant
  BY SettingParts
<1>1. PICK q, t, g, h, n :
        q = queue[e] /\ t = tries[e] /\ g = stage[e] /\ h = hint[e] /\ n = news[e]
  OBVIOUS
<1>2. EventAt(e, q, t, g, h, n) /\ g = "routed"
  BY <1>0, <1>1 DEF EventsSound, ForwardHuman
<1>3. e \in HumanMails \X EventTypes
  BY ConstantsAssumption DEF Event, ForwardHuman
<1>4. /\ UNCHANGED <<rows, events, call, writing, d1Vars, reported, queue, tries, hint, news>>
      /\ humanSeen' = humanSeen \cup {e} /\ stage' = [stage EXCEPT ![e] = "settled"]
  BY DEF ForwardHuman, callVars
<1>5. SendsOver'
  BY <1>0, <1>4, SendsOverStays
<1>6. LedgersGrow /\ Recorded(e)'
  BY <1>4 DEF LedgersGrow, Recorded
<1>7. EventAt(e, q, t, "settled", h, n)'
  BY <1>2, <1>6 DEF EventAt, Stages
<1>8. /\ queue' = [queue EXCEPT ![e] = q] /\ tries' = [tries EXCEPT ![e] = t]
      /\ hint' = [hint EXCEPT ![e] = h] /\ news' = [news EXCEPT ![e] = n]
  BY <1>0, <1>1, <1>4, SameThere
<1>8b. stage' = [stage EXCEPT ![e] = "settled"]
  BY <1>4
<1>9. QueueTyped' /\ EventsSound'
  BY <1>0, <1>6, <1>7, <1>8, <1>8b, EventMoves
<1>10. LogSound'
  BY <1>0, <1>4, LogRests DEF d1Vars
<1>11. TablesTyped'
  BY <1>0, <1>3, <1>4 DEF TablesTyped, d1Vars
<1> QED
  BY <1>5, <1>9, <1>10, <1>11, TypesSplit DEF RoutingIInv, RoutingTypeOK, TablesTyped, QueueTyped

\* D1 is told what the object answered.
LEMMA MirrorKeeps ==
  ASSUME Setting, NEW e \in Event,
         MirrorResolution(e) \/ MirrorDelivery(e) \/ MirrorSuppression(e)
  PROVE  RoutingIInv'
<1>0. /\ TablesTyped /\ QueueTyped /\ SendsOver /\ EventsSound /\ LogSound
      /\ TypeOK /\ TypeOK' /\ RowsFinal /\ TxInvariant
  BY SettingParts
<1>1. PICK q, t, g, h, n :
        q = queue[e] /\ t = tries[e] /\ g = stage[e] /\ h = hint[e] /\ n = news[e]
  OBVIOUS
<1>2. EventAt(e, q, t, g, h, n)
  BY <1>0, <1>1 DEF EventsSound
<1>3. /\ queue = [queue EXCEPT ![e] = q] /\ tries = [tries EXCEPT ![e] = t]
      /\ hint = [hint EXCEPT ![e] = h] /\ news = [news EXCEPT ![e] = n]
  BY <1>0, <1>1, SameThere
<1>4. UNCHANGED <<vars, ledgerVars, writing, outbound, tries>>
  BY DEF MirrorResolution, MirrorDelivery, MirrorSuppression
<1>5. e[2] \in EventTypes
  BY ConstantsAssumption DEF Event
<1>6. PICK where, progress, request, outcome :
        /\ queue' = [queue EXCEPT ![e] = where]
        /\ stage' = [stage EXCEPT ![e] = progress]
        /\ hint' = [hint EXCEPT ![e] = request]
        /\ news' = [news EXCEPT ![e] = outcome]
        /\ EventAt(e, where, t, progress, request, outcome)
  <2>1. CASE MirrorResolution(e)
    <3>1. /\ g = "settled" /\ stage' = [stage EXCEPT ![e] = "dated"]
          /\ UNCHANGED <<queue, hint, news>>
      BY <1>1, <2>1 DEF MirrorResolution
    <3>2. EventAt(e, q, t, "dated", h, n)
      BY <1>2, <3>1 DEF EventAt, Stages
    <3> QED
      BY <1>3, <3>1, <3>2
  <2>2. CASE MirrorDelivery(e)
    <3>1. /\ g = "dated" /\ stage' = [stage EXCEPT ![e] = "suppressed"]
          /\ UNCHANGED <<queue, hint, news>>
      BY <1>1, <2>2 DEF MirrorDelivery
    <3>2. EventAt(e, q, t, "suppressed", h, n)
      BY <1>2, <3>1 DEF EventAt, Stages
    <3> QED
      BY <1>3, <3>1, <3>2
  <2>3. CASE MirrorSuppression(e)
    <3>1. /\ g = "suppressed" /\ stage' = [stage EXCEPT ![e] = "idle"]
          /\ queue' = [queue EXCEPT ![e] = "acked"]
          /\ hint' = [hint EXCEPT ![e] = NoRequest]
          /\ news' = [news EXCEPT ![e] = "nothing"]
      BY <1>1, <2>3 DEF MirrorSuppression
    <3>2. EventAt(e, "acked", t, "idle", NoRequest, "nothing")
      BY <1>2, <3>1 DEF EventAt, Stages, QueueState
    <3> QED
      BY <3>1, <3>2
  <2> QED
    BY <2>1, <2>2, <2>3
<1>7. LogSound' /\ log' \in [Requests -> LogRow]
  <2>0. writing' \subseteq writing
    BY <1>4
  <2>1. CASE MirrorResolution(e) /\ n # "nothing"
    <3>1. h \in Requests /\ e[1] \in Requests /\ Backed(h, n) /\ n \in RowStatus
      BY <1>2, <2>1 DEF EventAt, RowStatus
    <3>2. PICK row : row = log[h]
      OBVIOUS
    <3>3. row \in LogRow /\ Backed(h, row.status)
      BY <1>0, <3>1, <3>2 DEF TablesTyped, LogSound
    <3>4. PICK new : new = Proven(row, n, e[1])
      OBVIOUS
    <3>5. new \in LogRow /\ new.status \in {row.status, n}
      BY <3>1, <3>3, <3>4 DEF LogRow, Proven
    <3>6. log' = [log EXCEPT ![h] = new]
      BY <1>1, <2>1, <3>2, <3>4 DEF MirrorResolution
    <3>7. Backed(h, new.status)'
      BY <1>0, <3>1, <3>3, <3>5, BackedStays
    <3> QED
      BY <1>0, <2>0, <3>1, <3>5, <3>6, <3>7, LogMoves
  <2>2. CASE MirrorDelivery(e) /\ h # NoRequest
    <3>1. h \in Requests
      BY <1>2, <2>2 DEF EventAt
    <3>2. PICK row : row = log[h]
      OBVIOUS
    <3>3. row \in LogRow /\ Backed(h, row.status)
      BY <1>0, <3>1, <3>2 DEF TablesTyped, LogSound
    <3>4. PICK new : new = IF row.status = "none" THEN row ELSE
                             [row EXCEPT !.delivery = deliveryStatus(e[2])]
      OBVIOUS
    <3>5. log' = [log EXCEPT ![h] = new]
      BY <1>0, <1>1, <2>2, <3>1, <3>2, <3>4 DEF MirrorDelivery, TablesTyped
    <3>6. deliveryStatus(e[2]) \in DeliveryStatus
      BY <1>5 DEF deliveryStatus, DeliveryStatus, EventTypes, Bounces
    <3>7. new \in LogRow /\ new.status = row.status
      BY <3>3, <3>4, <3>6 DEF LogRow
    <3>8. Backed(h, new.status)'
      BY <1>0, <3>1, <3>3, <3>7, BackedStays
    <3> QED
      BY <1>0, <2>0, <3>1, <3>5, <3>7, <3>8, LogMoves
  <2>3. CASE ~(MirrorResolution(e) /\ n # "nothing") /\ ~(MirrorDelivery(e) /\ h # NoRequest)
    <3>1. log' = log
      BY <1>1, <2>3 DEF MirrorResolution, MirrorDelivery, MirrorSuppression
    <3> QED
      BY <1>0, <2>0, <3>1, LogRests DEF TablesTyped
  <2> QED
    BY <2>1, <2>2, <2>3
<1>8. mirror' \in [Recipients -> {"none", "hard_bounce", "complaint"}]
  BY <1>0 DEF MirrorResolution, MirrorDelivery, MirrorSuppression, TablesTyped, classifyReason
<1>9. TablesTyped'
  BY <1>0, <1>4, <1>7, <1>8 DEF TablesTyped, ledgerVars
<1>10. tries' = [tries EXCEPT ![e] = t] /\ UNCHANGED <<vars, ledgerVars>>
  BY <1>3, <1>4
<1> QED
  BY <1>6, <1>7, <1>9, <1>10, ConsumerKeeps

LEMMA RoutingStep ==
  ASSUME Setting, [RoutingNext]_allVars
  PROVE  RoutingIInv'
<1>1. CASE UNCHANGED allVars
  BY <1>1, SettingParts
  DEF allVars, vars, storeVars, callVars, routingVars, queueVars, d1Vars, ledgerVars,
      Setting, RoutingIInv, RoutingTypeOK, SendsOver, EventsSound, EventAt, LogSound,
      Reserved, Recorded, Backed
<1>2. ASSUME NEW e \in Event, Consume(e) PROVE RoutingIInv'
  BY <1>2, RouteKeeps, RetryingKeeps, ForwardKeeps, ForwardHumanKeeps, MirrorKeeps DEF Consume
<1> QED
  BY <1>1, <1>2, AnswerKeeps, OtherTxKeeps, LateWriteKeeps, OutboundKeeps, QueueKeeps
  DEF RoutingNext

LEMMA RoutingInvariance == RoutingSpec => [](RoutingIInv /\ TxInvariant)
<1>1. RoutingInit => RoutingIInv
  BY InitInvariant, RoutingStarts DEF RoutingInit, TxInvariant
<1>2. RoutingSpec => [][RowsFinal]_vars
  BY RoutingIsTx, SettledForGood, PTL DEF SettledStays, RowsFinal
<1>3. /\ RoutingIInv /\ TxInvariant /\ TxInvariant'
      /\ [RowsFinal]_vars /\ [RoutingNext]_allVars
      => RoutingIInv'
  <2> SUFFICES ASSUME RoutingIInv, TxInvariant, TxInvariant',
                      [RowsFinal]_vars, [RoutingNext]_allVars
               PROVE  RoutingIInv'
    OBVIOUS
  <2>1. RowsFinal
    BY DEF RowsFinal, vars, storeVars
  <2> QED
    BY <2>1, RoutingStep DEF Setting
<1> QED
  BY <1>1, <1>2, <1>3, ObjectInvariance, PTL DEF RoutingSpec

--------------------------------------------------------------------------------
(* The list of suppressed recipients in D1.                                *)

\* Recorded events are about requests that named their recipient.
Named(e) == e[1] \in Requests => call[e[1]] # "none"
ListSound == SuppressionIsMirrored /\ \A e \in Event : Recorded(e) => Named(e)

LEMMA NamedStays ==
  ASSUME TypeOK, [Next]_vars, NEW q \in Requests, call[q] # "none"
  PROVE  call'[q] # "none" /\ body'[q] = body[q]
<1>1. ASSUME NEW x \in Requests, NEW p \in Payloads, ReadKey(x, p)
      PROVE  call'[q] # "none" /\ body'[q] = body[q]
  BY <1>1 DEF ReadKey, Goto, TypeOK
<1>2. ASSUME NEW x \in Requests, HandlerStep(x)
      PROVE  call'[q] # "none" /\ body'[q] = body[q]
  BY <1>2 DEF HandlerStep, Refuse, Authorize, CheckSuppression, FindExisting, Compare, OverQuota,
     Reserve, SendSettles, SendReturns, SendAmbiguous, SendRefused, Goto, Answer, TypeOK
<1>3. CASE ObjectCrash
  BY <1>3 DEF ObjectCrash
<1>4. CASE UNCHANGED callVars
  BY <1>4 DEF callVars
<1>5. ASSUME NEW x \in Requests, ProviderStep(x) PROVE UNCHANGED callVars
  BY <1>5 DEF ProviderStep, ProviderAccepts, ProviderDrops, ProviderRefuses, ProviderDecides
<1>6. AdminStep \/ EventStep \/ NextWindow \/ UNCHANGED vars => UNCHANGED callVars
  BY DEF AdminStep, EventStep, NextWindow, ReconcileStale, RevokeKey, ExpireSuppression,
     RemoveSuppression, DeliveryEvent, OutboundDeliveryEvent, vars
<1> QED
  BY <1>1, <1>2, <1>3, <1>4, <1>5, <1>6 DEF Next

\* Whom an event is about does not change once it is recorded.
LEMMA AddresseeStays ==
  ASSUME TypeOK, [Next]_vars, NEW e \in Event, Named(e)
  PROVE  Named(e)' /\ Addressee(e)' = Addressee(e)
<1>1. e[1] \in Requests \cup HumanMails
  BY DEF Event
<1>2. CASE e[1] \in Requests
  BY <1>2, NamedStays, RoutingAssumption DEF Named, Addressee
<1>3. CASE e[1] \in HumanMails
  BY <1>3, RoutingAssumption DEF Named, Addressee
<1> QED
  BY <1>1, <1>2, <1>3

\* The list and the acknowledgements rest, the ledgers grow.
LEMMA ListRests ==
  ASSUME TypeOK, [Next]_vars, ListSound, LedgersGrow, mirror' = mirror,
         \A e \in Event : queue[e] = "acked" => Recorded(e),
         \A e \in Event : queue'[e] = "acked" => queue[e] = "acked",
         \A e \in Event : Recorded(e)' => Recorded(e) \/ Named(e)
  PROVE  ListSound'
<1>1. \A e \in Event : Recorded(e) => Recorded(e)'
  BY DEF LedgersGrow, Recorded
<1>2. \A e \in Event : Named(e) => Named(e)' /\ Addressee(e)' = Addressee(e)
  BY AddresseeStays
<1>3. \A e \in Event : Recorded(e)' => Named(e)'
  BY <1>2 DEF ListSound
<1>4. ASSUME NEW e \in Event, queue'[e] = "acked", classifyReason(e[2]) # "none"
      PROVE  mirror'[Addressee(e)'] # "none"
  BY <1>2, <1>4 DEF ListSound, SuppressionIsMirrored
<1>5. ASSUME NEW r \in Recipients, mirror'[r] # "none"
      PROVE  \E e \in Event : /\ Recorded(e)' /\ Addressee(e)' = r
                              /\ classifyReason(e[2]) = mirror'[r]
  <2>1. PICK e \in Event : /\ Recorded(e) /\ Addressee(e) = r
                           /\ classifyReason(e[2]) = mirror[r]
    BY <1>5 DEF ListSound, SuppressionIsMirrored
  <2> QED
    BY <1>1, <1>2, <2>1 DEF ListSound
<1> QED
  BY <1>3, <1>4, <1>5 DEF ListSound, SuppressionIsMirrored

\* The last step of an event puts its recipient on the list.
LEMMA ListGrows ==
  ASSUME RoutingIInv, TxInvariant, ListSound, NEW e \in Event, MirrorSuppression(e)
  PROVE  ListSound'
<1>1. /\ UNCHANGED vars /\ UNCHANGED ledgerVars /\ stage[e] = "suppressed"
      /\ queue' = [queue EXCEPT ![e] = "acked"]
      /\ mirror' = [mirror EXCEPT ![Addressee(e)] =
                      IF classifyReason(e[2]) = "none" THEN @ ELSE classifyReason(e[2])]
  BY DEF MirrorSuppression
<1>2. UNCHANGED <<call, body, events, humanSeen>>
  BY <1>1 DEF vars, storeVars, callVars, ledgerVars
<1>3. \A x \in Event : /\ (Recorded(x)' <=> Recorded(x))
                        /\ (Named(x)' <=> Named(x))
                        /\ Addressee(x)' = Addressee(x)
  BY <1>2 DEF Recorded, Named, Addressee
<1>4. Recorded(e) /\ mirror \in [Recipients -> {"none", "hard_bounce", "complaint"}]
      /\ queue \in [Event -> QueueState]
  BY <1>1 DEF RoutingIInv, EventsSound, EventAt, RoutingTypeOK
<1>5. Addressee(e) \in Recipients
  <2>1. e[1] \in Requests \cup HumanMails
    BY DEF Event
  <2>2. CASE e[1] \in HumanMails
    BY <2>2, RoutingAssumption DEF Addressee
  <2>3. CASE e[1] \in Requests
    <3>1. e[1] \notin HumanMails /\ call[e[1]] # "none"
      BY <2>3, <1>4, RoutingAssumption DEF ListSound, Named
    <3>2. body[e[1]] \in Payloads
      BY <2>3, <3>1 DEF TxInvariant, TypeOK, CallMatchesProvider
    <3> QED
      BY <3>1, <3>2, ConstantsAssumption DEF Addressee
  <2> QED
    BY <2>1, <2>2, <2>3
<1>6. ASSUME NEW r \in Recipients
      PROVE  mirror'[r] = IF r = Addressee(e) /\ classifyReason(e[2]) # "none"
                          THEN classifyReason(e[2]) ELSE mirror[r]
  BY <1>1, <1>4
<1>7. ASSUME NEW x \in Event, queue'[x] = "acked", classifyReason(x[2]) # "none"
      PROVE  mirror'[Addressee(x)] # "none"
  <2>1. CASE x = e
    BY <2>1, <1>5, <1>6, <1>7
  <2>2. CASE x # e
    <3>1. queue[x] = "acked"
      BY <1>1, <1>4, <1>7, <2>2
    <3>2. mirror[Addressee(x)] # "none"
      BY <3>1, <1>7 DEF ListSound, SuppressionIsMirrored
    <3> QED
      BY <1>1, <1>4, <1>5, <3>2
  <2> QED
    BY <2>1, <2>2
<1>8. ASSUME NEW r \in Recipients, mirror'[r] # "none"
      PROVE  \E x \in Event : /\ Recorded(x) /\ Addressee(x) = r
                              /\ classifyReason(x[2]) = mirror'[r]
  BY <1>4, <1>6, <1>8 DEF ListSound, SuppressionIsMirrored
<1> QED
  BY <1>3, <1>7, <1>8 DEF ListSound, SuppressionIsMirrored

\* Nothing else touches the list, or acknowledges.
LEMMA ListStep ==
  ASSUME RoutingIInv, TxInvariant, ListSound, [RoutingNext]_allVars
  PROVE  ListSound'
<1>1. [Next]_vars /\ TypeOK
  BY RoutingRefines DEF TxInvariant
<1>2. \A e \in Event : queue[e] = "acked" => Recorded(e)
  BY DEF RoutingIInv, EventsSound, EventAt
<1>3. queue \in [Event -> QueueState]
  BY DEF RoutingIInv, RoutingTypeOK
<1>4. CASE UNCHANGED <<mirror, queue, events, humanSeen>>
  BY <1>1, <1>2, <1>4, ListRests DEF LedgersGrow, Recorded
<1>5. ASSUME NEW e \in Event, Publish(e) \/ Bury(e) \/ Retry(e),
             UNCHANGED <<mirror, events, humanSeen>>
      PROVE  ListSound'
  <2>1. \A x \in Event : queue'[x] = "acked" => queue[x] = "acked"
    BY <1>3, <1>5 DEF Publish, Bury, handleDeadLetterQueue, TombstoneFails, Retry
  <2> QED
    BY <1>1, <1>2, <1>5, <2>1, ListRests DEF LedgersGrow, Recorded
<1>6. ASSUME NEW e \in Event, ForwardTransactional(e) PROVE ListSound'
  <2>1. /\ e = <<e[1], e[2]>> /\ e[1] \in Requests /\ DeliveryEvent(e[1], e[2])
        /\ UNCHANGED <<mirror, queue, humanSeen>>
    BY <1>6 DEF ForwardTransactional, Settle, Event, d1Vars, ledgerVars
  <2>2. events' = events \cup {e} /\ Reportable(e[1]) # {}
    BY <2>1 DEF DeliveryEvent
  <2>3. provider[e[1]] # "none"
    BY <2>2 DEF Reportable
  <2>4. Named(e)
    BY <2>1, <2>3 DEF TxInvariant, CallMatchesProvider, Named
  <2> QED
    BY <1>1, <1>2, <2>1, <2>2, <2>4, ListRests DEF LedgersGrow, Recorded
<1>7. ASSUME NEW e \in Event, ForwardHuman(e) PROVE ListSound'
  <2>1. /\ e[1] \notin Requests /\ humanSeen' = humanSeen \cup {e}
        /\ UNCHANGED <<mirror, queue, events>>
    BY <1>7, RoutingAssumption DEF ForwardHuman, d1Vars
  <2> QED
    BY <1>1, <1>2, <2>1, ListRests DEF LedgersGrow, Recorded, Named
<1>8. ASSUME NEW e \in Event, Consume(e) PROVE ListSound'
  <2>1. CASE Unresolved(e) \/ ForwardRefused(e) \/ ConsumerFails(e)
    <3>1. Retry(e) /\ UNCHANGED <<mirror, events, humanSeen>>
      BY <2>1 DEF Unresolved, ForwardRefused, ConsumerFails, vars, storeVars, d1Vars, ledgerVars
    <3> QED
      BY <3>1, <1>5
  <2>2. CASE resolveMailboxIdFromEvent(e) \/ ForwardAgain(e) \/ MirrorResolution(e)
             \/ MirrorDelivery(e)
    <3>1. UNCHANGED <<mirror, queue, events, humanSeen>>
      BY <2>2 DEF resolveMailboxIdFromEvent, ForwardAgain, MirrorResolution, MirrorDelivery,
         vars, storeVars, d1Vars, ledgerVars
    <3> QED
      BY <3>1, <1>4
  <2> QED
    BY <1>6, <1>7, <1>8, <2>1, <2>2, ListGrows DEF Consume
<1>9. ASSUME NEW e \in Event, Publish(e) \/ Bury(e) PROVE ListSound'
  <2>1. UNCHANGED <<mirror, events, humanSeen>>
    BY <1>9 DEF Publish, Bury, handleDeadLetterQueue, TombstoneFails, vars, storeVars, d1Vars,
       ledgerVars
  <2> QED
    BY <1>5, <1>9, <2>1
<1>10. ASSUME \/ \E q \in Requests : HandlerAnswers(q)
              \/ OtherTxStep
              \/ \E w \in writing : upsertTransactionalRequestLog(w) \/ LogWriteLost(w)
              \/ \E h \in HumanMails : OutboundSettles(h)
              \/ UNCHANGED allVars
       PROVE  ListSound'
  <2>1. UNCHANGED <<mirror, queue, humanSeen>>
    BY <1>10 DEF HandlerAnswers, OtherTxStep, upsertTransactionalRequestLog, LogWriteLost,
       OutboundSettles, allVars, routingVars, d1Vars, ledgerVars, queueVars
  <2>2. UNCHANGED events
    BY <1>10 DEF HandlerAnswers, SendSettles, SendReturns, SendAmbiguous, SendRefused, Compare,
       OtherTxStep, ReadKey, Refuse, Authorize, CheckSuppression, FindExisting, OverQuota,
       Reserve, ProviderStep, ProviderAccepts, ProviderDrops, ProviderRefuses, ProviderDecides,
       RemoveSuppression, upsertTransactionalRequestLog, LogWriteLost, OutboundSettles, allVars,
       vars, storeVars
  <2> QED
    BY <1>4, <2>1, <2>2
<1> QED
  BY <1>8, <1>9, <1>10 DEF RoutingNext

LEMMA ListInvariance == RoutingSpec => []ListSound
<1>1. RoutingInit => ListSound
  <2> SUFFICES ASSUME RoutingInit PROVE ListSound
    OBVIOUS
  <2>1. \A e \in Event : queue[e] # "acked" /\ ~Recorded(e)
    BY DEF RoutingInit, Init, Recorded
  <2>2. \A r \in Recipients : mirror[r] = "none"
    BY DEF RoutingInit
  <2> QED
    BY <2>1, <2>2 DEF ListSound, SuppressionIsMirrored
<1> QED
  BY <1>1, ListStep, RoutingInvariance, PTL DEF RoutingSpec

(***************************************************************************)
(* D1 never claims an outcome the object does not hold; an event is        *)
(* acknowledged to the queue only once it is in the object's ledger; and   *)
(* the list in D1 has everybody an acknowledged bounce or complaint is     *)
(* about, and nobody else: for any retries, deaths of the consumer, late   *)
(* or lost log writes, and any order of the events.                        *)
(***************************************************************************)
THEOREM D1NeverLeads == RoutingSpec => []EventInvariant
<1>1. RoutingIInv /\ ListSound => EventInvariant
  BY DEF RoutingIInv, EventInvariant, MirrorNeverLeads, AckedIsRecorded, LogSound, Backed,
         EventsSound, EventAt, ListSound
<1> QED
  BY <1>1, RoutingInvariance, ListInvariance, PTL

(***************************************************************************)
(* An event about a mail whose provider id the object has settles the row  *)
(* that has it and no other, whatever D1 said of it.                       *)
(***************************************************************************)
THEOREM EventsFindTheirRow == RoutingSpec => KnownMailSettlesItsRow
<1> DEFINE Act == \A e \in events' \ events, s \in Slots :
                    rows'[s] # rows[s] /\ ByProviderId(e[1]) # {} => s \in ByProviderId(e[1])
<1>1. TxInvariant /\ [RoutingNext]_allVars => [Act]_allVars
  <2> SUFFICES ASSUME TxInvariant, RoutingNext PROVE Act
    OBVIOUS
  <2>1. CASE UNCHANGED events
    BY <2>1
  <2>2. ASSUME NEW e \in Event, ForwardTransactional(e) PROVE Act
    <3> SUFFICES ASSUME NEW s \in Slots, rows'[s] # rows[s], ByProviderId(e[1]) # {}
                 PROVE  s \in ByProviderId(e[1])
      <4>1. events' = events \cup {e}
        BY <2>2 DEF ForwardTransactional, Settle, DeliveryEvent, Event
      <4> QED
        BY <4>1
    <3>1. PICK x \in correlate(e[1]) : SettleSlot(x, e[1], e[2])
      BY <2>2 DEF ForwardTransactional, Settle
    <3>2. s = x
      BY <3>1 DEF SettleSlot, TxInvariant, TypeOK
    <3> QED
      BY <3>1, <3>2 DEF correlate
  <2>3. ASSUME NEW e \in Event, Consume(e) PROVE Act
    BY <2>1, <2>2, <2>3 DEF Consume, resolveMailboxIdFromEvent, Unresolved, ForwardAgain,
       ForwardRefused, ForwardHuman, MirrorResolution, MirrorDelivery, MirrorSuppression,
       ConsumerFails, vars, storeVars
  <2>4. CASE ~\E e \in Event : Consume(e)
    <3>1. UNCHANGED events
      BY <2>4 DEF RoutingNext, HandlerAnswers, SendSettles, SendReturns, SendAmbiguous,
         SendRefused, Compare, OtherTxStep, ReadKey, Refuse, Authorize, CheckSuppression,
         FindExisting, OverQuota, Reserve, ProviderStep, ProviderAccepts, ProviderDrops,
         ProviderRefuses, ProviderDecides, RemoveSuppression, upsertTransactionalRequestLog,
         LogWriteLost, OutboundSettles, Publish, Bury, handleDeadLetterQueue, TombstoneFails,
         vars, storeVars
    <3> QED
      BY <3>1
  <2> QED
    BY <2>3, <2>4
<1> QED
  BY <1>1, ObjectInvariance, PTL DEF RoutingSpec, KnownMailSettlesItsRow

(***************************************************************************)
(* A recipient removed from the list comes back only with an event the     *)
(* object had not seen: redelivery does not suppress again.                *)
(***************************************************************************)
THEOREM RedeliveryNeverSuppresses == RoutingSpec => RemovedStaysRemoved
<1> DEFINE Act == \A r \in Recipients :
                    suppression[r] = "none" /\ suppression'[r] # "none" =>
                      events' \cup humanSeen' # events \cup humanSeen
<1>1. TxInvariant /\ [RoutingNext]_allVars => [Act]_allVars
  <2> SUFFICES ASSUME TxInvariant, RoutingNext PROVE Act
    OBVIOUS
  <2>1. ASSUME NEW q \in Requests, HandlerAnswers(q) PROVE Act
    BY <2>1 DEF HandlerAnswers, SendSettles, SendReturns, SendAmbiguous, SendRefused, Compare,
                storeVars
  <2>2. ASSUME OtherTxStep PROVE Act
    <3>1. ASSUME NEW r \in Recipients, RemoveSuppression(r) PROVE Act
      BY <3>1 DEF RemoveSuppression, TxInvariant, TypeOK
    <3>2. CASE UNCHANGED suppression
      BY <3>2
    <3> QED
      BY <2>2, <3>1, <3>2
      DEF OtherTxStep, ReadKey, Refuse, Authorize, CheckSuppression, FindExisting, OverQuota,
          Reserve, ProviderStep, ProviderAccepts, ProviderDrops, ProviderRefuses,
          ProviderDecides, storeVars
  <2>3. ASSUME NEW e \in Event, ForwardTransactional(e) PROVE Act
    <3>1. e = <<e[1], e[2]>>
      BY DEF Event
    <3>2. ~Recorded(e) /\ e \in events'
      BY <2>3, <3>1 DEF ForwardTransactional, Settle, DeliveryEvent
    <3> QED
      BY <3>2 DEF Recorded
  <2>4. ASSUME NEW e \in Event, ForwardHuman(e) PROVE Act
    BY <2>4 DEF ForwardHuman, Recorded
  <2>5. CASE UNCHANGED vars
    BY <2>5 DEF vars, storeVars
  <2> QED
    BY <2>1, <2>2, <2>3, <2>4, <2>5
    DEF RoutingNext, upsertTransactionalRequestLog, LogWriteLost, OutboundSettles, Publish, Bury,
        handleDeadLetterQueue, TombstoneFails, Consume, resolveMailboxIdFromEvent, Unresolved,
        ForwardAgain, ForwardRefused, MirrorResolution, MirrorDelivery, MirrorSuppression,
        ConsumerFails
<1> QED
  BY <1>1, ObjectInvariance, PTL DEF RoutingSpec, RemovedStaysRemoved

================================================================================
