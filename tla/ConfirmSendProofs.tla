--------------------------- MODULE ConfirmSendProofs ---------------------------
(***************************************************************************)
(* What ConfirmSend guarantees for every set of drafts, keys and callers.  *)
(* The inductive invariant is SendInvariant; the argument in words is that *)
(* a draft whose mail may have left is held (gate taken, or draft closed), *)
(* that a send starts only from a draft that is not held, and that the     *)
(* gate is freed only by the one handler that knows the provider refused,  *)
(* or in the transaction that closes the draft.                            *)
(***************************************************************************)
EXTENDS ConfirmSend, TLAPS

\* The operators every step mentions, expanded throughout.
USE ConstantsAssumption
    DEF Awaiting, MayHaveLeft, Answer, doVars, callVars, d1Vars, allButDraft

\* Every caller's attempt is one of the mailbox's attempts.
LEMMA CallersTyped ==
  ASSUME NEW c \in Callers
  PROVE  DraftOf[c] \in Drafts /\ KeyOf[c] \in Keys /\ SendKey(c) \in SendKeys
  BY DEF SendKeys, SendKey

\* No answer given without touching the provider claims a completed send.
LEMMA RejectsNeverSent ==
  ASSUME NEW c, NEW a, Rejects(c, a)
  PROVE  a # "sent"
  BY DEF Rejects, MarkerAnswer

\* The initial state has no mail, no gate and no handler.
LEMMA InitInvariant == Init => SendInvariant
  BY DEF Init, SendKeys, SendInvariant, TypeOK, AtMostOneMail, GateAgreesWithMarker,
         NoPhantomCopy, MailIsHeld, Held, FlightIsExclusive,
         CallMatchesProvider, DraftStatus, MarkerStatus, LedgerStatus,
         CallState, WorkerState, Answers

\* Every action preserves the types of all variables.
LEMMA TypeStep == TypeOK /\ [Next]_vars => TypeOK'
<1> SUFFICES ASSUME TypeOK, [Next]_vars PROVE TypeOK'
  OBVIOUS
<1> USE DEF TypeOK, DraftStatus, MarkerStatus, LedgerStatus, CallState,
            WorkerState, Answers
<1>1. ASSUME NEW d \in Drafts, DraftStep(d) PROVE TypeOK'
  BY <1>1 DEF DraftStep, CreateDraft, UpdateDraft, RequestSendDraft, CancelDraft
<1>2. ASSUME NEW c \in Callers, LookUp(c) \/ WorkerCrash(c) PROVE TypeOK'
  BY <1>2 DEF LookUp, WorkerCrash
<1>3. ASSUME NEW c \in Callers, WorkerStep(c) PROVE TypeOK'
  <2>1. SendKey(c) \in SendKeys
    BY CallersTyped
  <2>2. CASE Claim(c)
    <3>1. CASE ledger[SendKey(c)] = "none"
      <4>1. /\ worker' \in [Callers -> WorkerState]
            /\ call' \in [Callers -> CallState]
        BY <2>2, <3>1 DEF Claim
      <4>2. ledger' \in [SendKeys -> LedgerStatus]
        BY <2>1, <2>2, <3>1 DEF Claim
      <4>3. UNCHANGED <<doVars, answer, provider, index, swept>>
        BY <2>2 DEF Claim
      <4> QED
        BY <4>1, <4>2, <4>3
    <3>2. CASE ledger[SendKey(c)] # "none"
      BY <2>2, <3>2 DEF Claim
    <3> QED
      BY <3>1, <3>2
  <2>3. CASE Refetch(c)
    <3>1. /\ UNCHANGED <<doVars, answer, provider, d1Vars>>
          /\ \/ worker' = [worker EXCEPT ![c] = "done"] /\ call' = call
             \/ /\ worker' = [worker EXCEPT ![c] = "calling"]
                /\ call' = [call EXCEPT ![c] = "requested"]
      BY <2>3 DEF Refetch
    <3>2. /\ worker' \in [Callers -> WorkerState]
          /\ call' \in [Callers -> CallState]
      BY <3>1
    <3> QED
      BY <3>1, <3>2
  <2>4. CASE SettleLedger(c)
    BY <2>1, <2>4 DEF SettleLedger, LedgerVerdict
  <2>5. CASE FetchThrows(c)
    BY <2>1, <2>5 DEF FetchThrows
  <2>6. CASE IndexMessage(c)
    BY <2>6 DEF IndexMessage
  <2> QED
    BY <1>3, <2>2, <2>3, <2>4, <2>5, <2>6 DEF WorkerStep
<1>4. ASSUME NEW c \in Callers, HandlerStep(c) PROVE TypeOK'
  <2> USE CallersTyped
  <2>1. CASE RejectConfirm(c)
    BY <2>1 DEF RejectConfirm
  <2>2. CASE StartSend(c)
    BY <2>2 DEF StartSend
  <2>3. CASE SendSettles(c)
    <3>1. CASE SendResolves(c)
      BY <3>1 DEF SendResolves
    <3>2. CASE SendAmbiguous(c)
      BY <3>2 DEF SendAmbiguous
    <3>3. CASE SendRefused(c)
      BY <3>3 DEF SendRefused
    <3> QED
      BY <2>3, <3>1, <3>2, <3>3 DEF SendSettles
  <2>4. CASE CommitSend(c)
    BY <2>4 DEF CommitSend
  <2> QED
    BY <1>4, <2>1, <2>2, <2>3, <2>4 DEF HandlerStep
<1>5. ASSUME NEW c \in Callers, ProviderStep(c) PROVE TypeOK'
  BY <1>5 DEF ProviderStep, ProviderAccepts, ProviderRefuses
<1>6. CASE ObjectCrash
  BY <1>6 DEF ObjectCrash
<1>7. CASE Sweep
  BY <1>7 DEF Sweep, SweepList, SweepWrite
<1>8. CASE UNCHANGED vars
  BY <1>8 DEF vars
<1> QED
  BY <1>1, <1>2, <1>3, <1>4, <1>5, <1>6, <1>7, <1>8 DEF Next

--------------------------------------------------------------------------------
(* The invariant, action by action.                                        *)

\* Editing, arming or cancelling a draft never releases a draft that is held.
LEMMA DraftStepKeeps ==
  ASSUME SendInvariant, NEW d \in Drafts, DraftStep(d), TypeOK'
  PROVE  SendInvariant'
<1> USE DEF SendInvariant
<1>1. UNCHANGED allButDraft
  BY DEF DraftStep, CreateDraft, UpdateDraft, RequestSendDraft, CancelDraft
<1>2. \A e \in Drafts : draftStatus[e] \in {"sent", "cancelled"} =>
                          draftStatus'[e] \in {"sent", "cancelled"}
  BY DEF TypeOK, DraftStep, CreateDraft, UpdateDraft, RequestSendDraft,
         CancelDraft
<1>3. MailIsHeld'
  BY <1>1, <1>2, CallersTyped DEF MailIsHeld, Held
<1> QED
  BY <1>1, <1>3 DEF AtMostOneMail, GateAgreesWithMarker, NoPhantomCopy,
                    FlightIsExclusive, CallMatchesProvider

\* The Worker's own steps touch its stage, the ledger and the index, and the
\* request only before the handler runs.
LEMMA WorkerStepKeeps ==
  ASSUME SendInvariant, NEW c \in Callers, TypeOK',
         LookUp(c) \/ WorkerStep(c) \/ WorkerCrash(c)
  PROVE  SendInvariant'
<1> USE DEF SendInvariant
<1>1. UNCHANGED <<draftStatus, marker, gate, copies, answer, provider>>
  BY DEF LookUp, WorkerCrash, WorkerStep, Claim, Refetch, SettleLedger,
         FetchThrows, IndexMessage
<1>2. \/ call' = call
      \/ call[c] = "none" /\ call' = [call EXCEPT ![c] = "requested"]
      \/ call[c] = "requested" /\ call' = [call EXCEPT ![c] = "dead"]
  <2>1. CASE Claim(c) \/ Refetch(c)
    BY <2>1 DEF Claim, Refetch, CallMatchesProvider
  <2>2. CASE FetchThrows(c)
    BY <2>2 DEF FetchThrows, TypeOK
  <2> QED
    BY <2>1, <2>2 DEF LookUp, WorkerCrash, WorkerStep, SettleLedger, IndexMessage
<1>3. \A o \in Callers : o # c => call'[o] = call[o]
  BY <1>2 DEF TypeOK
<1>4. /\ call'[c] \in {"none", "requested"} => provider[c] = "none"
      /\ call'[c] \in Awaiting => call[c] = call'[c]
  BY <1>2 DEF TypeOK, CallMatchesProvider
<1>5. /\ \A o \in Callers : o # c => worker'[o] = worker[o]
      /\ worker'[c] \in {"idle", "looked", "refetch"} => call'[c] = "none"
      /\ worker'[c] = "indexing" => c \in copies
  <2>1. CASE LookUp(c)
    BY <2>1 DEF LookUp, TypeOK, CallMatchesProvider
  <2>2. CASE Claim(c)
    <3>1. CASE ledger[SendKey(c)] = "none"
      BY <2>2, <3>1 DEF Claim, TypeOK, CallMatchesProvider
    <3>2. CASE ledger[SendKey(c)] # "none"
      BY <2>2, <3>2 DEF Claim, TypeOK, CallMatchesProvider
    <3> QED
      BY <3>1, <3>2
  <2>3. CASE Refetch(c)
    BY <2>3 DEF Refetch, TypeOK
  <2>4. CASE SettleLedger(c)
    BY <2>4 DEF SettleLedger, TypeOK, CallMatchesProvider
  <2>5. CASE FetchThrows(c) \/ IndexMessage(c) \/ WorkerCrash(c)
    BY <2>5 DEF FetchThrows, IndexMessage, WorkerCrash, TypeOK
  <2> QED
    BY <2>1, <2>2, <2>3, <2>4, <2>5 DEF WorkerStep
<1>6. index' \subseteq copies
  BY DEF LookUp, WorkerCrash, WorkerStep, Claim, Refetch, SettleLedger,
         FetchThrows, IndexMessage, NoPhantomCopy, CallMatchesProvider
<1>7. AtMostOneMail' /\ GateAgreesWithMarker' /\ MailIsHeld'
  BY <1>1 DEF AtMostOneMail, GateAgreesWithMarker, MailIsHeld, Held
<1>8. NoPhantomCopy'
  BY <1>1, <1>6 DEF NoPhantomCopy
<1>9. FlightIsExclusive'
  BY <1>1, <1>3, <1>4 DEF FlightIsExclusive
<1>10. CallMatchesProvider'
  BY <1>1, <1>3, <1>4, <1>5 DEF CallMatchesProvider
<1> QED
  BY <1>7, <1>8, <1>9, <1>10

\* An answer given without the provider ends the request and nothing else.
LEMMA RejectConfirmKeeps ==
  ASSUME SendInvariant, NEW c \in Callers, RejectConfirm(c), TypeOK'
  PROVE  SendInvariant'
<1> USE DEF SendInvariant
<1>1. UNCHANGED <<doVars, provider, worker, index>>
  BY DEF RejectConfirm
<1>2. PICK a \in Answers : Rejects(c, a) /\ Answer(c, a)
  BY DEF RejectConfirm
<1>3. a # "sent"
  BY <1>2, RejectsNeverSent
<1>4. \A o \in Callers : /\ call'[o] = IF o = c THEN "answered" ELSE call[o]
                         /\ answer'[o] = IF o = c THEN a ELSE answer[o]
  BY <1>2 DEF TypeOK
<1>5. AtMostOneMail' /\ GateAgreesWithMarker' /\ MailIsHeld' /\ NoPhantomCopy'
  BY <1>1 DEF AtMostOneMail, GateAgreesWithMarker, MailIsHeld, Held, NoPhantomCopy
<1>6. FlightIsExclusive'
  BY <1>1, <1>4 DEF FlightIsExclusive
<1>7. CallMatchesProvider'
  BY <1>1, <1>3, <1>4 DEF CallMatchesProvider, RejectConfirm
<1> QED
  BY <1>5, <1>6, <1>7

\* A send starts only from a draft that is not held, so no other mail of that
\* draft can be on its way, and no other handler can be awaiting.
LEMMA StartSendKeeps ==
  ASSUME SendInvariant, NEW c \in Callers, StartSend(c), TypeOK'
  PROVE  SendInvariant'
<1> USE DEF SendInvariant
<1> DEFINE d == DraftOf[c]
<1>1. d \in Drafts /\ KeyOf[c] \in Keys /\ KeyOf[c] # NoKey
  BY CallersTyped
<1>2. ~Held(d)
  BY DEF StartSend, Held
<1>3. \A o \in Callers : DraftOf[o] = d => ~MayHaveLeft(o)
  BY <1>2 DEF MailIsHeld
<1>4. \A o \in Callers : DraftOf[o] = d => call[o] \notin Awaiting
  BY <1>2, CallersTyped DEF FlightIsExclusive, Held
<1>5. /\ gate'[d] = KeyOf[c]
      /\ \A e \in Drafts : e # d => gate'[e] = gate[e]
      /\ draftStatus' = draftStatus
  BY <1>1 DEF StartSend, TypeOK
<1>6. \A o \in Callers : /\ call'[o] = IF o = c THEN "sending" ELSE call[o]
                         /\ provider'[o] = IF o = c THEN "requested" ELSE provider[o]
  BY DEF StartSend, TypeOK
<1>7. UNCHANGED <<copies, answer, worker, index>>
  BY DEF StartSend
<1>8. AtMostOneMail'
  BY <1>3, <1>6 DEF AtMostOneMail
<1>9. GateAgreesWithMarker'
  <2> SUFFICES ASSUME NEW e \in Drafts, NEW k \in Keys
               PROVE  marker'[<<e, k>>] \in {"sending", "unknown"} <=> gate'[e] = k
    BY DEF GateAgreesWithMarker
  <2>1. CASE e = d /\ k = KeyOf[c]
    BY <1>1, <1>5, <2>1 DEF StartSend, SendKey, SendKeys, TypeOK
  <2>2. CASE ~(e = d /\ k = KeyOf[c])
    <3>1. marker'[<<e, k>>] = marker[<<e, k>>]
      BY <2>2 DEF StartSend, SendKey, SendKeys, TypeOK
    <3> QED
      BY <1>1, <1>5, <2>2, <3>1 DEF GateAgreesWithMarker, StartSend
  <2> QED
    BY <2>1, <2>2
<1>10. MailIsHeld'
  BY <1>1, <1>5, <1>6, CallersTyped DEF MailIsHeld, Held
<1>11. FlightIsExclusive'
  BY <1>3, <1>4, <1>5, <1>6, CallersTyped DEF FlightIsExclusive
<1>12. NoPhantomCopy'
  BY <1>3, <1>6, <1>7 DEF NoPhantomCopy, TypeOK
<1>13. CallMatchesProvider'
  BY <1>6, <1>7 DEF CallMatchesProvider, StartSend
<1> QED
  BY <1>8, <1>9, <1>10, <1>11, <1>12, <1>13

\* An unclear outcome keeps the gate and turns the marker from one open status
\* into another.
LEMMA SendAmbiguousKeeps ==
  ASSUME SendInvariant, NEW c \in Callers, SendAmbiguous(c), TypeOK'
  PROVE  SendInvariant'
<1> USE DEF SendInvariant
<1>1. UNCHANGED <<draftStatus, gate, copies, provider, worker, index>>
  BY DEF SendAmbiguous
<1>2. \A o \in Callers :
        /\ call'[o] = IF o = c THEN "answered" ELSE call[o]
        /\ answer'[o] = IF o = c THEN "ambiguous" ELSE answer[o]
  BY DEF SendAmbiguous, TypeOK
<1>3. GateAgreesWithMarker'
  <2> SUFFICES ASSUME NEW e \in Drafts, NEW k \in Keys
               PROVE  marker'[<<e, k>>] \in {"sending", "unknown"} <=> gate[e] = k
    BY <1>1 DEF GateAgreesWithMarker
  <2>1. CASE e = DraftOf[c] /\ k = KeyOf[c]
    BY <2>1 DEF SendAmbiguous, SendKey, SendKeys, TypeOK, FlightIsExclusive
  <2>2. CASE ~(e = DraftOf[c] /\ k = KeyOf[c])
    <3>1. marker'[<<e, k>>] = marker[<<e, k>>]
      BY <2>2 DEF SendAmbiguous, SendKey, SendKeys, TypeOK
    <3> QED
      BY <3>1 DEF GateAgreesWithMarker
  <2> QED
    BY <2>1, <2>2
<1>4. AtMostOneMail' /\ MailIsHeld' /\ NoPhantomCopy'
  BY <1>1 DEF AtMostOneMail, MailIsHeld, Held, NoPhantomCopy
<1>5. FlightIsExclusive'
  BY <1>1, <1>2 DEF FlightIsExclusive
<1>6. CallMatchesProvider'
  BY <1>1, <1>2 DEF CallMatchesProvider, SendAmbiguous
<1> QED
  BY <1>3, <1>4, <1>5, <1>6

\* When the handler that holds the gate gives it up, no marker of the draft
\* stays open: the only open one was its own.
LEMMA GateRelease ==
  ASSUME TypeOK, GateAgreesWithMarker, FlightIsExclusive,
         NEW c \in Callers, call[c] \in Awaiting,
         NEW m \in {"none", "sent"},
         marker' = [marker EXCEPT ![SendKey(c)] = m],
         gate' = [gate EXCEPT ![DraftOf[c]] = NoKey]
  PROVE  GateAgreesWithMarker'
<1> SUFFICES ASSUME NEW e \in Drafts, NEW k \in Keys
             PROVE  marker'[<<e, k>>] \in {"sending", "unknown"} <=> gate'[e] = k
  BY DEF GateAgreesWithMarker
<1>1. gate[DraftOf[c]] = KeyOf[c]
  BY DEF FlightIsExclusive
<1>2. gate'[e] = IF e = DraftOf[c] THEN NoKey ELSE gate[e]
  BY DEF TypeOK
<1>3. CASE e = DraftOf[c] /\ k = KeyOf[c]
  <2>1. marker'[<<e, k>>] = m
    BY <1>3, CallersTyped DEF SendKey, TypeOK
  <2> QED
    BY <1>2, <1>3, <2>1
<1>4. CASE ~(e = DraftOf[c] /\ k = KeyOf[c])
  <2>1. marker'[<<e, k>>] = marker[<<e, k>>]
    BY <1>4 DEF SendKey, SendKeys, TypeOK
  <2> QED
    BY <1>1, <1>2, <1>4, <2>1 DEF GateAgreesWithMarker
<1> QED
  BY <1>3, <1>4

\* A known refusal frees the draft, which no other mail of the draft holds.
LEMMA SendRefusedKeeps ==
  ASSUME SendInvariant, NEW c \in Callers, SendRefused(c), TypeOK'
  PROVE  SendInvariant'
<1> USE DEF SendInvariant
<1>1. UNCHANGED <<draftStatus, copies, provider, worker, index>>
  BY DEF SendRefused
<1>2. \A o \in Callers :
        /\ call'[o] = IF o = c THEN "answered" ELSE call[o]
        /\ answer'[o] = IF o = c THEN "error" ELSE answer[o]
  BY DEF SendRefused, TypeOK
<1>3. \A e \in Drafts : gate'[e] = IF e = DraftOf[c] THEN NoKey ELSE gate[e]
  BY DEF SendRefused, TypeOK
<1>4. \A o \in Callers : DraftOf[o] = DraftOf[c] => ~MayHaveLeft(o)
  BY DEF SendRefused, FlightIsExclusive
<1>5. \A o \in Callers : DraftOf[o] = DraftOf[c] => call'[o] \notin Awaiting
  BY <1>2 DEF SendRefused, FlightIsExclusive
<1>6. GateAgreesWithMarker'
  BY GateRelease DEF SendRefused
<1>7. MailIsHeld'
  BY <1>1, <1>3, <1>4, CallersTyped DEF MailIsHeld, Held
<1>8. FlightIsExclusive'
  BY <1>1, <1>2, <1>3, <1>5, CallersTyped DEF FlightIsExclusive
<1>9. AtMostOneMail' /\ NoPhantomCopy'
  BY <1>1 DEF AtMostOneMail, NoPhantomCopy, SendRefused
<1>10. CallMatchesProvider'
  BY <1>1, <1>2 DEF CallMatchesProvider, SendRefused
<1> QED
  BY <1>6, <1>7, <1>8, <1>9, <1>10

\* The commit frees the gate and closes the draft in one transaction.
LEMMA CommitSendKeeps ==
  ASSUME SendInvariant, NEW c \in Callers, CommitSend(c), TypeOK'
  PROVE  SendInvariant'
<1> USE DEF SendInvariant
<1>1. UNCHANGED <<provider, worker, index>> /\ copies' = copies \cup {c}
  BY DEF CommitSend
<1>2. \A o \in Callers :
        /\ call'[o] = IF o = c THEN "answered" ELSE call[o]
        /\ answer'[o] = IF o = c THEN "sent" ELSE answer[o]
  BY DEF CommitSend, TypeOK
<1>3. \A e \in Drafts :
        /\ gate'[e] = IF e = DraftOf[c] THEN NoKey ELSE gate[e]
        /\ draftStatus'[e] = IF e = DraftOf[c] THEN "sent" ELSE draftStatus[e]
  BY DEF CommitSend, TypeOK
<1>4. \A o \in Callers : DraftOf[o] = DraftOf[c] /\ o # c => ~MayHaveLeft(o)
  BY DEF CommitSend, FlightIsExclusive
<1>5. \A o \in Callers : DraftOf[o] = DraftOf[c] => call'[o] \notin Awaiting
  BY <1>2 DEF CommitSend, FlightIsExclusive
<1>6. provider[c] = "accepted"
  BY DEF CommitSend, CallMatchesProvider
<1>7. GateAgreesWithMarker'
  BY GateRelease DEF CommitSend
<1>8. MailIsHeld'
  BY <1>1, <1>3, CallersTyped DEF MailIsHeld, Held
<1>9. FlightIsExclusive'
  BY <1>1, <1>2, <1>3, <1>5, CallersTyped DEF FlightIsExclusive
<1>10. AtMostOneMail'
  BY <1>1 DEF AtMostOneMail
<1>11. NoPhantomCopy'
  BY <1>1, <1>4, <1>6 DEF NoPhantomCopy, TypeOK
<1>12. CallMatchesProvider'
  BY <1>1, <1>2 DEF CallMatchesProvider, CommitSend
<1> QED
  BY <1>7, <1>8, <1>9, <1>10, <1>11, <1>12

\* The provider only decides mail it already holds.
LEMMA ProviderStepKeeps ==
  ASSUME SendInvariant, NEW c \in Callers, ProviderStep(c) \/ SendResolves(c),
         TypeOK'
  PROVE  SendInvariant'
<1> USE DEF SendInvariant
<1>1. UNCHANGED <<draftStatus, marker, gate, copies, answer, worker, index>>
  BY DEF ProviderStep, ProviderAccepts, ProviderRefuses, SendResolves
<1>2. \A o \in Callers : MayHaveLeft(o)' => MayHaveLeft(o)
  BY DEF ProviderStep, ProviderAccepts, ProviderRefuses, SendResolves, TypeOK
<1>3. \A o \in Callers : call'[o] \in Awaiting => call[o] \in Awaiting
  BY DEF ProviderStep, ProviderAccepts, ProviderRefuses, SendResolves, TypeOK
<1>4. AtMostOneMail' /\ GateAgreesWithMarker' /\ MailIsHeld'
  BY <1>1, <1>2 DEF AtMostOneMail, GateAgreesWithMarker, MailIsHeld, Held
<1>5. NoPhantomCopy'
  BY <1>1 DEF NoPhantomCopy, TypeOK, ProviderStep, ProviderAccepts,
              ProviderRefuses, SendResolves
<1>6. FlightIsExclusive'
  BY <1>1, <1>2, <1>3 DEF FlightIsExclusive
<1>7. CallMatchesProvider'
  <2>1. CASE SendResolves(c)
    BY <1>1, <2>1 DEF SendResolves, CallMatchesProvider, TypeOK
  <2>2. CASE ProviderStep(c)
    BY <1>1, <2>2 DEF ProviderStep, ProviderAccepts, ProviderRefuses,
                      CallMatchesProvider, TypeOK
  <2> QED
    BY <2>1, <2>2
<1> QED
  BY <1>4, <1>5, <1>6, <1>7

\* A crash of the object stops handlers and changes nothing they stored; the
\* sweep and a stuttering step touch the ledger only.
LEMMA CrashAndSweepKeep ==
  ASSUME SendInvariant, ObjectCrash \/ Sweep \/ UNCHANGED vars, TypeOK'
  PROVE  SendInvariant'
<1> USE DEF SendInvariant
<1>1. UNCHANGED <<draftStatus, marker, gate, copies, answer, provider, worker,
                  index>>
  BY DEF ObjectCrash, Sweep, SweepList, SweepWrite, vars
<1>2. \A o \in Callers : \/ call'[o] = call[o]
                         \/ call[o] \in Awaiting /\ call'[o] = "dead"
  BY DEF ObjectCrash, Sweep, SweepList, SweepWrite, vars
<1>3. AtMostOneMail' /\ GateAgreesWithMarker' /\ MailIsHeld' /\ NoPhantomCopy'
  BY <1>1 DEF AtMostOneMail, GateAgreesWithMarker, MailIsHeld, Held, NoPhantomCopy
<1>4. FlightIsExclusive'
  BY <1>1, <1>2 DEF FlightIsExclusive
<1>5. CallMatchesProvider'
  BY <1>1, <1>2 DEF CallMatchesProvider
<1> QED
  BY <1>3, <1>4, <1>5

\* The inductive step of SendInvariant.
LEMMA InvariantStep == SendInvariant /\ [Next]_vars => SendInvariant'
<1> SUFFICES ASSUME SendInvariant, [Next]_vars PROVE SendInvariant'
  OBVIOUS
<1>1. TypeOK'
  BY TypeStep DEF SendInvariant
<1>2. ASSUME NEW d \in Drafts, DraftStep(d) PROVE SendInvariant'
  BY <1>1, <1>2, DraftStepKeeps
<1>3. ASSUME NEW c \in Callers, LookUp(c) \/ WorkerStep(c) \/ WorkerCrash(c)
      PROVE  SendInvariant'
  BY <1>1, <1>3, WorkerStepKeeps
<1>4. ASSUME NEW c \in Callers, HandlerStep(c) \/ ProviderStep(c)
      PROVE  SendInvariant'
  BY <1>1, <1>4, RejectConfirmKeeps, StartSendKeeps, SendAmbiguousKeeps,
     SendRefusedKeeps, CommitSendKeeps, ProviderStepKeeps
     DEF HandlerStep, SendSettles
<1>5. CASE ObjectCrash \/ Sweep \/ UNCHANGED vars
  BY <1>1, <1>5, CrashAndSweepKeep
<1> QED
  BY <1>2, <1>3, <1>4, <1>5 DEF Next

--------------------------------------------------------------------------------
(* The theorems.                                                           *)

\* In every reachable state the draft table, the markers, the gates and the
\* provider are related as confirmDraftSend and confirmSendDraft intend.
THEOREM Invariance == Spec => []SendInvariant
  BY InitInvariant, InvariantStep, PTL DEF Spec

\* Every variable keeps its type.
THEOREM TypeCorrect == Spec => []TypeOK
<1>1. SendInvariant => TypeOK
  BY DEF SendInvariant
<1> QED
  BY <1>1, Invariance, PTL

\* However many callers, keys, retries, crashes and cancellations, at most one
\* attempt of a draft is ever with a recipient or on its way to one.
THEOREM MailedAtMostOnce == Spec => []AtMostOneMail
<1>1. SendInvariant => AtMostOneMail
  BY DEF SendInvariant
<1> QED
  BY <1>1, Invariance, PTL

\* The gate of a draft and the markers of its attempts never part.
THEOREM GateMatchesMarker == Spec => []GateAgreesWithMarker
<1>1. SendInvariant => GateAgreesWithMarker
  BY DEF SendInvariant
<1> QED
  BY <1>1, Invariance, PTL

\* A stored or listed outbound message stands for mail the provider took.
THEOREM CopiesAreReal == Spec => []NoPhantomCopy
<1>1. SendInvariant => NoPhantomCopy
  BY DEF SendInvariant
<1> QED
  BY <1>1, Invariance, PTL

\* A draft that went out or was cancelled stays closed, and nothing is handed
\* to the provider for it any more.
THEOREM ClosedForGood == Spec => ClosedDraftStaysClosed
<1> DEFINE Closed(d) == draftStatus[d] \in {"sent", "cancelled"}
<1> DEFINE A == \A d \in Drafts : Closed(d) =>
       /\ draftStatus'[d] \in {"sent", "cancelled"}
       /\ \A c \in Callers :
            DraftOf[c] = d /\ provider[c] = "none" => provider'[c] = "none"
<1>1. TypeOK /\ [Next]_vars => A
  <2> SUFFICES ASSUME TypeOK, [Next]_vars, NEW d \in Drafts, Closed(d)
               PROVE  /\ draftStatus'[d] \in {"sent", "cancelled"}
                      /\ \A c \in Callers : DraftOf[c] = d /\ provider[c] = "none"
                                             => provider'[c] = "none"
    OBVIOUS
  <2> USE DEF TypeOK
  <2>1. ASSUME NEW e \in Drafts, DraftStep(e)
        PROVE  /\ draftStatus'[d] \in {"sent", "cancelled"}
               /\ provider' = provider
    BY <2>1 DEF DraftStep, CreateDraft, UpdateDraft, RequestSendDraft, CancelDraft
  <2>2. ASSUME NEW c \in Callers, LookUp(c) \/ WorkerStep(c) \/ WorkerCrash(c)
        PROVE  UNCHANGED <<draftStatus, provider>>
    BY <2>2 DEF LookUp, WorkerStep, Claim, Refetch, SettleLedger, FetchThrows,
                IndexMessage, WorkerCrash
  <2>3. ASSUME NEW c \in Callers, RejectConfirm(c) \/ SendSettles(c)
        PROVE  UNCHANGED <<draftStatus, provider>>
    BY <2>3 DEF RejectConfirm, SendSettles, SendResolves, SendAmbiguous, SendRefused
  <2>4. ASSUME NEW c \in Callers, StartSend(c)
        PROVE  /\ draftStatus' = draftStatus
               /\ DraftOf[c] # d
               /\ \A o \in Callers : o # c => provider'[o] = provider[o]
    BY <2>4 DEF StartSend
  <2>5. ASSUME NEW c \in Callers, CommitSend(c)
        PROVE  /\ draftStatus'[d] \in {"sent", "cancelled"}
               /\ provider' = provider
    BY <2>5 DEF CommitSend
  <2>6. ASSUME NEW c \in Callers, ProviderStep(c)
        PROVE  /\ draftStatus' = draftStatus
               /\ \A o \in Callers : provider[o] = "none" => provider'[o] = "none"
    BY <2>6 DEF ProviderStep, ProviderAccepts, ProviderRefuses
  <2>7. CASE ObjectCrash \/ Sweep \/ UNCHANGED vars
    BY <2>7 DEF ObjectCrash, Sweep, SweepList, SweepWrite, vars
  <2> QED
    BY <2>1, <2>2, <2>3, <2>4, <2>5, <2>6, <2>7 DEF Next, HandlerStep
<1>2. TypeOK /\ [Next]_vars => [A]_vars
  BY <1>1
<1> QED
  BY <1>2, TypeCorrect, PTL DEF Spec, ClosedDraftStaysClosed

\* Every step that moves a mail is the step DraftMail allows for it: a hand-over
\* finds the draft free, a verdict finds the attempt outstanding.
LEMMA StepRefines ==
  SendInvariant /\ [Next]_vars => [Promise!Next]_Promise!vars
<1> SUFFICES ASSUME SendInvariant, [Next]_vars
             PROVE  [Promise!Next]_Promise!vars
  OBVIOUS
<1> USE DEF SendInvariant
<1>1. ASSUME provider' = provider PROVE [Promise!Next]_Promise!vars
  BY <1>1 DEF Promise!vars
<1>2. ASSUME NEW c \in Callers, StartSend(c) PROVE Promise!Hand(DraftOf[c], c)
  <2>1. \A o \in Callers : DraftOf[o] = DraftOf[c] => ~MayHaveLeft(o)
    BY <1>2 DEF MailIsHeld, Held, StartSend
  <2>2. \A o \in Callers :
          provider'[o] = IF o = c THEN "requested" ELSE provider[o]
    BY <1>2 DEF StartSend, TypeOK
  <2> QED
    BY <2>1, <2>2, CallersTyped DEF Promise!Hand
<1>3. ASSUME NEW c \in Callers, ProviderAccepts(c)
      PROVE  Promise!Accept(DraftOf[c], c)
  <2>1. provider[c] = "requested" /\ \A o \in Callers :
          provider'[o] = IF o = c THEN "accepted" ELSE provider[o]
    BY <1>3 DEF ProviderAccepts, TypeOK
  <2> QED
    BY <2>1, CallersTyped DEF Promise!Accept
<1>4. ASSUME NEW c \in Callers, ProviderRefuses(c)
      PROVE  Promise!Refuse(DraftOf[c], c)
  <2>1. provider[c] = "requested" /\ \A o \in Callers :
          provider'[o] = IF o = c THEN "refused" ELSE provider[o]
    BY <1>4 DEF ProviderRefuses, TypeOK
  <2> QED
    BY <2>1, CallersTyped DEF Promise!Refuse
<1>5. ASSUME NEW d \in Drafts, DraftStep(d) PROVE provider' = provider
  BY <1>5 DEF DraftStep, CreateDraft, UpdateDraft, RequestSendDraft, CancelDraft
<1>6. ASSUME NEW c \in Callers, LookUp(c) \/ WorkerStep(c) \/ WorkerCrash(c)
      PROVE  provider' = provider
  BY <1>6 DEF LookUp, WorkerStep, Claim, Refetch, SettleLedger, FetchThrows,
              IndexMessage, WorkerCrash
<1>7. ASSUME NEW c \in Callers, RejectConfirm(c) \/ SendSettles(c) \/ CommitSend(c)
      PROVE  provider' = provider
  BY <1>7 DEF RejectConfirm, SendSettles, SendResolves, SendAmbiguous,
              SendRefused, CommitSend
<1>8. CASE ObjectCrash \/ Sweep \/ UNCHANGED vars
  BY <1>1, <1>8 DEF ObjectCrash, Sweep, SweepList, SweepWrite, vars
<1> QED
  BY <1>1, <1>2, <1>3, <1>4, <1>5, <1>6, <1>7, <1>8, CallersTyped
     DEF Next, HandlerStep, ProviderStep, Promise!Next

\* The whole machinery implements the one-sentence promise of DraftMail.
THEOREM KeepsThePromise == Spec => PromiseKept
<1>1. Init => Promise!Init
  BY DEF Init, Promise!Init
<1> QED
  BY <1>1, StepRefines, Invariance, PTL DEF Spec, PromiseKept, Promise!Spec
================================================================================
