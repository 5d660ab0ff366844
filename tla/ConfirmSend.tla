------------------------------ MODULE ConfirmSend ------------------------------
(***************************************************************************)
(* The one path that turns a confirmed draft into sent mail.               *)
(*                                                                         *)
(* Three parties keep state about one send.  The Worker runs               *)
(* confirmDraftSend and keeps the D1 ledger (outbound_sends) and the       *)
(* message index.  The mailbox Durable Object runs confirmSendDraft and    *)
(* keeps the draft, one marker per attempt and one gate per draft.  The    *)
(* mail provider is external: it accepts or refuses what EMAIL.send hands  *)
(* it, possibly long after the handler that asked stopped listening.       *)
(*                                                                         *)
(* The Durable Object is single-threaded and interleaves only at awaits,   *)
(* so code between two awaits is one action here.  Its storage survives a  *)
(* crash; a handler that was awaiting does not.  Several callers may use   *)
(* one attempt key (a double click, a retry), or different keys for one    *)
(* draft (the web UI and the Telegram button).                             *)
(***************************************************************************)
CONSTANTS
  Drafts,     \* drafts of one mailbox
  Keys,       \* attempt keys: a UI idempotency key, a Telegram token
  Callers,    \* executions of confirmDraftSend, each runs at most once
  DraftOf,    \* the draft each caller confirms
  KeyOf,      \* the attempt key each caller uses
  Texts,      \* contents a draft can have
  Oversized,  \* the contents with more than 50 recipients
  NoKey, NoText,
  Faults,     \* handlers may crash and calls to the object may break
  Stragglers  \* a live saga may outlast the sweep's ten minutes

ASSUME ConstantsAssumption ==
  /\ DraftOf \in [Callers -> Drafts]
  /\ KeyOf \in [Callers -> Keys]
  /\ Oversized \subseteq Texts
  /\ NoKey \notin Keys
  /\ NoText \notin Texts
  /\ Faults \in BOOLEAN
  /\ Stragglers \in BOOLEAN

VARIABLES
  \* Durable Object storage
  draftStatus,  \* outbound_drafts.status, "none" before the row exists
  draftText,    \* the content columns of outbound_drafts
  marker,       \* mailbox_meta[idempotencyKey], "none" when there is no row
  gate,         \* mailbox_meta["draft_sending:<id>"], the key that holds it
  copies,       \* callers whose call stored an outbound message row
  \* Durable Object handlers
  call,         \* progress of each caller's confirm-send request
  answer,       \* the body the handler answered with
  \* the provider (external)
  provider,     \* what became of the mail each call handed over
  \* Worker and D1
  worker,       \* progress of each caller's confirmDraftSend
  ledger,       \* outbound_sends.status by idempotency key
  index,        \* callers whose sent message is in message_index
  swept         \* rows the running cron sweep listed and has yet to write

doVars == <<draftStatus, draftText, marker, gate, copies>>
callVars == <<call, answer>>
d1Vars == <<ledger, index, swept>>
vars == <<draftStatus, draftText, marker, gate, copies, call, answer,
          provider, worker, ledger, index, swept>>

DraftStatus == {"none", "draft", "pending_confirmation", "sent", "cancelled"}
MarkerStatus == {"none", "sending", "sent", "unknown"}
LedgerStatus == {"none", "sending", "sent", "failed", "unknown"}
CallState == {"none", "requested", "sending", "storing", "answered", "dead"}
WorkerState ==
  {"idle", "looked", "refetch", "calling", "indexing", "done", "crashed"}
Answers ==
  {"none", "sent", "duplicate_sent", "duplicate_sending", "ambiguous",
   "duplicate_ambiguous", "already_sending", "not_pending", "too_many", "error"}

\* outboundSendIdempotencyKey: "send:v1:<draft>:<attempt>".
SendKeys == Drafts \X Keys
SendKey(c) == <<DraftOf[c], KeyOf[c]>>

TypeOK ==
  /\ draftStatus \in [Drafts -> DraftStatus]
  /\ draftText \in [Drafts -> Texts \cup {NoText}]
  /\ marker \in [SendKeys -> MarkerStatus]
  /\ gate \in [Drafts -> Keys \cup {NoKey}]
  /\ copies \subseteq Callers
  /\ call \in [Callers -> CallState]
  /\ answer \in [Callers -> Answers]
  /\ provider \in [Callers -> {"none", "requested", "accepted", "refused"}]
  /\ worker \in [Callers -> WorkerState]
  /\ ledger \in [SendKeys -> LedgerStatus]
  /\ index \subseteq Callers
  /\ swept \subseteq SendKeys

Init ==
  /\ draftStatus = [d \in Drafts |-> "none"]
  /\ draftText = [d \in Drafts |-> NoText]
  /\ marker = [i \in SendKeys |-> "none"]
  /\ gate = [d \in Drafts |-> NoKey]
  /\ copies = {}
  /\ call = [c \in Callers |-> "none"]
  /\ answer = [c \in Callers |-> "none"]
  /\ provider = [c \in Callers |-> "none"]
  /\ worker = [c \in Callers |-> "idle"]
  /\ ledger = [i \in SendKeys |-> "none"]
  /\ index = {}
  /\ swept = {}

--------------------------------------------------------------------------------
(* The draft's own life: create, edit, arm, cancel.                        *)

allButDraft == <<marker, gate, copies, callVars, provider, worker, d1Vars>>

\* A create that repeats an idempotency key inserts nothing and returns the
\* row that is there, so only the first one is a step.
CreateDraft(d, t) ==
  /\ draftStatus[d] = "none"
  /\ draftStatus' = [draftStatus EXCEPT ![d] = "draft"]
  /\ draftText' = [draftText EXCEPT ![d] = t]
  /\ UNCHANGED allButDraft

\* The row is rewritten whatever its status; the status column is kept.
UpdateDraft(d, t) ==
  /\ draftStatus[d] # "none"
  /\ draftText' = [draftText EXCEPT ![d] = t]
  /\ UNCHANGED draftStatus
  /\ UNCHANGED allButDraft

\* Mutant: any existing draft can be armed, sent and cancelled ones included.
RequestSendAnyStatus(d) ==
  /\ draftStatus[d] # "none"
  /\ draftStatus' = [draftStatus EXCEPT ![d] = "pending_confirmation"]
  /\ UNCHANGED draftText
  /\ UNCHANGED allButDraft

RequestSendDraft(d) ==
  /\ draftStatus[d] \in {"draft", "pending_confirmation"}
  /\ draftStatus' = [draftStatus EXCEPT ![d] = "pending_confirmation"]
  /\ UNCHANGED draftText
  /\ UNCHANGED allButDraft

\* No status is tested: a draft in flight, or sent, can be cancelled too.
CancelDraft(d) ==
  /\ draftStatus[d] # "none"
  /\ draftStatus' = [draftStatus EXCEPT ![d] = "cancelled"]
  /\ UNCHANGED draftText
  /\ UNCHANGED allButDraft

--------------------------------------------------------------------------------
(* The Worker, before the call: read the ledger, claim the row.            *)

\* A row that already says sent ends the saga here.
LookUp(c) ==
  /\ worker[c] = "idle"
  /\ worker' = [worker EXCEPT ![c] =
       IF ledger[SendKey(c)] = "sent" THEN "done" ELSE "looked"]
  /\ UNCHANGED <<doVars, callVars, provider, d1Vars>>

\* INSERT OR IGNORE of a 'sending' row: only the first caller inserts.
Claim(c) ==
  /\ worker[c] = "looked"
  /\ IF ledger[SendKey(c)] = "none"
     THEN /\ ledger' = [ledger EXCEPT ![SendKey(c)] = "sending"]
          /\ worker' = [worker EXCEPT ![c] = "calling"]
          /\ call' = [call EXCEPT ![c] = "requested"]
     ELSE /\ worker' = [worker EXCEPT ![c] = "refetch"]
          /\ UNCHANGED <<ledger, call>>
  /\ UNCHANGED <<doVars, answer, provider, index, swept>>

\* Mutant: an 'unknown' row, which the sweep wrote meanwhile, is not expected.
RefetchWithoutUnknown(c) ==
  /\ worker[c] = "refetch"
  /\ \/ /\ ledger[SendKey(c)] \in {"sent", "sending"}
        /\ worker' = [worker EXCEPT ![c] = "done"]
        /\ UNCHANGED call
     \/ /\ ledger[SendKey(c)] = "failed"
        /\ worker' = [worker EXCEPT ![c] = "calling"]
        /\ call' = [call EXCEPT ![c] = "requested"]
  /\ UNCHANGED <<doVars, answer, provider, d1Vars>>

\* The row was there: sent and sending end the saga, failed and unknown
\* fall through to the Durable Object.
Refetch(c) ==
  /\ worker[c] = "refetch"
  /\ \/ /\ ledger[SendKey(c)] \in {"sent", "sending"}
        /\ worker' = [worker EXCEPT ![c] = "done"]
        /\ UNCHANGED call
     \/ /\ ledger[SendKey(c)] \in {"failed", "unknown"}
        /\ worker' = [worker EXCEPT ![c] = "calling"]
        /\ call' = [call EXCEPT ![c] = "requested"]
  /\ UNCHANGED <<doVars, answer, provider, d1Vars>>

--------------------------------------------------------------------------------
(* The Durable Object: confirmSendDraft up to its first await.             *)

Answer(c, a) ==
  /\ call' = [call EXCEPT ![c] = "answered"]
  /\ answer' = [answer EXCEPT ![c] = a]

MarkerAnswer(m) ==
  CASE m = "sending" -> "duplicate_sending"
    [] m = "sent"    -> "duplicate_sent"
    [] OTHER         -> "duplicate_ambiguous"

\* What the handler answers without touching the provider.  Losing the gate
\* inserts the attempt's marker and deletes it again before the first await.
Rejects(c, a) ==
  LET d == DraftOf[c]
      m == marker[SendKey(c)]
  IN \/ draftStatus[d] = "none" /\ a = "error"
     \/ draftStatus[d] # "none" /\ m # "none" /\ a = MarkerAnswer(m)
     \/ /\ m = "none"
        /\ draftStatus[d] \notin {"none", "pending_confirmation"}
        /\ a = "not_pending"
     \/ /\ m = "none"
        /\ draftStatus[d] = "pending_confirmation"
        /\ \/ draftText[d] \in Oversized /\ a = "too_many"
           \/ /\ draftText[d] \notin Oversized
              /\ gate[d] # NoKey
              /\ a = "already_sending"

RejectConfirm(c) ==
  /\ call[c] = "requested"
  /\ \E a \in Answers : Rejects(c, a) /\ Answer(c, a)
  /\ UNCHANGED <<doVars, provider, worker, d1Vars>>

\* Mutant: only the attempt's own marker is tested, not the draft's gate.
StartSendUngated(c) ==
  LET d == DraftOf[c] IN
  /\ call[c] = "requested"
  /\ draftStatus[d] = "pending_confirmation"
  /\ draftText[d] \notin Oversized
  /\ marker[SendKey(c)] = "none"
  /\ marker' = [marker EXCEPT ![SendKey(c)] = "sending"]
  /\ gate' = [gate EXCEPT ![d] = KeyOf[c]]
  /\ call' = [call EXCEPT ![c] = "sending"]
  /\ provider' = [provider EXCEPT ![c] = "requested"]
  /\ UNCHANGED <<draftStatus, draftText, copies, answer, worker, d1Vars>>

\* The synchronous prefix that reaches EMAIL.send: marker, gate, hand over.
StartSend(c) ==
  LET d == DraftOf[c] IN
  /\ call[c] = "requested"
  /\ draftStatus[d] = "pending_confirmation"
  /\ draftText[d] \notin Oversized
  /\ marker[SendKey(c)] = "none"
  /\ gate[d] = NoKey
  /\ marker' = [marker EXCEPT ![SendKey(c)] = "sending"]
  /\ gate' = [gate EXCEPT ![d] = KeyOf[c]]
  /\ call' = [call EXCEPT ![c] = "sending"]
  /\ provider' = [provider EXCEPT ![c] = "requested"]
  /\ UNCHANGED <<draftStatus, draftText, copies, answer, worker, d1Vars>>

--------------------------------------------------------------------------------
(* The provider (external), and what the handler does when send settles.   *)

ProviderAccepts(c) ==
  /\ provider[c] = "requested"
  /\ provider' = [provider EXCEPT ![c] = "accepted"]
  /\ UNCHANGED <<doVars, callVars, worker, d1Vars>>

ProviderRefuses(c) ==
  /\ provider[c] = "requested"
  /\ provider' = [provider EXCEPT ![c] = "refused"]
  /\ UNCHANGED <<doVars, callVars, worker, d1Vars>>

\* send resolved; the handler now awaits the R2 put and the digest.
SendResolves(c) ==
  /\ call[c] = "sending"
  /\ provider[c] = "accepted"
  /\ call' = [call EXCEPT ![c] = "storing"]
  /\ UNCHANGED <<doVars, answer, provider, worker, d1Vars>>

\* Mutant: the draft's status is left for a later write.
CommitWithoutDraft(c) ==
  /\ call[c] = "storing"
  /\ marker' = [marker EXCEPT ![SendKey(c)] = "sent"]
  /\ gate' = [gate EXCEPT ![DraftOf[c]] = NoKey]
  /\ copies' = copies \cup {c}
  /\ Answer(c, "sent")
  /\ UNCHANGED <<draftStatus, draftText, provider, worker, d1Vars>>

\* transactionSync: marker, draft, gate and the outbound message together.
\* A failed R2 put costs the HTML rendering only, so it is no case here.
CommitSend(c) ==
  /\ call[c] = "storing"
  /\ marker' = [marker EXCEPT ![SendKey(c)] = "sent"]
  /\ draftStatus' = [draftStatus EXCEPT ![DraftOf[c]] = "sent"]
  /\ gate' = [gate EXCEPT ![DraftOf[c]] = NoKey]
  /\ copies' = copies \cup {c}
  /\ Answer(c, "sent")
  /\ UNCHANGED <<draftText, provider, worker, d1Vars>>

\* Mutant: every error of send is treated as a refusal.
AmbiguousFreesDraft(c) ==
  /\ call[c] = "sending"
  /\ marker' = [marker EXCEPT ![SendKey(c)] = "none"]
  /\ gate' = [gate EXCEPT ![DraftOf[c]] = NoKey]
  /\ Answer(c, "error")
  /\ UNCHANGED <<draftStatus, draftText, copies, provider, worker, d1Vars>>

\* Any error that is not a known refusal: the mail may have left, so the
\* gate stays and the marker becomes unknown.
SendAmbiguous(c) ==
  /\ call[c] = "sending"
  /\ marker' = [marker EXCEPT ![SendKey(c)] = "unknown"]
  /\ Answer(c, "ambiguous")
  /\ UNCHANGED <<draftStatus, draftText, gate, copies, provider, worker,
                 d1Vars>>

\* Mutant: the attempt is forgotten and the draft's gate is not.
RefusedKeepsGate(c) ==
  /\ call[c] = "sending"
  /\ provider[c] = "refused"
  /\ marker' = [marker EXCEPT ![SendKey(c)] = "none"]
  /\ Answer(c, "error")
  /\ UNCHANGED <<draftStatus, draftText, gate, copies, provider, worker, d1Vars>>

\* A known refusal: forget the attempt, free the draft, rethrow.
SendRefused(c) ==
  /\ call[c] = "sending"
  /\ provider[c] = "refused"
  /\ marker' = [marker EXCEPT ![SendKey(c)] = "none"]
  /\ gate' = [gate EXCEPT ![DraftOf[c]] = NoKey]
  /\ Answer(c, "error")
  /\ UNCHANGED <<draftStatus, draftText, copies, provider, worker, d1Vars>>

--------------------------------------------------------------------------------
(* The Worker, after the call.                                             *)

\* The ledger status each answer is recorded as.
LedgerVerdict(a) ==
  CASE a \in {"sent", "duplicate_sent", "already_sending"} -> "sent"
    [] a \in {"ambiguous", "duplicate_ambiguous"}          -> "unknown"
    [] a = "duplicate_sending"                             -> "sending"
    [] OTHER                                               -> "failed"

\* Mutant: a duplicate of a sent attempt is indexed as a send of its own.
SettleIndexesDuplicates(c) ==
  /\ worker[c] = "calling"
  /\ call[c] = "answered"
  /\ ledger' = [ledger EXCEPT ![SendKey(c)] = LedgerVerdict(answer[c])]
  /\ worker' = [worker EXCEPT ![c] =
       IF LedgerVerdict(answer[c]) = "sent" THEN "indexing" ELSE "done"]
  /\ UNCHANGED <<doVars, callVars, provider, index, swept>>

\* The status is written whatever the row says by now.
SettleLedger(c) ==
  /\ worker[c] = "calling"
  /\ call[c] = "answered"
  /\ ledger' = [ledger EXCEPT ![SendKey(c)] = LedgerVerdict(answer[c])]
  /\ worker' = [worker EXCEPT ![c] =
       IF answer[c] = "sent" THEN "indexing" ELSE "done"]
  /\ UNCHANGED <<doVars, callVars, provider, index, swept>>

\* The call to the object broke: its handler died, or the connection did,
\* which drops a request not yet delivered and leaves a handler running.
FetchThrows(c) ==
  /\ worker[c] = "calling"
  /\ call[c] = "dead" \/ Faults
  /\ ledger' = [ledger EXCEPT ![SendKey(c)] = "failed"]
  /\ worker' = [worker EXCEPT ![c] = "done"]
  /\ call' = [call EXCEPT ![c] = IF @ = "requested" THEN "dead" ELSE @]
  /\ UNCHANGED <<doVars, answer, provider, index, swept>>

\* message_index, then the best-effort Telegram card refresh.
IndexMessage(c) ==
  /\ worker[c] = "indexing"
  /\ index' = index \cup {c}
  /\ worker' = [worker EXCEPT ![c] = "done"]
  /\ UNCHANGED <<doVars, callVars, provider, ledger, swept>>

--------------------------------------------------------------------------------
(* Crashes, and the hourly sweep of stale 'sending' rows.                  *)

\* A thrown D1 call in the middle of the saga is the same thing.
WorkerCrash(c) ==
  /\ Faults
  /\ worker[c] \in {"looked", "refetch", "calling", "indexing"}
  /\ worker' = [worker EXCEPT ![c] = "crashed"]
  /\ UNCHANGED <<doVars, callVars, provider, d1Vars>>

Awaiting == {"sending", "storing"}

\* Every handler of the mailbox dies; storage stays, and so does the mail.
ObjectCrash ==
  /\ Faults
  /\ \E c \in Callers : call[c] \in Awaiting
  /\ call' = [c \in Callers |->
                IF call[c] \in Awaiting THEN "dead" ELSE call[c]]
  /\ UNCHANGED <<doVars, answer, provider, worker, d1Vars>>

\* Mutant: a row is left alone while the object's marker says 'sending'.
StaleUnlessMarked(i) == ledger[i] = "sending" /\ marker[i] # "sending"

\* A 'sending' row older than the threshold.  Without stragglers no saga that
\* is still waiting for its answer is that old.
Stale(i) ==
  /\ ledger[i] = "sending"
  /\ Stragglers \/ \A c \in Callers : SendKey(c) = i => worker[c] # "calling"

SweepList ==
  /\ swept = {}
  /\ \E i \in SendKeys : Stale(i)
  /\ swept' = {i \in SendKeys : Stale(i)}
  /\ UNCHANGED <<doVars, callVars, provider, worker, ledger, index>>

\* One listed row at a time, each update unconditional.
SweepWrite(i) ==
  /\ i \in swept
  /\ ledger' = [ledger EXCEPT ![i] = "unknown"]
  /\ swept' = swept \ {i}
  /\ UNCHANGED <<doVars, callVars, provider, worker, index>>

--------------------------------------------------------------------------------

DraftStep(d) ==
  \/ \E t \in Texts : CreateDraft(d, t) \/ UpdateDraft(d, t)
  \/ RequestSendDraft(d)
  \/ CancelDraft(d)

WorkerStep(c) ==
  \/ Claim(c) \/ Refetch(c)
  \/ SettleLedger(c) \/ FetchThrows(c) \/ IndexMessage(c)

SendSettles(c) == SendResolves(c) \/ SendAmbiguous(c) \/ SendRefused(c)

HandlerStep(c) ==
  \/ RejectConfirm(c) \/ StartSend(c)
  \/ SendSettles(c) \/ CommitSend(c)

ProviderStep(c) == ProviderAccepts(c) \/ ProviderRefuses(c)

Sweep == SweepList \/ \E i \in SendKeys : SweepWrite(i)

Next ==
  \/ \E d \in Drafts : DraftStep(d)
  \/ \E c \in Callers :
       \/ LookUp(c) \/ WorkerStep(c) \/ HandlerStep(c) \/ ProviderStep(c)
       \/ WorkerCrash(c)
  \/ ObjectCrash
  \/ Sweep

Spec == Init /\ [][Next]_vars

\* A request the runtime accepted keeps running until it answers or dies, an
\* awaited send settles, and the cron trigger fires every hour.  Nobody has
\* to press a button, and the provider owes nothing.
Fairness ==
  /\ \A c \in Callers : WF_vars(WorkerStep(c)) /\ WF_vars(HandlerStep(c))
  /\ WF_vars(Sweep)

FairSpec == Spec /\ Fairness

--------------------------------------------------------------------------------
(* Properties.                                                             *)

\* The mail of caller c left, or may still leave.
MayHaveLeft(c) == provider[c] \in {"requested", "accepted"}

\* Whatever the keys, retries, crashes and cancellations, at most one attempt
\* of a draft can reach a recipient: the gate of confirmSendDraft must outlive
\* every outcome that is not a known refusal.
AtMostOneMail ==
  \A c1, c2 \in Callers :
    DraftOf[c1] = DraftOf[c2] /\ MayHaveLeft(c1) /\ MayHaveLeft(c2) => c1 = c2

\* A draft's gate is held by an attempt exactly while that attempt's marker
\* says the outcome is open or unknown: a gate without such a marker would
\* block the draft for nothing, a marker without the gate would leave it open.
GateAgreesWithMarker ==
  \A d \in Drafts, k \in Keys :
    marker[<<d, k>>] \in {"sending", "unknown"} <=> gate[d] = k

\* No phantom rows: the index lists a sent message only when the mailbox has
\* that message, the mailbox has it only when the provider took the mail, and
\* a draft leaves at most one sent copy behind.
NoPhantomCopy ==
  /\ index \subseteq copies
  /\ \A c \in copies : provider[c] = "accepted"
  /\ \A c1, c2 \in copies : DraftOf[c1] = DraftOf[c2] => c1 = c2

\* A draft that went out, or was cancelled, can never be armed again, and no
\* mail is handed over for it any more.
ClosedDraftStaysClosed ==
  [][\A d \in Drafts :
       draftStatus[d] \in {"sent", "cancelled"} =>
         /\ draftStatus'[d] \in {"sent", "cancelled"}
         /\ \A c \in Callers :
              DraftOf[c] = d /\ provider[c] = "none" => provider'[c] = "none"]_vars

\* Why the above hold, as one inductive invariant.  A draft is held while its
\* gate is taken and for ever once it is closed: mail that may have left holds
\* its draft, and a handler still awaiting is the only one that may have sent.
Held(d) == gate[d] # NoKey \/ draftStatus[d] \in {"sent", "cancelled"}

MailIsHeld == \A c \in Callers : MayHaveLeft(c) => Held(DraftOf[c])

FlightIsExclusive ==
  \A c \in Callers :
    call[c] \in Awaiting =>
      /\ gate[DraftOf[c]] = KeyOf[c]
      /\ \A o \in Callers :
           DraftOf[o] = DraftOf[c] /\ o # c =>
             call[o] \notin Awaiting /\ ~MayHaveLeft(o)

CallMatchesProvider ==
  \A c \in Callers :
    /\ worker[c] \in {"idle", "looked", "refetch"} => call[c] = "none"
    /\ call[c] \in {"none", "requested"} => provider[c] = "none"
    /\ call[c] = "storing" => provider[c] = "accepted"
    /\ answer[c] = "sent" => c \in copies
    /\ worker[c] = "indexing" => c \in copies

SendInvariant ==
  /\ TypeOK
  /\ AtMostOneMail
  /\ GateAgreesWithMarker
  /\ NoPhantomCopy
  /\ MailIsHeld
  /\ FlightIsExclusive
  /\ CallMatchesProvider

\* The promise of DraftMail, read off the provider.
Promise == INSTANCE DraftMail WITH
  Attempts <- Callers,
  outstanding <- [d \in Drafts |->
    {c \in Callers : DraftOf[c] = d /\ provider[c] = "requested"}],
  mailed <- [d \in Drafts |->
    {c \in Callers : DraftOf[c] = d /\ provider[c] = "accepted"}]

PromiseKept == Promise!Spec

\* A row left at 'sending' by a crash is always found and moved on.
SendingRowIsResolved ==
  \A i \in SendKeys : ledger[i] = "sending" ~> ledger[i] # "sending"

\* Every caller that started gets an answer, unless its own Worker crashed.
CallerIsAnswered ==
  \A c \in Callers : worker[c] = "looked" ~> worker[c] \in {"done", "crashed"}

--------------------------------------------------------------------------------
(* What documents and comments of the repository say, and the code breaks. *)

\* The ledger is the audit trail of what was sent: a row says 'sent' only when
\* some mail of that draft left, or may yet have.
SentRowMeansMailed ==
  \A i \in SendKeys :
    ledger[i] = "sent" =>
      \E c \in Callers : DraftOf[c] = i[1] /\ MayHaveLeft(c)

\* An attempt whose mail went out in spite of the error its caller saw is
\* recorded 'unknown', never 'failed'.
FailedRowMeansNotMailed ==
  \A c \in Callers :
    worker[c] = "done" /\ provider[c] = "accepted" =>
      ledger[SendKey(c)] # "failed"

\* Rows move to a terminal status and stay there: 'sent' is final.
SentRowIsFinal ==
  [][\A i \in SendKeys : ledger[i] = "sent" => ledger'[i] = "sent"]_vars
================================================================================
