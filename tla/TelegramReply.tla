----------------------------- MODULE TelegramReply -----------------------------
(***************************************************************************)
(* A reply typed in Telegram (telegram/webhook, telegram/drafts): one      *)
(* message of the operator becomes a draft, a Send button and a preview;   *)
(* the preview is corrected by editing the message or replying to it, and  *)
(* a button sends or discards the draft.                                   *)
(*                                                                         *)
(* Telegram delivers an update again when the webhook does not answer, so  *)
(* each handler may die between two steps and start over.  The draft       *)
(* object runs on by itself once it has been asked to send.  A text is     *)
(* named by its edit, the first one is 0; a preview also counts versions,   *)
(* which nothing reads but the preview.                                    *)
(***************************************************************************)
EXTENDS FiniteSets, Naturals

CONSTANTS
    Edits,          \* corrections of the reply: positive numbers
    Presses,        \* presses of a button of the preview
    Unsent,         \* nothing handed to the provider
    MaxReplyFaults  \* bound: handlers that die, answers that get lost

ASSUME ReplyAssumption ==
    /\ Edits \subseteq Nat \ {0} /\ Unsent \notin Nat
    /\ MaxReplyFaults \in Nat

VARIABLES
    draft,          \* outbound_drafts: status and text of the row
    marker,         \* the send marker of the button's token
    wire, mailed,   \* the text handed to the provider, and how often
    action,         \* telegram_actions: the row of the button
    preview,        \* the preview in the chat, and its row in telegram_drafts
    update,         \* the handler of the reply
    edit, press,    \* the handlers of corrections and presses
    seen,           \* the text the preview showed when Send was pressed
    raced,          \* two gestures overlapped, or the preview went stale
    replyFaults

replyVars == <<draft, marker, wire, mailed, action, preview, update, edit, press, seen,
               raced, replyFaults>>

EDITABLE_STATUSES == {"draft", "pending_confirmation"}
NoPress == [at |-> "new", verb |-> "s"]

ReplyInit ==
    /\ draft = [status |-> "none", text |-> 0]
    /\ marker = "none" /\ wire = Unsent /\ mailed = 0 /\ action = FALSE
    /\ preview = [buttons |-> FALSE, row |-> FALSE, shown |-> 0]
    /\ update = "new"
    /\ edit = [e \in Edits |-> "new"] /\ press = [b \in Presses |-> NoPress]
    /\ seen = Unsent /\ raced = FALSE /\ replyFaults = 0

ReplyFault == replyFaults < MaxReplyFaults /\ replyFaults' = replyFaults + 1
Correcting == \E e \in Edits : edit[e] \notin {"new", "done"}
Pressing == marker = "sending" \/ \E b \in Presses : press[b].at \notin {"new", "done"}

-----------------------------------------------------------------------------
(* The reply itself: handleMessage.                                        *)
UpdateTo(point) == update' = point

(* The idempotency key names the message: one draft, however often.        *)
createDraft ==
    /\ update = "new"
    /\ draft' = IF draft.status = "none" THEN [draft EXCEPT !.status = "draft"] ELSE draft
    /\ UpdateTo("arm")
    /\ UNCHANGED <<marker, wire, mailed, action, preview, edit, press, seen, raced, replyFaults>>

(* Only a draft can be armed; one that is sent or cancelled is left alone. *)
requestSendDraft ==
    /\ update = "arm"
    /\ IF draft.status \in EDITABLE_STATUSES
       THEN draft' = [draft EXCEPT !.status = "pending_confirmation"] /\ UpdateTo("insert")
       ELSE UNCHANGED draft /\ UpdateTo("done")
    /\ UNCHANGED <<marker, wire, mailed, action, preview, edit, press, seen, raced, replyFaults>>

(* A plain INSERT under a token that is always the same: where the row is  *)
(* there already, the handler throws.                                      *)
insertTelegramAction ==
    /\ update = "insert"
    /\ action' = TRUE
    /\ UpdateTo(IF action THEN "failed" ELSE "show")
    /\ UNCHANGED <<draft, marker, wire, mailed, preview, edit, press, seen, raced, replyFaults>>

(* The preview shows what was typed, whatever the draft holds by now.      *)
sendPreview ==
    /\ update = "show"
    /\ preview' = [buttons |-> TRUE, row |-> FALSE, shown |-> 0]
    /\ raced' = (raced \/ draft.text # 0)
    /\ UpdateTo("remember")
    /\ UNCHANGED <<draft, marker, wire, mailed, action, edit, press, seen, replyFaults>>

rememberDraftPreview ==
    /\ update = "remember"
    /\ preview' = [preview EXCEPT !.row = TRUE]
    /\ UpdateTo("done")
    /\ UNCHANGED <<draft, marker, wire, mailed, action, edit, press, seen, raced, replyFaults>>

(* A handler that throws or dies, or whose answer is lost, is run again    *)
(* from the start, a bounded number of times.                              *)
UpdateAgain ==
    /\ update # "new" /\ ReplyFault
    /\ UpdateTo("new")
    /\ UNCHANGED <<draft, marker, wire, mailed, action, preview, edit, press, seen, raced>>

-----------------------------------------------------------------------------
(* A correction: the row that names the draft, the draft's status, its     *)
(* body, the preview.                                                      *)
EditTo(e, point) == edit' = [edit EXCEPT ![e] = point]

getDraftRow(e) ==
    /\ edit[e] = "new" /\ preview.row
    /\ EditTo(e, "check")
    /\ raced' = (raced \/ Correcting \/ Pressing \/ update \notin {"done", "failed"})
    /\ UNCHANGED <<draft, marker, wire, mailed, action, preview, update, press, seen, replyFaults>>

(* Mutant: the status is not looked at.                                    *)
editUnchecked(e) ==
    /\ edit[e] = "check"
    /\ EditTo(e, "patch")
    /\ UNCHANGED <<draft, marker, wire, mailed, action, preview, update, press, seen, raced, replyFaults>>

(* Only a draft that is still open is corrected; of one that is closed the *)
(* row is forgotten.                                                       *)
checkStatus(e) ==
    /\ edit[e] = "check"
    /\ IF draft.status \in EDITABLE_STATUSES
       THEN EditTo(e, "patch") /\ UNCHANGED preview
       ELSE EditTo(e, "done") /\ preview' = [preview EXCEPT !.row = FALSE]
    /\ UNCHANGED <<draft, marker, wire, mailed, action, update, press, seen, raced, replyFaults>>

(* The object rewrites the body whatever the status is by then.            *)
applyDraftEdit(e) ==
    /\ edit[e] = "patch"
    /\ draft' = [draft EXCEPT !.text = e]
    /\ EditTo(e, "restate")
    /\ UNCHANGED <<marker, wire, mailed, action, preview, update, press, seen, raced, replyFaults>>

(* The preview is edited in place, its buttons with it; where that fails   *)
(* the operator is told.                                                   *)
restatePreview(e) ==
    /\ edit[e] = "restate"
    /\ EditTo(e, "done")
    /\ \/ /\ preview' = [preview EXCEPT !.shown = e, !.buttons = TRUE]
          /\ UNCHANGED <<raced, replyFaults>>
       \/ ReplyFault /\ raced' = TRUE /\ UNCHANGED preview
    /\ UNCHANGED <<draft, marker, wire, mailed, action, update, press, seen>>

EditAgain(e) ==
    /\ edit[e] \in {"check", "patch", "restate"} /\ ReplyFault
    /\ EditTo(e, "new")
    /\ raced' = TRUE
    /\ UNCHANGED <<draft, marker, wire, mailed, action, preview, update, press, seen>>

-----------------------------------------------------------------------------
(* The buttons: handleCallbackQuery.                                       *)
PressTo(b, point) == press' = [press EXCEPT ![b].at = point]

(* A press reaches the handler while the preview has its buttons; what the *)
(* row does not vouch for is answered as expired.                          *)
getTelegramAction(b, verb) ==
    /\ press[b].at = "new" /\ preview.buttons
    /\ press' = [press EXCEPT ![b] = [at |-> IF action THEN verb ELSE "done", verb |-> verb]]
    /\ seen' = IF action /\ verb = "s" /\ seen = Unsent THEN preview.shown ELSE seen
    /\ raced' = (raced \/ (action /\ (Correcting \/ Pressing \/ update \notin {"done", "failed"})))
    /\ UNCHANGED <<draft, marker, wire, mailed, action, preview, update, edit, replyFaults>>

(* The token is the attempt key: a marker under it answers every repeat.   *)
confirmDraftSend(b) ==
    /\ press[b].at = "s"
    /\ IF marker = "none" /\ draft.status = "pending_confirmation"
       THEN marker' = "sending" /\ wire' = draft.text /\ mailed' = mailed + 1
       ELSE UNCHANGED <<marker, wire, mailed>>
    /\ PressTo(b, "answered")
    /\ UNCHANGED <<draft, action, preview, update, edit, seen, raced, replyFaults>>

(* What the provider answers, in the object: the row is marked sent        *)
(* whatever it says by then.                                               *)
SendSettles ==
    /\ marker = "sending"
    /\ \/ marker' = "sent" /\ draft' = [draft EXCEPT !.status = "sent"]
       \/ marker' = "failed" /\ UNCHANGED draft
    /\ UNCHANGED <<wire, mailed, action, preview, update, edit, press, seen, raced, replyFaults>>

(* Discarded, without a look at the status.                                *)
cancelDraft(b) ==
    /\ press[b].at = "x"
    /\ draft' = [draft EXCEPT !.status = "cancelled"]
    /\ PressTo(b, "answered")
    /\ UNCHANGED <<marker, wire, mailed, action, preview, update, edit, seen, raced, replyFaults>>

(* The handler goes on once the object has answered.                       *)
deleteTelegramAction(b) ==
    /\ press[b].at = "answered" /\ marker # "sending"
    /\ action' = FALSE
    /\ PressTo(b, "tell")
    /\ UNCHANGED <<draft, marker, wire, mailed, preview, update, edit, seen, raced, replyFaults>>

editMessageText(b) ==
    /\ press[b].at = "tell"
    /\ preview' = [preview EXCEPT !.buttons = FALSE]
    /\ PressTo(b, "done")
    /\ UNCHANGED <<draft, marker, wire, mailed, action, update, edit, seen, raced, replyFaults>>

PressesAgain(b) ==
    /\ press[b].at \in {"s", "x", "answered", "tell"} /\ ReplyFault
    /\ press' = [press EXCEPT ![b].at = IF action THEN press[b].verb ELSE "done"]
    /\ UNCHANGED <<draft, marker, wire, mailed, action, preview, update, edit, seen, raced>>

(* deleteExpiredTelegramActions, deleteExpiredDraftPreviews: a day later.  *)
PreviewExpires ==
    /\ update \in {"done", "failed"} /\ ~Correcting /\ ~Pressing
    /\ action \/ preview.row
    /\ action' = FALSE
    /\ preview' = [preview EXCEPT !.row = FALSE]
    /\ UNCHANGED <<draft, marker, wire, mailed, update, edit, press, seen, raced, replyFaults>>

UpdateStep == createDraft \/ requestSendDraft \/ insertTelegramAction \/ sendPreview
              \/ rememberDraftPreview \/ UpdateAgain
EditDraftStep(e) == getDraftRow(e) \/ checkStatus(e) \/ applyDraftEdit(e)
                    \/ restatePreview(e) \/ EditAgain(e)
PressStep(b) == (\E verb \in {"s", "x"} : getTelegramAction(b, verb)) \/ confirmDraftSend(b)
                \/ cancelDraft(b) \/ deleteTelegramAction(b) \/ editMessageText(b) \/ PressesAgain(b)
ReplyNext ==
    \/ UpdateStep \/ SendSettles \/ PreviewExpires
    \/ \E e \in Edits : EditDraftStep(e)
    \/ \E b \in Presses : PressStep(b)
ReplySpec == ReplyInit /\ [][ReplyNext]_replyVars

-----------------------------------------------------------------------------
(* One reply is mailed at most once, whatever is delivered again; where no *)
(* two gestures overlapped, what was mailed is what the preview showed     *)
(* when Send was pressed, and a draft that is sent still says what was     *)
(* mailed (webhook.ts, handleCallbackQuery; drafts.ts, applyDraftEdit).    *)
ReplyInvariant ==
    /\ draft.status \in {"none", "draft", "pending_confirmation", "sent", "cancelled"}
    /\ mailed <= 1
    /\ (wire # Unsent /\ ~raced) => wire = seen
    /\ (draft.status = "sent" /\ ~raced) => draft.text = wire

(* What the code says of a correction that arrives after Send was pressed: *)
(* it never rewrites the record of what was mailed (drafts.ts,             *)
(* applyDraftEdit).                                                        *)
LedgerMatchesWire == draft.status = "sent" => draft.text = wire
================================================================================
