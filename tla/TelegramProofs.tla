----------------------------- MODULE TelegramProofs -----------------------------
(***************************************************************************)
(* What the Telegram bridge guarantees for any mails, cards, corrections,  *)
(* presses and failures.                                                   *)
(*                                                                         *)
(* A reply: while no two gestures overlap at most one of them runs, the    *)
(* text of the draft stands still as long as a press is under way, and the *)
(* preview shows it whenever a press can begin.  The cards: a change that  *)
(* is owed to the newest card is the only thing in flight.  The            *)
(* notifications: until a topic is deleted or mapped by hand, the mapping  *)
(* is written once, and every worker takes its topic from there.           *)
(***************************************************************************)
EXTENDS TelegramNotify, TelegramCards, TelegramReply, FiniteSetTheorems,
        SequenceTheorems, WellFoundedInduction, TLAPS

--------------------------------------------------------------------------------
(* A reply typed in Telegram.                                              *)

EditPoints == {"new", "check", "patch", "restate", "done"}
PressPoints == {"new", "s", "x", "answered", "tell", "done"}
Open == {"none", "draft", "pending_confirmation"}

ReplyTypes ==
  /\ draft \in [status : Open \cup {"sent", "cancelled"}, text : Nat]
  /\ marker \in {"none", "sending", "sent", "failed"}
  /\ wire \in Nat \cup {Unsent} /\ seen \in Nat \cup {Unsent}
  /\ action \in BOOLEAN /\ raced \in BOOLEAN
  /\ preview \in [buttons : BOOLEAN, row : BOOLEAN, shown : Nat]
  /\ update \in {"new", "arm", "insert", "show", "remember", "done", "failed"}
  /\ edit \in [Edits -> EditPoints]
  /\ press \in [Presses -> [at : PressPoints, verb : {"s", "x"}]]

\* The marker is written with the text, and never taken back.
MailedIsMarked ==
  /\ mailed = IF marker = "none" THEN 0 ELSE 1
  /\ wire = Unsent <=> marker = "none"

\* What can be pressed, and what is being sent, was armed.
Armed ==
  /\ update = "arm" => draft.status # "none"
  /\ action \/ marker # "none" \/ seen # Unsent \/ update = "insert"
       => draft.status \notin {"none", "draft"}
  /\ draft.status = "sent" => marker = "sent"

\* A press that sends has read the preview.
PressHasRead ==
  \A b \in Presses :
    /\ press[b].at \in {"s", "x"} => press[b].verb = press[b].at
    /\ press[b].at \in {"s", "x", "answered", "tell"} /\ press[b].verb = "s" => seen # Unsent

Busily(e) == edit[e] \in {"check", "patch", "restate"}
Pressed(b) == press[b].at \in {"s", "x", "answered", "tell"}

\* No two gestures overlapped so far: at most one runs.
OneGesture ==
  /\ \A e1, e2 \in Edits : Busily(e1) /\ Busily(e2) => e1 = e2
  /\ \A b1, b2 \in Presses : Pressed(b1) /\ Pressed(b2) => b1 = b2
  /\ \A e \in Edits : Busily(e) => marker # "sending" /\ \A b \in Presses : ~Pressed(b)

\* The preview shows the text, but between a correction and its restatement.
PreviewIsTrue ==
  /\ (\A e \in Edits : edit[e] # "restate") => preview.shown = draft.text
  /\ \A e \in Edits : /\ edit[e] = "restate" => draft.text = e
                      /\ edit[e] = "patch" => draft.status \in EDITABLE_STATUSES

\* What is pressed is what will be mailed.
WhatIsSeen ==
  /\ \A b \in Presses : press[b].at \in {"s", "x", "answered"} => action
  /\ marker = "none" /\ draft.status \in Open /\ seen # Unsent =>
       seen = draft.text /\ \E b \in Presses : press[b].at = "s"
  /\ marker = "sending" => /\ wire = draft.text
                           /\ \E b \in Presses : press[b].at \in {"s", "x", "answered"}
  /\ wire # Unsent => wire = seen
  /\ draft.status = "sent" => draft.text = wire

ReplyInductive ==
  /\ ReplyTypes /\ MailedIsMarked /\ Armed /\ PressHasRead
  /\ ~raced => OneGesture /\ PreviewIsTrue /\ WhatIsSeen

LEMMA ReplyStarts == ReplyInit => ReplyInductive
<1> SUFFICES ASSUME ReplyInit PROVE ReplyInductive
  OBVIOUS
<1>1. ReplyTypes
  BY DEF ReplyInit, ReplyTypes, NoPress, EditPoints, PressPoints, Open
<1>2. MailedIsMarked /\ Armed /\ PressHasRead
  BY DEF ReplyInit, MailedIsMarked, Armed, PressHasRead, NoPress
<1>3. OneGesture
  BY DEF ReplyInit, OneGesture, Busily, Pressed, NoPress
<1>4. PreviewIsTrue /\ WhatIsSeen
  BY DEF ReplyInit, PreviewIsTrue, WhatIsSeen, NoPress
<1> QED
  BY <1>1, <1>2, <1>3, <1>4 DEF ReplyInductive

LEMMA ReplyTypesStep ==
  ASSUME ReplyTypes, [ReplyNext]_replyVars
  PROVE  ReplyTypes'
<1>1. ASSUME createDraft PROVE ReplyTypes'
  BY <1>1, ReplyAssumption DEF createDraft, UpdateTo, EditTo, PressTo, ReplyFault, EDITABLE_STATUSES, ReplyTypes, EditPoints, PressPoints, Open
<1>2. ASSUME requestSendDraft PROVE ReplyTypes'
  BY <1>2, ReplyAssumption DEF requestSendDraft, UpdateTo, EditTo, PressTo, ReplyFault, EDITABLE_STATUSES, ReplyTypes, EditPoints, PressPoints, Open
<1>3. ASSUME insertTelegramAction PROVE ReplyTypes'
  BY <1>3, ReplyAssumption DEF insertTelegramAction, UpdateTo, EditTo, PressTo, ReplyFault, EDITABLE_STATUSES, ReplyTypes, EditPoints, PressPoints, Open
<1>4. ASSUME sendPreview PROVE ReplyTypes'
  BY <1>4, ReplyAssumption DEF sendPreview, UpdateTo, EditTo, PressTo, ReplyFault, EDITABLE_STATUSES, ReplyTypes, EditPoints, PressPoints, Open
<1>5. ASSUME rememberDraftPreview PROVE ReplyTypes'
  BY <1>5, ReplyAssumption DEF rememberDraftPreview, UpdateTo, EditTo, PressTo, ReplyFault, EDITABLE_STATUSES, ReplyTypes, EditPoints, PressPoints, Open
<1>6. ASSUME UpdateAgain PROVE ReplyTypes'
  BY <1>6, ReplyAssumption DEF UpdateAgain, UpdateTo, EditTo, PressTo, ReplyFault, EDITABLE_STATUSES, ReplyTypes, EditPoints, PressPoints, Open
<1>7. ASSUME SendSettles PROVE ReplyTypes'
  BY <1>7, ReplyAssumption DEF SendSettles, UpdateTo, EditTo, PressTo, ReplyFault, EDITABLE_STATUSES, ReplyTypes, EditPoints, PressPoints, Open
<1>8. ASSUME PreviewExpires PROVE ReplyTypes'
  BY <1>8, ReplyAssumption DEF PreviewExpires, UpdateTo, EditTo, PressTo, ReplyFault, EDITABLE_STATUSES, ReplyTypes, EditPoints, PressPoints, Open
<1>9. ASSUME NEW e \in Edits, getDraftRow(e) PROVE ReplyTypes'
  BY <1>9, ReplyAssumption DEF getDraftRow, UpdateTo, EditTo, PressTo, ReplyFault, EDITABLE_STATUSES, ReplyTypes, EditPoints, PressPoints, Open
<1>10. ASSUME NEW e \in Edits, checkStatus(e) PROVE ReplyTypes'
  <2>1. edit' \in [Edits -> EditPoints]
    BY <1>10 DEF checkStatus, EditTo, ReplyTypes, EditPoints
  <2>2. preview' \in [buttons : BOOLEAN, row : BOOLEAN, shown : Nat]
    BY <1>10 DEF checkStatus, ReplyTypes
  <2> QED
    BY <1>10, <2>1, <2>2 DEF checkStatus, ReplyTypes
<1>11. ASSUME NEW e \in Edits, applyDraftEdit(e) PROVE ReplyTypes'
  BY <1>11, ReplyAssumption DEF applyDraftEdit, UpdateTo, EditTo, PressTo, ReplyFault, EDITABLE_STATUSES, ReplyTypes, EditPoints, PressPoints, Open
<1>12. ASSUME NEW e \in Edits, restatePreview(e) PROVE ReplyTypes'
  <2>1. edit' \in [Edits -> EditPoints]
    BY <1>12 DEF restatePreview, EditTo, ReplyTypes, EditPoints
  <2>2. preview' \in [buttons : BOOLEAN, row : BOOLEAN, shown : Nat]
    BY <1>12, ReplyAssumption DEF restatePreview, ReplyTypes
  <2>3. raced' \in BOOLEAN
    BY <1>12 DEF restatePreview, ReplyTypes
  <2> QED
    BY <1>12, <2>1, <2>2, <2>3 DEF restatePreview, ReplyTypes
<1>13. ASSUME NEW e \in Edits, EditAgain(e) PROVE ReplyTypes'
  BY <1>13, ReplyAssumption DEF EditAgain, UpdateTo, EditTo, PressTo, ReplyFault, EDITABLE_STATUSES, ReplyTypes, EditPoints, PressPoints, Open
<1>14. ASSUME NEW b \in Presses, NEW verb \in {"s", "x"}, getTelegramAction(b, verb) PROVE ReplyTypes'
  BY <1>14, ReplyAssumption DEF getTelegramAction, UpdateTo, EditTo, PressTo, ReplyFault, EDITABLE_STATUSES, ReplyTypes, EditPoints, PressPoints, Open
<1>15. ASSUME NEW b \in Presses, confirmDraftSend(b) PROVE ReplyTypes'
  BY <1>15, ReplyAssumption DEF confirmDraftSend, UpdateTo, EditTo, PressTo, ReplyFault, EDITABLE_STATUSES, ReplyTypes, EditPoints, PressPoints, Open
<1>16. ASSUME NEW b \in Presses, cancelDraft(b) PROVE ReplyTypes'
  BY <1>16, ReplyAssumption DEF cancelDraft, UpdateTo, EditTo, PressTo, ReplyFault, EDITABLE_STATUSES, ReplyTypes, EditPoints, PressPoints, Open
<1>17. ASSUME NEW b \in Presses, deleteTelegramAction(b) PROVE ReplyTypes'
  <2>1. press' \in [Presses -> [at : PressPoints, verb : {"s", "x"}]]
    BY <1>17 DEF deleteTelegramAction, PressTo, ReplyTypes, PressPoints
  <2>2. preview' \in [buttons : BOOLEAN, row : BOOLEAN, shown : Nat]
    BY <1>17 DEF deleteTelegramAction, ReplyTypes
  <2> QED
    BY <1>17, <2>1, <2>2 DEF deleteTelegramAction, ReplyTypes
<1>18. ASSUME NEW b \in Presses, editMessageText(b) PROVE ReplyTypes'
  <2>1. press' \in [Presses -> [at : PressPoints, verb : {"s", "x"}]]
    BY <1>18 DEF editMessageText, PressTo, ReplyTypes, PressPoints
  <2>2. preview' \in [buttons : BOOLEAN, row : BOOLEAN, shown : Nat]
    BY <1>18 DEF editMessageText, ReplyTypes
  <2> QED
    BY <1>18, <2>1, <2>2 DEF editMessageText, ReplyTypes
<1>19. ASSUME NEW b \in Presses, PressesAgain(b) PROVE ReplyTypes'
  BY <1>19, ReplyAssumption DEF PressesAgain, UpdateTo, EditTo, PressTo, ReplyFault, EDITABLE_STATUSES, ReplyTypes, EditPoints, PressPoints, Open
<1>20. CASE UNCHANGED replyVars
  BY <1>20 DEF replyVars, ReplyTypes, EditPoints, PressPoints, Open
<1> QED
  BY <1>1, <1>2, <1>3, <1>4, <1>5, <1>6, <1>7, <1>8, <1>9, <1>10, <1>11, <1>12, <1>13, <1>14, <1>15, <1>16, <1>17, <1>18, <1>19, <1>20 DEF ReplyNext, UpdateStep, EditDraftStep, PressStep

LEMMA MailedStep ==
  ASSUME ReplyTypes, MailedIsMarked, [ReplyNext]_replyVars
  PROVE  MailedIsMarked'
<1>1. ASSUME createDraft PROVE MailedIsMarked'
  BY <1>1, ReplyAssumption DEF createDraft, UpdateTo, EditTo, PressTo, ReplyFault, EDITABLE_STATUSES, ReplyTypes, MailedIsMarked, Open
<1>2. ASSUME requestSendDraft PROVE MailedIsMarked'
  BY <1>2, ReplyAssumption DEF requestSendDraft, UpdateTo, EditTo, PressTo, ReplyFault, EDITABLE_STATUSES, ReplyTypes, MailedIsMarked, Open
<1>3. ASSUME insertTelegramAction PROVE MailedIsMarked'
  BY <1>3, ReplyAssumption DEF insertTelegramAction, UpdateTo, EditTo, PressTo, ReplyFault, EDITABLE_STATUSES, ReplyTypes, MailedIsMarked, Open
<1>4. ASSUME sendPreview PROVE MailedIsMarked'
  BY <1>4, ReplyAssumption DEF sendPreview, UpdateTo, EditTo, PressTo, ReplyFault, EDITABLE_STATUSES, ReplyTypes, MailedIsMarked, Open
<1>5. ASSUME rememberDraftPreview PROVE MailedIsMarked'
  BY <1>5, ReplyAssumption DEF rememberDraftPreview, UpdateTo, EditTo, PressTo, ReplyFault, EDITABLE_STATUSES, ReplyTypes, MailedIsMarked, Open
<1>6. ASSUME UpdateAgain PROVE MailedIsMarked'
  BY <1>6, ReplyAssumption DEF UpdateAgain, UpdateTo, EditTo, PressTo, ReplyFault, EDITABLE_STATUSES, ReplyTypes, MailedIsMarked, Open
<1>7. ASSUME SendSettles PROVE MailedIsMarked'
  BY <1>7, ReplyAssumption DEF SendSettles, UpdateTo, EditTo, PressTo, ReplyFault, EDITABLE_STATUSES, ReplyTypes, MailedIsMarked, Open
<1>8. ASSUME PreviewExpires PROVE MailedIsMarked'
  BY <1>8, ReplyAssumption DEF PreviewExpires, UpdateTo, EditTo, PressTo, ReplyFault, EDITABLE_STATUSES, ReplyTypes, MailedIsMarked, Open
<1>9. ASSUME NEW e \in Edits, getDraftRow(e) PROVE MailedIsMarked'
  BY <1>9, ReplyAssumption DEF getDraftRow, UpdateTo, EditTo, PressTo, ReplyFault, EDITABLE_STATUSES, ReplyTypes, MailedIsMarked, Open
<1>10. ASSUME NEW e \in Edits, checkStatus(e) PROVE MailedIsMarked'
  BY <1>10, ReplyAssumption DEF checkStatus, UpdateTo, EditTo, PressTo, ReplyFault, EDITABLE_STATUSES, ReplyTypes, MailedIsMarked, Open
<1>11. ASSUME NEW e \in Edits, applyDraftEdit(e) PROVE MailedIsMarked'
  BY <1>11, ReplyAssumption DEF applyDraftEdit, UpdateTo, EditTo, PressTo, ReplyFault, EDITABLE_STATUSES, ReplyTypes, MailedIsMarked, Open
<1>12. ASSUME NEW e \in Edits, restatePreview(e) PROVE MailedIsMarked'
  BY <1>12, ReplyAssumption DEF restatePreview, UpdateTo, EditTo, PressTo, ReplyFault, EDITABLE_STATUSES, ReplyTypes, MailedIsMarked, Open
<1>13. ASSUME NEW e \in Edits, EditAgain(e) PROVE MailedIsMarked'
  BY <1>13, ReplyAssumption DEF EditAgain, UpdateTo, EditTo, PressTo, ReplyFault, EDITABLE_STATUSES, ReplyTypes, MailedIsMarked, Open
<1>14. ASSUME NEW b \in Presses, NEW verb \in {"s", "x"}, getTelegramAction(b, verb) PROVE MailedIsMarked'
  BY <1>14, ReplyAssumption DEF getTelegramAction, UpdateTo, EditTo, PressTo, ReplyFault, EDITABLE_STATUSES, ReplyTypes, MailedIsMarked, Open
<1>15. ASSUME NEW b \in Presses, confirmDraftSend(b) PROVE MailedIsMarked'
  BY <1>15, ReplyAssumption DEF confirmDraftSend, UpdateTo, EditTo, PressTo, ReplyFault, EDITABLE_STATUSES, ReplyTypes, MailedIsMarked, Open
<1>16. ASSUME NEW b \in Presses, cancelDraft(b) PROVE MailedIsMarked'
  BY <1>16, ReplyAssumption DEF cancelDraft, UpdateTo, EditTo, PressTo, ReplyFault, EDITABLE_STATUSES, ReplyTypes, MailedIsMarked, Open
<1>17. ASSUME NEW b \in Presses, deleteTelegramAction(b) PROVE MailedIsMarked'
  BY <1>17, ReplyAssumption DEF deleteTelegramAction, UpdateTo, EditTo, PressTo, ReplyFault, EDITABLE_STATUSES, ReplyTypes, MailedIsMarked, Open
<1>18. ASSUME NEW b \in Presses, editMessageText(b) PROVE MailedIsMarked'
  BY <1>18, ReplyAssumption DEF editMessageText, UpdateTo, EditTo, PressTo, ReplyFault, EDITABLE_STATUSES, ReplyTypes, MailedIsMarked, Open
<1>19. ASSUME NEW b \in Presses, PressesAgain(b) PROVE MailedIsMarked'
  BY <1>19, ReplyAssumption DEF PressesAgain, UpdateTo, EditTo, PressTo, ReplyFault, EDITABLE_STATUSES, ReplyTypes, MailedIsMarked, Open
<1>20. CASE UNCHANGED replyVars
  BY <1>20 DEF replyVars, ReplyTypes, MailedIsMarked, Open
<1> QED
  BY <1>1, <1>2, <1>3, <1>4, <1>5, <1>6, <1>7, <1>8, <1>9, <1>10, <1>11, <1>12, <1>13, <1>14, <1>15, <1>16, <1>17, <1>18, <1>19, <1>20 DEF ReplyNext, UpdateStep, EditDraftStep, PressStep

LEMMA ArmedStep ==
  ASSUME ReplyTypes, MailedIsMarked, Armed, PressHasRead, [ReplyNext]_replyVars
  PROVE  Armed'
<1>1. ASSUME createDraft PROVE Armed'
  BY <1>1, ReplyAssumption DEF createDraft, UpdateTo, EditTo, PressTo, ReplyFault, EDITABLE_STATUSES, ReplyTypes, MailedIsMarked, Armed, PressHasRead, Open
<1>2. ASSUME requestSendDraft PROVE Armed'
  BY <1>2, ReplyAssumption DEF requestSendDraft, UpdateTo, EditTo, PressTo, ReplyFault, EDITABLE_STATUSES, ReplyTypes, MailedIsMarked, Armed, PressHasRead, Open
<1>3. ASSUME insertTelegramAction PROVE Armed'
  BY <1>3, ReplyAssumption DEF insertTelegramAction, UpdateTo, EditTo, PressTo, ReplyFault, EDITABLE_STATUSES, ReplyTypes, MailedIsMarked, Armed, PressHasRead, Open
<1>4. ASSUME sendPreview PROVE Armed'
  BY <1>4, ReplyAssumption DEF sendPreview, UpdateTo, EditTo, PressTo, ReplyFault, EDITABLE_STATUSES, ReplyTypes, MailedIsMarked, Armed, PressHasRead, Open
<1>5. ASSUME rememberDraftPreview PROVE Armed'
  BY <1>5, ReplyAssumption DEF rememberDraftPreview, UpdateTo, EditTo, PressTo, ReplyFault, EDITABLE_STATUSES, ReplyTypes, MailedIsMarked, Armed, PressHasRead, Open
<1>6. ASSUME UpdateAgain PROVE Armed'
  BY <1>6, ReplyAssumption DEF UpdateAgain, UpdateTo, EditTo, PressTo, ReplyFault, EDITABLE_STATUSES, ReplyTypes, MailedIsMarked, Armed, PressHasRead, Open
<1>7. ASSUME SendSettles PROVE Armed'
  BY <1>7, ReplyAssumption DEF SendSettles, UpdateTo, EditTo, PressTo, ReplyFault, EDITABLE_STATUSES, ReplyTypes, MailedIsMarked, Armed, PressHasRead, Open
<1>8. ASSUME PreviewExpires PROVE Armed'
  BY <1>8, ReplyAssumption DEF PreviewExpires, UpdateTo, EditTo, PressTo, ReplyFault, EDITABLE_STATUSES, ReplyTypes, MailedIsMarked, Armed, PressHasRead, Open
<1>9. ASSUME NEW e \in Edits, getDraftRow(e) PROVE Armed'
  BY <1>9, ReplyAssumption DEF getDraftRow, UpdateTo, EditTo, PressTo, ReplyFault, EDITABLE_STATUSES, ReplyTypes, MailedIsMarked, Armed, PressHasRead, Open
<1>10. ASSUME NEW e \in Edits, checkStatus(e) PROVE Armed'
  BY <1>10, ReplyAssumption DEF checkStatus, UpdateTo, EditTo, PressTo, ReplyFault, EDITABLE_STATUSES, ReplyTypes, MailedIsMarked, Armed, PressHasRead, Open
<1>11. ASSUME NEW e \in Edits, applyDraftEdit(e) PROVE Armed'
  BY <1>11, ReplyAssumption DEF applyDraftEdit, UpdateTo, EditTo, PressTo, ReplyFault, EDITABLE_STATUSES, ReplyTypes, MailedIsMarked, Armed, PressHasRead, Open
<1>12. ASSUME NEW e \in Edits, restatePreview(e) PROVE Armed'
  BY <1>12, ReplyAssumption DEF restatePreview, UpdateTo, EditTo, PressTo, ReplyFault, EDITABLE_STATUSES, ReplyTypes, MailedIsMarked, Armed, PressHasRead, Open
<1>13. ASSUME NEW e \in Edits, EditAgain(e) PROVE Armed'
  BY <1>13, ReplyAssumption DEF EditAgain, UpdateTo, EditTo, PressTo, ReplyFault, EDITABLE_STATUSES, ReplyTypes, MailedIsMarked, Armed, PressHasRead, Open
<1>14. ASSUME NEW b \in Presses, NEW verb \in {"s", "x"}, getTelegramAction(b, verb) PROVE Armed'
  BY <1>14, ReplyAssumption DEF getTelegramAction, UpdateTo, EditTo, PressTo, ReplyFault, EDITABLE_STATUSES, ReplyTypes, MailedIsMarked, Armed, PressHasRead, Open
<1>15. ASSUME NEW b \in Presses, confirmDraftSend(b) PROVE Armed'
  BY <1>15, ReplyAssumption DEF confirmDraftSend, UpdateTo, EditTo, PressTo, ReplyFault, EDITABLE_STATUSES, ReplyTypes, MailedIsMarked, Armed, PressHasRead, Open
<1>16. ASSUME NEW b \in Presses, cancelDraft(b) PROVE Armed'
  BY <1>16, ReplyAssumption DEF cancelDraft, UpdateTo, EditTo, PressTo, ReplyFault, EDITABLE_STATUSES, ReplyTypes, MailedIsMarked, Armed, PressHasRead, Open
<1>17. ASSUME NEW b \in Presses, deleteTelegramAction(b) PROVE Armed'
  BY <1>17, ReplyAssumption DEF deleteTelegramAction, UpdateTo, EditTo, PressTo, ReplyFault, EDITABLE_STATUSES, ReplyTypes, MailedIsMarked, Armed, PressHasRead, Open
<1>18. ASSUME NEW b \in Presses, editMessageText(b) PROVE Armed'
  BY <1>18, ReplyAssumption DEF editMessageText, UpdateTo, EditTo, PressTo, ReplyFault, EDITABLE_STATUSES, ReplyTypes, MailedIsMarked, Armed, PressHasRead, Open
<1>19. ASSUME NEW b \in Presses, PressesAgain(b) PROVE Armed'
  BY <1>19, ReplyAssumption DEF PressesAgain, UpdateTo, EditTo, PressTo, ReplyFault, EDITABLE_STATUSES, ReplyTypes, MailedIsMarked, Armed, PressHasRead, Open
<1>20. CASE UNCHANGED replyVars
  BY <1>20 DEF replyVars, ReplyTypes, MailedIsMarked, Armed, PressHasRead, Open
<1> QED
  BY <1>1, <1>2, <1>3, <1>4, <1>5, <1>6, <1>7, <1>8, <1>9, <1>10, <1>11, <1>12, <1>13, <1>14, <1>15, <1>16, <1>17, <1>18, <1>19, <1>20 DEF ReplyNext, UpdateStep, EditDraftStep, PressStep

LEMMA PressHasReadStep ==
  ASSUME ReplyTypes, MailedIsMarked, Armed, PressHasRead, [ReplyNext]_replyVars
  PROVE  PressHasRead'
<1>1. ASSUME createDraft PROVE PressHasRead'
  BY <1>1, ReplyAssumption DEF createDraft, UpdateTo, EditTo, PressTo, ReplyFault, EDITABLE_STATUSES, ReplyTypes, MailedIsMarked, Armed, PressHasRead, Open, PressPoints
<1>2. ASSUME requestSendDraft PROVE PressHasRead'
  BY <1>2, ReplyAssumption DEF requestSendDraft, UpdateTo, EditTo, PressTo, ReplyFault, EDITABLE_STATUSES, ReplyTypes, MailedIsMarked, Armed, PressHasRead, Open, PressPoints
<1>3. ASSUME insertTelegramAction PROVE PressHasRead'
  BY <1>3, ReplyAssumption DEF insertTelegramAction, UpdateTo, EditTo, PressTo, ReplyFault, EDITABLE_STATUSES, ReplyTypes, MailedIsMarked, Armed, PressHasRead, Open, PressPoints
<1>4. ASSUME sendPreview PROVE PressHasRead'
  BY <1>4, ReplyAssumption DEF sendPreview, UpdateTo, EditTo, PressTo, ReplyFault, EDITABLE_STATUSES, ReplyTypes, MailedIsMarked, Armed, PressHasRead, Open, PressPoints
<1>5. ASSUME rememberDraftPreview PROVE PressHasRead'
  BY <1>5, ReplyAssumption DEF rememberDraftPreview, UpdateTo, EditTo, PressTo, ReplyFault, EDITABLE_STATUSES, ReplyTypes, MailedIsMarked, Armed, PressHasRead, Open, PressPoints
<1>6. ASSUME UpdateAgain PROVE PressHasRead'
  BY <1>6, ReplyAssumption DEF UpdateAgain, UpdateTo, EditTo, PressTo, ReplyFault, EDITABLE_STATUSES, ReplyTypes, MailedIsMarked, Armed, PressHasRead, Open, PressPoints
<1>7. ASSUME SendSettles PROVE PressHasRead'
  BY <1>7, ReplyAssumption DEF SendSettles, UpdateTo, EditTo, PressTo, ReplyFault, EDITABLE_STATUSES, ReplyTypes, MailedIsMarked, Armed, PressHasRead, Open, PressPoints
<1>8. ASSUME PreviewExpires PROVE PressHasRead'
  BY <1>8, ReplyAssumption DEF PreviewExpires, UpdateTo, EditTo, PressTo, ReplyFault, EDITABLE_STATUSES, ReplyTypes, MailedIsMarked, Armed, PressHasRead, Open, PressPoints
<1>9. ASSUME NEW e \in Edits, getDraftRow(e) PROVE PressHasRead'
  BY <1>9, ReplyAssumption DEF getDraftRow, UpdateTo, EditTo, PressTo, ReplyFault, EDITABLE_STATUSES, ReplyTypes, MailedIsMarked, Armed, PressHasRead, Open, PressPoints
<1>10. ASSUME NEW e \in Edits, checkStatus(e) PROVE PressHasRead'
  BY <1>10, ReplyAssumption DEF checkStatus, UpdateTo, EditTo, PressTo, ReplyFault, EDITABLE_STATUSES, ReplyTypes, MailedIsMarked, Armed, PressHasRead, Open, PressPoints
<1>11. ASSUME NEW e \in Edits, applyDraftEdit(e) PROVE PressHasRead'
  BY <1>11, ReplyAssumption DEF applyDraftEdit, UpdateTo, EditTo, PressTo, ReplyFault, EDITABLE_STATUSES, ReplyTypes, MailedIsMarked, Armed, PressHasRead, Open, PressPoints
<1>12. ASSUME NEW e \in Edits, restatePreview(e) PROVE PressHasRead'
  BY <1>12, ReplyAssumption DEF restatePreview, UpdateTo, EditTo, PressTo, ReplyFault, EDITABLE_STATUSES, ReplyTypes, MailedIsMarked, Armed, PressHasRead, Open, PressPoints
<1>13. ASSUME NEW e \in Edits, EditAgain(e) PROVE PressHasRead'
  BY <1>13, ReplyAssumption DEF EditAgain, UpdateTo, EditTo, PressTo, ReplyFault, EDITABLE_STATUSES, ReplyTypes, MailedIsMarked, Armed, PressHasRead, Open, PressPoints
<1>14. ASSUME NEW b \in Presses, NEW verb \in {"s", "x"}, getTelegramAction(b, verb) PROVE PressHasRead'
  BY <1>14, ReplyAssumption DEF getTelegramAction, UpdateTo, EditTo, PressTo, ReplyFault, EDITABLE_STATUSES, ReplyTypes, MailedIsMarked, Armed, PressHasRead, Open, PressPoints
<1>15. ASSUME NEW b \in Presses, confirmDraftSend(b) PROVE PressHasRead'
  BY <1>15, ReplyAssumption DEF confirmDraftSend, UpdateTo, EditTo, PressTo, ReplyFault, EDITABLE_STATUSES, ReplyTypes, MailedIsMarked, Armed, PressHasRead, Open, PressPoints
<1>16. ASSUME NEW b \in Presses, cancelDraft(b) PROVE PressHasRead'
  BY <1>16, ReplyAssumption DEF cancelDraft, UpdateTo, EditTo, PressTo, ReplyFault, EDITABLE_STATUSES, ReplyTypes, MailedIsMarked, Armed, PressHasRead, Open, PressPoints
<1>17. ASSUME NEW b \in Presses, deleteTelegramAction(b) PROVE PressHasRead'
  BY <1>17, ReplyAssumption DEF deleteTelegramAction, UpdateTo, EditTo, PressTo, ReplyFault, EDITABLE_STATUSES, ReplyTypes, MailedIsMarked, Armed, PressHasRead, Open, PressPoints
<1>18. ASSUME NEW b \in Presses, editMessageText(b) PROVE PressHasRead'
  BY <1>18, ReplyAssumption DEF editMessageText, UpdateTo, EditTo, PressTo, ReplyFault, EDITABLE_STATUSES, ReplyTypes, MailedIsMarked, Armed, PressHasRead, Open, PressPoints
<1>19. ASSUME NEW b \in Presses, PressesAgain(b) PROVE PressHasRead'
  BY <1>19, ReplyAssumption DEF PressesAgain, UpdateTo, EditTo, PressTo, ReplyFault, EDITABLE_STATUSES, ReplyTypes, MailedIsMarked, Armed, PressHasRead, Open, PressPoints
<1>20. CASE UNCHANGED replyVars
  BY <1>20 DEF replyVars, ReplyTypes, MailedIsMarked, Armed, PressHasRead, Open, PressPoints
<1> QED
  BY <1>1, <1>2, <1>3, <1>4, <1>5, <1>6, <1>7, <1>8, <1>9, <1>10, <1>11, <1>12, <1>13, <1>14, <1>15, <1>16, <1>17, <1>18, <1>19, <1>20 DEF ReplyNext, UpdateStep, EditDraftStep, PressStep

LEMMA OneGestureStep ==
  ASSUME ReplyTypes, MailedIsMarked, Armed, PressHasRead,
         ~raced => OneGesture /\ PreviewIsTrue /\ WhatIsSeen, ~raced', [ReplyNext]_replyVars
  PROVE  OneGesture'
<1> USE ReplyAssumption DEF UpdateTo, EditTo, PressTo, ReplyFault, EDITABLE_STATUSES, Correcting, Pressing, ReplyTypes, OneGesture, Busily, Pressed, PressPoints, EditPoints
<1>1. ASSUME createDraft PROVE OneGesture'
  BY <1>1 DEF createDraft
<1>2. ASSUME requestSendDraft PROVE OneGesture'
  BY <1>2 DEF requestSendDraft
<1>3. ASSUME insertTelegramAction PROVE OneGesture'
  BY <1>3 DEF insertTelegramAction
<1>4. ASSUME sendPreview PROVE OneGesture'
  BY <1>4 DEF sendPreview
<1>5. ASSUME rememberDraftPreview PROVE OneGesture'
  BY <1>5 DEF rememberDraftPreview
<1>6. ASSUME UpdateAgain PROVE OneGesture'
  BY <1>6 DEF UpdateAgain
<1>7. ASSUME SendSettles PROVE OneGesture'
  BY <1>7 DEF SendSettles
<1>8. ASSUME PreviewExpires PROVE OneGesture'
  BY <1>8 DEF PreviewExpires
<1>9. ASSUME NEW e \in Edits, getDraftRow(e) PROVE OneGesture'
  BY <1>9 DEF getDraftRow
<1>10. ASSUME NEW e \in Edits, checkStatus(e) PROVE OneGesture'
  BY <1>10 DEF checkStatus
<1>11. ASSUME NEW e \in Edits, applyDraftEdit(e) PROVE OneGesture'
  BY <1>11 DEF applyDraftEdit
<1>12. ASSUME NEW e \in Edits, restatePreview(e) PROVE OneGesture'
  BY <1>12 DEF restatePreview
<1>13. ASSUME NEW e \in Edits, EditAgain(e) PROVE OneGesture'
  BY <1>13 DEF EditAgain
<1>14. ASSUME NEW b \in Presses, NEW verb \in {"s", "x"}, getTelegramAction(b, verb) PROVE OneGesture'
  BY <1>14 DEF getTelegramAction
<1>15. ASSUME NEW b \in Presses, confirmDraftSend(b) PROVE OneGesture'
  BY <1>15 DEF confirmDraftSend
<1>16. ASSUME NEW b \in Presses, cancelDraft(b) PROVE OneGesture'
  BY <1>16 DEF cancelDraft
<1>17. ASSUME NEW b \in Presses, deleteTelegramAction(b) PROVE OneGesture'
  BY <1>17 DEF deleteTelegramAction
<1>18. ASSUME NEW b \in Presses, editMessageText(b) PROVE OneGesture'
  BY <1>18 DEF editMessageText
<1>19. ASSUME NEW b \in Presses, PressesAgain(b) PROVE OneGesture'
  BY <1>19 DEF PressesAgain
<1>20. CASE UNCHANGED replyVars
  BY <1>20 DEF replyVars
<1> QED
  BY <1>1, <1>2, <1>3, <1>4, <1>5, <1>6, <1>7, <1>8, <1>9, <1>10, <1>11, <1>12, <1>13, <1>14, <1>15, <1>16, <1>17, <1>18, <1>19, <1>20 DEF ReplyNext, UpdateStep, EditDraftStep, PressStep

LEMMA PreviewStep ==
  ASSUME ReplyTypes, MailedIsMarked, Armed, PressHasRead,
         ~raced => OneGesture /\ PreviewIsTrue /\ WhatIsSeen, ~raced', [ReplyNext]_replyVars
  PROVE  PreviewIsTrue'
<1> USE ReplyAssumption DEF UpdateTo, EditTo, PressTo, ReplyFault, EDITABLE_STATUSES, Correcting, Pressing, ReplyTypes, OneGesture, PreviewIsTrue, Busily, Pressed, PressPoints, EditPoints
<1>1. ASSUME createDraft PROVE PreviewIsTrue'
  BY <1>1 DEF createDraft
<1>2. ASSUME requestSendDraft PROVE PreviewIsTrue'
  BY <1>2 DEF requestSendDraft
<1>3. ASSUME insertTelegramAction PROVE PreviewIsTrue'
  BY <1>3 DEF insertTelegramAction
<1>4. ASSUME sendPreview PROVE PreviewIsTrue'
  BY <1>4 DEF sendPreview
<1>5. ASSUME rememberDraftPreview PROVE PreviewIsTrue'
  BY <1>5 DEF rememberDraftPreview
<1>6. ASSUME UpdateAgain PROVE PreviewIsTrue'
  BY <1>6 DEF UpdateAgain
<1>7. ASSUME SendSettles PROVE PreviewIsTrue'
  BY <1>7 DEF SendSettles
<1>8. ASSUME PreviewExpires PROVE PreviewIsTrue'
  BY <1>8 DEF PreviewExpires
<1>9. ASSUME NEW e \in Edits, getDraftRow(e) PROVE PreviewIsTrue'
  BY <1>9 DEF getDraftRow
<1>10. ASSUME NEW e \in Edits, checkStatus(e) PROVE PreviewIsTrue'
  BY <1>10 DEF checkStatus
<1>11. ASSUME NEW e \in Edits, applyDraftEdit(e) PROVE PreviewIsTrue'
  BY <1>11 DEF applyDraftEdit
<1>12. ASSUME NEW e \in Edits, restatePreview(e) PROVE PreviewIsTrue'
  BY <1>12 DEF restatePreview
<1>13. ASSUME NEW e \in Edits, EditAgain(e) PROVE PreviewIsTrue'
  BY <1>13 DEF EditAgain
<1>14. ASSUME NEW b \in Presses, NEW verb \in {"s", "x"}, getTelegramAction(b, verb) PROVE PreviewIsTrue'
  BY <1>14 DEF getTelegramAction
<1>15. ASSUME NEW b \in Presses, confirmDraftSend(b) PROVE PreviewIsTrue'
  BY <1>15 DEF confirmDraftSend
<1>16. ASSUME NEW b \in Presses, cancelDraft(b) PROVE PreviewIsTrue'
  BY <1>16 DEF cancelDraft
<1>17. ASSUME NEW b \in Presses, deleteTelegramAction(b) PROVE PreviewIsTrue'
  BY <1>17 DEF deleteTelegramAction
<1>18. ASSUME NEW b \in Presses, editMessageText(b) PROVE PreviewIsTrue'
  BY <1>18 DEF editMessageText
<1>19. ASSUME NEW b \in Presses, PressesAgain(b) PROVE PreviewIsTrue'
  BY <1>19 DEF PressesAgain
<1>20. CASE UNCHANGED replyVars
  BY <1>20 DEF replyVars
<1> QED
  BY <1>1, <1>2, <1>3, <1>4, <1>5, <1>6, <1>7, <1>8, <1>9, <1>10, <1>11, <1>12, <1>13, <1>14, <1>15, <1>16, <1>17, <1>18, <1>19, <1>20 DEF ReplyNext, UpdateStep, EditDraftStep, PressStep

LEMMA SeenStep ==
  ASSUME ReplyTypes, MailedIsMarked, Armed, PressHasRead,
         ~raced => OneGesture /\ PreviewIsTrue /\ WhatIsSeen, ~raced', [ReplyNext]_replyVars
  PROVE  WhatIsSeen'
<1> USE ReplyAssumption DEF UpdateTo, EditTo, PressTo, ReplyFault, EDITABLE_STATUSES, Correcting, Pressing, ReplyTypes, MailedIsMarked, Armed, PressHasRead, OneGesture, PreviewIsTrue, WhatIsSeen, Busily, Pressed, PressPoints, EditPoints, Open
<1>1. ASSUME createDraft PROVE WhatIsSeen'
  BY <1>1 DEF createDraft
<1>2. ASSUME requestSendDraft PROVE WhatIsSeen'
  BY <1>2 DEF requestSendDraft
<1>3. ASSUME insertTelegramAction PROVE WhatIsSeen'
  BY <1>3 DEF insertTelegramAction
<1>4. ASSUME sendPreview PROVE WhatIsSeen'
  BY <1>4 DEF sendPreview
<1>5. ASSUME rememberDraftPreview PROVE WhatIsSeen'
  BY <1>5 DEF rememberDraftPreview
<1>6. ASSUME UpdateAgain PROVE WhatIsSeen'
  BY <1>6 DEF UpdateAgain
<1>7. ASSUME SendSettles PROVE WhatIsSeen'
  BY <1>7 DEF SendSettles
<1>8. ASSUME PreviewExpires PROVE WhatIsSeen'
  BY <1>8 DEF PreviewExpires
<1>9. ASSUME NEW e \in Edits, getDraftRow(e) PROVE WhatIsSeen'
  BY <1>9 DEF getDraftRow
<1>10. ASSUME NEW e \in Edits, checkStatus(e) PROVE WhatIsSeen'
  BY <1>10 DEF checkStatus
<1>11. ASSUME NEW e \in Edits, applyDraftEdit(e) PROVE WhatIsSeen'
  BY <1>11 DEF applyDraftEdit
<1>12. ASSUME NEW e \in Edits, restatePreview(e) PROVE WhatIsSeen'
  BY <1>12 DEF restatePreview
<1>13. ASSUME NEW e \in Edits, EditAgain(e) PROVE WhatIsSeen'
  BY <1>13 DEF EditAgain
<1>14. ASSUME NEW b \in Presses, NEW verb \in {"s", "x"}, getTelegramAction(b, verb) PROVE WhatIsSeen'
  BY <1>14 DEF getTelegramAction
<1>15. ASSUME NEW b \in Presses, confirmDraftSend(b) PROVE WhatIsSeen'
  BY <1>15 DEF confirmDraftSend
<1>16. ASSUME NEW b \in Presses, cancelDraft(b) PROVE WhatIsSeen'
  BY <1>16 DEF cancelDraft
<1>17. ASSUME NEW b \in Presses, deleteTelegramAction(b) PROVE WhatIsSeen'
  BY <1>17 DEF deleteTelegramAction
<1>18. ASSUME NEW b \in Presses, editMessageText(b) PROVE WhatIsSeen'
  BY <1>18 DEF editMessageText
<1>19. ASSUME NEW b \in Presses, PressesAgain(b) PROVE WhatIsSeen'
  BY <1>19 DEF PressesAgain
<1>20. CASE UNCHANGED replyVars
  BY <1>20 DEF replyVars
<1> QED
  BY <1>1, <1>2, <1>3, <1>4, <1>5, <1>6, <1>7, <1>8, <1>9, <1>10, <1>11, <1>12, <1>13, <1>14, <1>15, <1>16, <1>17, <1>18, <1>19, <1>20 DEF ReplyNext, UpdateStep, EditDraftStep, PressStep

(***************************************************************************)
(* One reply is mailed at most once; and where no two gestures overlapped, *)
(* what was mailed is what the preview showed when Send was pressed, and   *)
(* what a sent draft still says.                                           *)
(***************************************************************************)
THEOREM MailedAsSeen == ReplySpec => []ReplyInvariant
<1>1. ReplyInductive /\ [ReplyNext]_replyVars => ReplyInductive'
  <2> SUFFICES ASSUME ReplyInductive, [ReplyNext]_replyVars PROVE ReplyInductive'
    OBVIOUS
  <2>1. /\ ReplyTypes /\ MailedIsMarked /\ Armed /\ PressHasRead
        /\ ~raced => OneGesture /\ PreviewIsTrue /\ WhatIsSeen
    BY DEF ReplyInductive
  <2>2. ReplyTypes' /\ MailedIsMarked' /\ Armed' /\ PressHasRead'
    BY <2>1, ReplyTypesStep, MailedStep, ArmedStep, PressHasReadStep
  <2>3. ASSUME ~raced' PROVE OneGesture' /\ PreviewIsTrue' /\ WhatIsSeen'
    BY <2>1, <2>3, OneGestureStep, PreviewStep, SeenStep
  <2> QED
    BY <2>2, <2>3 DEF ReplyInductive
<1>2. ReplyInductive => ReplyInvariant
  BY DEF ReplyInductive, ReplyInvariant, ReplyTypes, MailedIsMarked, WhatIsSeen, Open
<1> QED
  BY <1>1, <1>2, ReplyStarts, PTL DEF ReplySpec

--------------------------------------------------------------------------------
(* The cards of a mail.                                                    *)

Change == [at : {"new", "acted", "queued", "editing", "pressed", "done"}, by : {"web", "button"},
           status : Statuses \cup {"none"}, card : Nat]
Card == [linked : BOOLEAN, shown : Statuses \cup {"none"}]

\* A change that knows which card it edits.
Restates(c) == At(c, "editing") \/ (change[c].at \in {"pressed", "acted"} /\ change[c].by = "button")

CardTypes ==
  /\ place \in {"inbox"} \cup CLOSED_STATUSES
  /\ read \in BOOLEAN /\ posting \in BOOLEAN
  /\ posted \in Seq(Card)
  /\ posting => posted # <<>>
  /\ change \in [Changes -> Change]
  /\ due \in Statuses \cup {"none", "any"}
  /\ \A c \in Changes :
       /\ At(c, "pressed") => change[c].by = "button"
       /\ Restates(c) => change[c].card \in DOMAIN posted

Moving(c) == change[c].at \notin {"new", "done"}

\* The change that is owed to the newest card is under way, alone, or shown.
DueIsUnderWay ==
  due # "any" =>
    /\ ~posting /\ Newest # 0
    /\ \A c, d \in Changes : Moving(c) /\ Moving(d) => c = d
    /\ \A c \in Changes : Moving(c) =>
         /\ change[c].status = due
         /\ change[c].at = "pressed" \/ TrueOf(due)
         /\ change[c].by = "button" \/ change[c].at = "editing" => change[c].card = Newest
    /\ (\A c \in Changes : ~Moving(c)) => posted[Newest].shown = due /\ TrueOf(due)

CardsInductive == CardTypes /\ DueIsUnderWay

LEMMA CardsStart == CardsInit => CardsInductive
<1> SUFFICES ASSUME CardsInit PROVE CardsInductive
  OBVIOUS
<1>1. <<>> \in Seq(Card)
  BY EmptySeq
<1>2. CardTypes
  BY <1>1 DEF CardsInit, CardTypes, NoChange, Change, At, Restates, Statuses
<1> QED
  BY <1>2 DEF CardsInit, CardsInductive, DueIsUnderWay

LEMMA PostedRows ==
  ASSUME posted \in Seq(Card)
  PROVE  /\ Len(posted) \in Nat /\ DOMAIN posted = 1 .. Len(posted)
         /\ \A i \in DOMAIN posted : posted[i] \in Card
BY LenProperties, ElementOfSeq

\* A set of numbers up to n has a greatest one.
LEMMA SomeIsGreatest ==
  ASSUME NEW n \in Nat, NEW T, T \subseteq 1 .. n, T # {}
  PROVE  \E i \in T : \A j \in T : j <= i
<1> DEFINE Away == {k \in Nat : \E j \in T : j + k = n}
<1>1. ASSUME NEW j \in T PROVE n - j \in Away
  <2>1. j \in Nat /\ j <= n
    OBVIOUS
  <2>2. n - j \in Nat /\ j + (n - j) = n
    BY <2>1
  <2> QED
    BY <2>2
<1>2. Away \subseteq Nat /\ Away # {}
  BY <1>1
<1>3. \E k \in Away : \A x \in Away : ~ (x < k)
  <2>1. \E k \in Away : \A x \in Away : <<x, k>> \notin OpToRel(<, Nat)
    BY <1>2, NatLessThanWellFounded, WFMin
  <2> QED
    BY <1>2, <2>1, Zenon DEF OpToRel
<1>4. PICK k \in Away : \A x \in Away : ~ (x < k)
  BY <1>3
<1>5. PICK i \in T : k \in Nat /\ i + k = n
  BY <1>4
<1> HIDE DEF Away
<1>6. ASSUME NEW j \in T PROVE j <= i
  <2>1. n - j \in Nat /\ ~ (n - j < k) /\ k \in Nat /\ i + k = n /\ i \in Nat /\ j \in Nat
    BY <1>1, <1>2, <1>4, <1>5
  <2> QED
    BY <2>1
<1> QED
  BY <1>5, <1>6

\* Among linked cards there is a newest.
LEMMA SomeCardIsNewest ==
  ASSUME posted \in Seq(Card), Linked # {}
  PROVE  Newest \in Linked /\ \A j \in Linked : j <= Newest
<1>1. Len(posted) \in Nat /\ Linked \subseteq 1 .. Len(posted)
  BY PostedRows DEF Linked
<1>2. \E i \in Linked : \A j \in Linked : j <= i
  BY <1>1, SomeIsGreatest
<1> QED
  BY <1>2 DEF Newest

\* The newest card is one of them, and there is only one.
LEMMA NewestIs ==
  ASSUME posted \in Seq(Card), Newest # 0
  PROVE  /\ Newest \in Linked /\ Newest \in DOMAIN posted
         /\ \A j \in Linked : j <= Newest
<1>1. Linked # {}
  BY DEF Newest
<1> QED
  BY <1>1, SomeCardIsNewest DEF Linked

\* Restating a card changes what it shows and nothing else.
LEMMA Restated ==
  ASSUME posted \in Seq(Card), NEW i \in DOMAIN posted, NEW s \in Statuses \cup {"none"},
         posted' = [posted EXCEPT ![i].shown = s]
  PROVE  /\ posted' \in Seq(Card) /\ DOMAIN posted' = DOMAIN posted
         /\ Linked' = Linked
         /\ posted'[i].shown = s
<1>1. PICK card : card = [posted[i] EXCEPT !.shown = s]
  OBVIOUS
<1>2. posted[i] \in Card /\ i \in 1 .. Len(posted) /\ DOMAIN posted = 1 .. Len(posted)
  BY PostedRows
<1>3. card \in Card /\ card.linked = posted[i].linked /\ card.shown = s
  BY <1>1, <1>2 DEF Card
<1>4. posted' = [posted EXCEPT ![i] = card]
  BY <1>1
<1>5. /\ posted' \in Seq(Card) /\ Len(posted') = Len(posted)
      /\ \A j \in 1 .. Len(posted) : posted'[j] = IF j = i THEN card ELSE posted[j]
  BY <1>2, <1>3, <1>4, ExceptSeq
<1>6. DOMAIN posted' = DOMAIN posted
  BY <1>2, <1>5, LenProperties
<1>7. \A j \in DOMAIN posted : posted'[j].linked = posted[j].linked
  BY <1>2, <1>3, <1>5
<1>8. Linked' = Linked
  BY <1>6, <1>7 DEF Linked
<1> QED
  BY <1>2, <1>3, <1>5, <1>6, <1>8

LEMMA NewestStays ==
  ASSUME posted \in Seq(Card), posted' \in Seq(Card), Linked' = Linked, Newest # 0
  PROVE  Newest' = Newest
<1>1. Linked # {} /\ Linked \subseteq Nat
  BY PostedRows DEF Newest, Linked
<1>2. Newest \in Linked /\ \A j \in Linked : j <= Newest
  BY <1>1, SomeCardIsNewest
<1>3. PICK n : n = Newest
  OBVIOUS
<1>4. PICK m : m = Newest'
  OBVIOUS
<1>5. m = CHOOSE i \in Linked' : \A j \in Linked' : j <= i
  BY <1>1, <1>4 DEF Newest
<1>6. m \in Linked /\ \A j \in Linked : j <= m
  BY <1>2, <1>5
<1> QED
  BY <1>1, <1>2, <1>4, <1>6

\* A status is true of the mail it was applied to.
LEMMA AppliedIsTrue ==
  ASSUME CardTypes, NEW s \in Statuses \cup {"none"}, applyMailboxMessageAction(s)
  PROVE  /\ TrueOf(s)'
         /\ place' \in {"inbox"} \cup CLOSED_STATUSES /\ read' \in BOOLEAN
BY DEF CardTypes, applyMailboxMessageAction, TrueOf, Statuses, CLOSED_STATUSES

\* Linking a card adds it to the linked ones; posting one adds it to the cards.
LEMMA CardsGrow ==
  ASSUME CardTypes, postMailCard \/ insertCardLink
  PROVE  posted' \in Seq(Card) /\ DOMAIN posted \subseteq DOMAIN posted' /\ posted' # <<>>
<1>1. Len(posted) \in Nat /\ DOMAIN posted = 1 .. Len(posted)
  BY PostedRows DEF CardTypes
<1>2. CASE postMailCard
  <2>1. PICK card : card = [linked |-> FALSE, shown |-> "none"]
    OBVIOUS
  <2>2. card \in Card
    BY <2>1 DEF Card
  <2>3. /\ Append(posted, card) \in Seq(Card)
        /\ Append(posted, card) # <<>>
        /\ Len(Append(posted, card)) = Len(posted) + 1
    BY <2>2, AppendProperties DEF CardTypes
  <2>4. posted' = Append(posted, card)
    BY <1>2, <2>1 DEF postMailCard
  <2>5. DOMAIN posted' = 1 .. Len(posted) + 1
    BY <2>3, <2>4, LenProperties
  <2> QED
    BY <1>1, <2>3, <2>4, <2>5
<1>3. CASE insertCardLink /\ UNCHANGED posted
  BY <1>3 DEF insertCardLink, CardTypes
<1>4. CASE insertCardLink /\ posted' = [posted EXCEPT ![Len(posted)].linked = TRUE]
  <2>1. Len(posted) \in 1 .. Len(posted) /\ posted # <<>>
    BY <1>1, <1>4, EmptySeq DEF insertCardLink, CardTypes
  <2>2. PICK card : card = [posted[Len(posted)] EXCEPT !.linked = TRUE]
    OBVIOUS
  <2>3. posted[Len(posted)] \in Card
    BY <1>1, <2>1, PostedRows DEF CardTypes
  <2>4. card \in Card
    BY <2>2, <2>3 DEF Card
  <2>5. posted' = [posted EXCEPT ![Len(posted)] = card]
    BY <1>4, <2>2
  <2>6. posted' \in Seq(Card) /\ Len(posted') = Len(posted)
    BY <2>1, <2>4, <2>5, ExceptSeq DEF CardTypes
  <2>7. DOMAIN posted' = DOMAIN posted
    BY <1>1, <2>6, LenProperties
  <2> QED
    BY <1>1, <2>1, <2>6, <2>7
<1> QED
  BY <1>2, <1>3, <1>4 DEF insertCardLink

\* An edit shows the status of the change on the card the change names.
LEMMA CardEdited ==
  ASSUME CardTypes, NEW c \in Changes, Restates(c), Edited(c)
  PROVE  /\ posted' \in Seq(Card) /\ DOMAIN posted' = DOMAIN posted
         /\ Linked' = Linked
         /\ posted'[change[c].card].shown = change[c].status
<1>1. PICK i : i = change[c].card
  OBVIOUS
<1>2. PICK s : s = change[c].status
  OBVIOUS
<1>3. i \in DOMAIN posted /\ s \in Statuses \cup {"none"}
  BY <1>1, <1>2 DEF CardTypes, Change
<1>4. posted' = [posted EXCEPT ![i].shown = s]
  BY <1>1, <1>2 DEF Edited
<1> QED
  BY <1>1, <1>2, <1>3, <1>4, Restated DEF CardTypes

\* A step of a change moves that change and leaves what it knows.
LEMMA ChangeMoves ==
  ASSUME change \in [Changes -> Change], NEW c \in Changes,
         NEW p \in {"acted", "queued", "pressed", "done"}, To(c, p)
  PROVE  /\ change' \in [Changes -> Change]
         /\ \A d \in Changes : d # c => change'[d] = change[d]
         /\ change'[c].at = p /\ change'[c].by = change[c].by
         /\ change'[c].status = change[c].status /\ change'[c].card = change[c].card
BY DEF Change, To

\* Finding the card to edit.
LEMMA CardFound ==
  ASSUME CardTypes, NEW c \in Changes, refreshTelegramCard(c)
  PROVE  /\ change' \in [Changes -> Change]
         /\ \A d \in Changes : d # c => change'[d] = change[d]
         /\ change'[c].at = IF Newest = 0 THEN "done" ELSE "editing"
         /\ change'[c].by = change[c].by /\ change'[c].status = change[c].status
         /\ change'[c].card = Newest /\ Newest \in Nat
         /\ Newest # 0 => Newest \in DOMAIN posted
<1>1. findCard = Newest
  BY DEF findCard, Newest
<1>2. Newest \in Nat /\ (Newest # 0 => Newest \in DOMAIN posted)
  <2>1. Newest # 0 => Newest \in DOMAIN posted
    BY NewestIs DEF CardTypes
  <2> QED
    BY <2>1, PostedRows DEF CardTypes
<1>3. PICK p : p = IF Newest = 0 THEN "done" ELSE "editing"
  OBVIOUS
<1>4. PICK n : n = Newest
  OBVIOUS
<1>5. change' = [change EXCEPT ![c].at = p, ![c].card = n]
  BY <1>1, <1>3, <1>4 DEF refreshTelegramCard
<1>6. p \in {"done", "editing"} /\ n \in Nat
  BY <1>2, <1>3, <1>4
<1>7. PICK r : r = [change[c] EXCEPT !.at = p, !.card = n]
  OBVIOUS
<1>8. r \in Change /\ r.at = p /\ r.card = n /\ r.by = change[c].by /\ r.status = change[c].status
  BY <1>6, <1>7 DEF CardTypes, Change
<1>9. change' = [change EXCEPT ![c] = r]
  BY <1>5, <1>7 DEF CardTypes, Change
<1> HIDE DEF Change
<1> QED
  BY <1>2, <1>3, <1>4, <1>8, <1>9 DEF CardTypes

LEMMA CardTypesStep ==
  ASSUME CardTypes, [CardsNext]_cardVars
  PROVE  CardTypes'
<1> USE DEF CardTypes, At, CardFault, Restates
<1>1. ASSUME postMailCard \/ insertCardLink PROVE CardTypes'
  <2>1. posted' \in Seq(Card) /\ DOMAIN posted \subseteq DOMAIN posted' /\ posted' # <<>>
    BY <1>1, CardsGrow
  <2> QED
    BY <1>1, <2>1 DEF postMailCard, insertCardLink
<1>2. ASSUME NEW c \in Changes, WebAction(c) PROVE CardTypes'
  <2>1. PICK s \in Statuses :
          /\ applyMailboxMessageAction(s)
          /\ change' = [change EXCEPT ![c] = [NoChange EXCEPT !.at = "acted", !.status = s]]
          /\ due' \in {s, "any"}
    BY <1>2 DEF WebAction, Owes
  <2>2. place' \in {"inbox"} \cup CLOSED_STATUSES /\ read' \in BOOLEAN
    BY <2>1, AppliedIsTrue
  <2>3. /\ change' \in [Changes -> Change] /\ change'[c].by = "web" /\ change'[c].at = "acted"
        /\ \A d \in Changes : d # c => change'[d] = change[d]
    BY <2>1 DEF NoChange, Change
  <2> QED
    BY <1>2, <2>1, <2>2, <2>3 DEF WebAction
<1>3. ASSUME NEW c \in Changes, enqueueTelegramCardRefresh(c) PROVE CardTypes'
  BY <1>3, ChangeMoves DEF enqueueTelegramCardRefresh
<1>4. ASSUME NEW c \in Changes, refreshTelegramCard(c) PROVE CardTypes'
  <2>1. UNCHANGED <<place, read, posted, posting, due>>
    BY <1>4 DEF refreshTelegramCard
  <2> QED
    BY <1>4, <2>1, CardFound
<1>5. ASSUME NEW c \in Changes, restateCard(c) PROVE CardTypes'
  <2>1. UNCHANGED posted \/ (posted' \in Seq(Card) /\ DOMAIN posted' = DOMAIN posted)
    BY <1>5, CardEdited DEF restateCard
  <2>2. posting => posted' # <<>>
    BY <2>1, EmptySeq, PostedRows
  <2> QED
    BY <1>5, <2>1, <2>2, ChangeMoves DEF restateCard
<1>6. ASSUME NEW c \in Changes, PressButton(c) PROVE CardTypes'
  <2>1. PICK i \in DOMAIN posted, s \in {"archived", "read", "none"} :
          /\ change' = [change EXCEPT ![c] =
                [at |-> "pressed", by |-> "button", status |-> s, card |-> i]]
          /\ due' \in {s, "any"}
    BY <1>6 DEF PressButton, Owes
  <2>2. i \in Nat /\ s \in Statuses \cup {"none"}
    BY PostedRows DEF Statuses
  <2> QED
    BY <1>6, <2>1, <2>2 DEF PressButton, Change
<1>7. ASSUME NEW c \in Changes, handleCardCallback(c) PROVE CardTypes'
  <2>0. PICK s : s = change[c].status
    OBVIOUS
  <2>1. place' \in {"inbox"} \cup CLOSED_STATUSES /\ read' \in BOOLEAN
    BY <1>7, <2>0, AppliedIsTrue DEF handleCardCallback, Change
  <2> QED
    BY <1>7, <2>1, ChangeMoves DEF handleCardCallback
<1>8. ASSUME NEW c \in Changes, restateAfterAction(c) PROVE CardTypes'
  <2>1. UNCHANGED posted \/ (posted' \in Seq(Card) /\ DOMAIN posted' = DOMAIN posted)
    BY <1>8, CardEdited DEF restateAfterAction
  <2>2. posting => posted' # <<>>
    BY <2>1, EmptySeq, PostedRows
  <2> QED
    BY <1>8, <2>1, <2>2, ChangeMoves DEF restateAfterAction
<1>9. ASSUME NEW c \in Changes, PressAgain(c) PROVE CardTypes'
  BY <1>9, ChangeMoves DEF PressAgain
<1>10. CASE UNCHANGED cardVars
  BY <1>10 DEF cardVars
<1> QED
  BY <1>1, <1>2, <1>3, <1>4, <1>5, <1>6, <1>7, <1>8, <1>9, <1>10 DEF CardsNext, CardStep

\* While the cards keep their links, so does the newest one.
LEMMA NewestKept ==
  ASSUME CardTypes, CardTypes', Linked' = Linked, Newest # 0
  PROVE  Newest' = Newest
BY NewestStays DEF CardTypes

LEMMA DueStep ==
  ASSUME CardTypes, CardTypes', DueIsUnderWay, [CardsNext]_cardVars
  PROVE  DueIsUnderWay'
<1> USE DEF At, To, CardFault, Moving
<1> SUFFICES ASSUME due' # "any" PROVE DueIsUnderWay'
  BY DEF DueIsUnderWay
<1>1. ASSUME postMailCard \/ insertCardLink PROVE DueIsUnderWay'
  BY <1>1 DEF postMailCard, insertCardLink, DueIsUnderWay
<1>a. ASSUME UNCHANGED posted PROVE Linked' = Linked /\ Newest' = Newest
  BY <1>a DEF Linked, Newest
<1>2. ASSUME NEW c \in Changes, WebAction(c) PROVE DueIsUnderWay'
  <2>1. PICK s \in Statuses :
          /\ applyMailboxMessageAction(s)
          /\ change' = [change EXCEPT ![c] = [NoChange EXCEPT !.at = "acted", !.status = s]]
          /\ due' = s /\ ~InFlight /\ Newest # 0
    BY <1>2 DEF WebAction, Owes
  <2>2. TrueOf(s)'
    BY <2>1, AppliedIsTrue
  <2>3. Newest' = Newest /\ ~posting' /\ change \in [Changes -> Change]
    BY <1>2, <1>a, <2>1 DEF WebAction, InFlight, CardTypes
  <2>4. /\ change'[c].at = "acted" /\ change'[c].by = "web" /\ change'[c].status = s
        /\ \A d \in Changes : d # c => change'[d].at \in {"new", "done"}
    BY <2>1, <2>3 DEF NoChange, InFlight
  <2>5. TrueOf(due)'
    BY <2>1, <2>2 DEF TrueOf
  <2> QED
    BY <2>1, <2>3, <2>4, <2>5 DEF DueIsUnderWay
<1>b. ASSUME due' = due
      PROVE  /\ ~posting /\ Newest # 0
             /\ \A c, d \in Changes : Moving(c) /\ Moving(d) => c = d
             /\ \A c \in Changes : Moving(c) =>
                  /\ change[c].status = due
                  /\ change[c].at = "pressed" \/ TrueOf(due)
                  /\ change[c].by = "button" \/ change[c].at = "editing" => change[c].card = Newest
  BY <1>b DEF DueIsUnderWay
<1>c. ASSUME due' = due, UNCHANGED <<place, read>>, TrueOf(due) PROVE TrueOf(due)'
  BY <1>c DEF TrueOf
<1>3. ASSUME NEW c \in Changes, enqueueTelegramCardRefresh(c) PROVE DueIsUnderWay'
  <2>1. /\ change' = [change EXCEPT ![c].at = "queued"] /\ At(c, "acted") /\ change[c].by = "web"
        /\ UNCHANGED <<place, read, posted, posting, due>>
    BY <1>3 DEF enqueueTelegramCardRefresh
  <2> QED
    BY <1>a, <1>b, <1>c, <2>1 DEF DueIsUnderWay, CardTypes, Change
<1>4. ASSUME NEW c \in Changes, refreshTelegramCard(c) PROVE DueIsUnderWay'
  <2>1. At(c, "queued") /\ UNCHANGED <<place, read, posted, posting, due>>
    BY <1>4 DEF refreshTelegramCard
  <2>2. /\ change'[c].at = "editing" /\ change'[c].card = Newest /\ change'[c].status = change[c].status
        /\ \A d \in Changes : d # c => change'[d] = change[d]
    BY <1>4, <1>b, <2>1, CardFound
  <2> QED
    BY <1>a, <1>b, <1>c, <2>1, <2>2 DEF DueIsUnderWay
\* An edit that shows what is due settles it.
<1>d. ASSUME NEW c \in Changes, Restates(c), Edited(c), To(c, "done"), Moving(c), ~At(c, "pressed"),
             UNCHANGED <<place, read, posting, due>>
      PROVE  DueIsUnderWay'
  <2>1. Linked' = Linked /\ posted'[change[c].card].shown = change[c].status
    BY <1>d, CardEdited
  <2>2. Newest' = Newest
    BY <1>b, <1>d, <2>1, NewestKept
  <2>3. change[c].card = Newest /\ change[c].status = due /\ TrueOf(due)
    BY <1>b, <1>d DEF Restates
  <2>4. PICK n : n = Newest
    OBVIOUS
  <2>5. posted'[n].shown = due' /\ Newest' = n
    BY <1>d, <2>1, <2>2, <2>3, <2>4
  <2>6. (posted[Newest].shown = due)'
    BY <2>5
  <2>7. \A d \in Changes : ~(change'[d].at \notin {"new", "done"})
    BY <1>b, <1>d DEF CardTypes, Change
  <2>8. TrueOf(due)'
    BY <1>c, <1>d, <2>3
  <2> QED
    BY <1>b, <1>d, <2>2, <2>6, <2>7, <2>8 DEF DueIsUnderWay
<1>5. ASSUME NEW c \in Changes, restateCard(c) PROVE DueIsUnderWay'
  <2>1. CASE Edited(c) /\ To(c, "done") /\ UNCHANGED due
    BY <1>5, <1>d, <2>1 DEF restateCard, Restates
  <2>2. CASE To(c, "queued") /\ UNCHANGED <<posted, due>>
    BY <1>5, <1>a, <1>b, <1>c, <2>2 DEF restateCard, DueIsUnderWay, CardTypes, Change
  <2> QED
    BY <1>5, <2>1, <2>2 DEF restateCard
<1>6. ASSUME NEW c \in Changes, PressButton(c) PROVE DueIsUnderWay'
  <2>1. PICK i \in DOMAIN posted, s \in {"archived", "read", "none"} :
          /\ change' = [change EXCEPT ![c] =
                [at |-> "pressed", by |-> "button", status |-> s, card |-> i]]
          /\ due' = s /\ ~InFlight /\ i = Newest
    BY <1>6 DEF PressButton, Owes
  <2>2. Newest # 0
    BY <2>1, PostedRows DEF CardTypes
  <2>3. Newest' = Newest /\ ~posting' /\ change \in [Changes -> Change]
    BY <1>6, <1>a, <2>1 DEF PressButton, InFlight, CardTypes
  <2>4. /\ change'[c].at = "pressed" /\ change'[c].status = s /\ change'[c].card = Newest
        /\ \A d \in Changes : d # c => change'[d].at \in {"new", "done"}
    BY <2>1, <2>3 DEF InFlight
  <2> QED
    BY <2>1, <2>2, <2>3, <2>4 DEF DueIsUnderWay
<1>7. ASSUME NEW c \in Changes, handleCardCallback(c) PROVE DueIsUnderWay'
  <2>1. At(c, "pressed") /\ UNCHANGED <<posted, posting, due>>
    BY <1>7 DEF handleCardCallback
  <2>2. change[c].card = Newest /\ change[c].status = due
    BY <1>b, <2>1 DEF CardTypes
  <2>3. posted[Newest].linked
    BY <1>b, <2>1, NewestIs DEF CardTypes, Linked
  <2>4. applyMailboxMessageAction(change[c].status) /\ To(c, "acted")
    BY <1>7, <2>2, <2>3 DEF handleCardCallback
  <2>5. PICK s : s = change[c].status
    OBVIOUS
  <2>6. TrueOf(s)'
    BY <2>4, <2>5, AppliedIsTrue DEF CardTypes, Change
  <2>7. TrueOf(due)'
    BY <2>1, <2>2, <2>5, <2>6 DEF TrueOf
  <2> QED
    BY <1>a, <1>b, <2>1, <2>4, <2>7 DEF DueIsUnderWay, CardTypes, Change
<1>8. ASSUME NEW c \in Changes, restateAfterAction(c) PROVE DueIsUnderWay'
  BY <1>8, <1>d DEF restateAfterAction, Restates
<1>9. ASSUME NEW c \in Changes, PressAgain(c) PROVE DueIsUnderWay'
  BY <1>9, <1>a, <1>b DEF PressAgain, DueIsUnderWay, CardTypes, Change
<1>10. CASE UNCHANGED cardVars
  <2>1. UNCHANGED <<place, read, posted, posting, change, due>>
    BY <1>10 DEF cardVars
  <2> QED
    BY <1>a, <2>1 DEF DueIsUnderWay, TrueOf
<1> QED
  BY <1>1, <1>2, <1>3, <1>4, <1>5, <1>6, <1>7, <1>8, <1>9, <1>10 DEF CardsNext, CardStep

(***************************************************************************)
(* Whatever was changed before, by web or by button: a change that nothing *)
(* overlapped is what the newest card shows when nothing is in flight any  *)
(* more, and it is true of the mail.                                       *)
(***************************************************************************)
THEOREM CardsFollowTheMail == CardsSpec => []CardsAgree
<1>1. CardsInductive /\ [CardsNext]_cardVars => CardsInductive'
  BY CardTypesStep, DueStep DEF CardsInductive
<1>2. CardsInductive => CardsAgree
  BY DEF CardsInductive, CardsAgree, DueIsUnderWay, CardTypes, InFlight, Moving
<1> QED
  BY <1>1, <1>2, CardsStart, PTL DEF CardsSpec

--------------------------------------------------------------------------------
(* The notifications.                                                      *)

NotePoints == {"queued", "running", "sent", "held", "muted", "unbound", "dropped", "dead"}
Workers == Mails \cup {Cron}
AnyTopic == Topics \cup {Nothing}
AnyName == Names \cup {Nothing}
AnyChat == Chats \cup {Nothing}
Proc == [at : Points, chat : AnyChat, to : AnyChat, topic : AnyTopic, name : AnyName,
         second : BOOLEAN, read : SUBSET Mails]
Request == [at : {"idle", "start", "map", "decide", "upsert"}, chat : AnyChat,
            topic : Nat \cup {Nothing}, name : AnyName]
Posted == [chat : AnyChat, topic : AnyTopic, linked : BOOLEAN]
Retained == [Chats -> {"none", "pending", "digested", "gone"}]

\* The workers, and the queue messages they work on.
WorkerTypes ==
  /\ note \in [Mails -> NotePoints]
  /\ tries \in [Mails -> 0 .. MaxRetries]
  /\ proc \in [Workers -> Proc]
  /\ proc[Cron].at \in {"idle", "flush", "digest", "mark", "sweep"}
  /\ \A m \in Mails :
       /\ note[m] = "running" <=> proc[m].at # "idle"
       /\ proc[m].at # "sweep"
       /\ proc[m].at = "claim" => proc[m].topic \in Topics

\* The bound chat, the topics and the request of the operator.
TopicTypes ==
  /\ binding \in [chat : AnyChat, forum : BOOLEAN]
  /\ mapping \in MapRow \cup {Nothing}
  /\ alive \subseteq used /\ used \subseteq Topics
  /\ op \in Request
  /\ op.at = "upsert" => op.topic \in Topics

\* What is held and what is posted.
RowTypes ==
  /\ retained \in [Mails -> Retained]
  /\ cards \in [Mails -> Seq(Posted)]
  /\ \A m \in Mails : proc[m].at = "link" => cards[m] # <<>>

\* A mail that may still be held is announced in a chat.
MayBeHeld == {"flush", "digest", "mark", "quiet"}
HeldHasChat == \A m \in Mails : proc[m].at \in MayBeHeld => proc[m].chat \in Chats

\* A digest about to be recorded was accepted for some mail of the chat.
DigestWasSent ==
  \A f \in Workers :
    /\ proc[f].at = "digest" => proc[f].read # {}
    /\ proc[f].at = "mark" => \E x \in Mails : <<x, proc[f].to>> \in told

\* Nobody deleted or mapped a topic: the mapping is written once, and what was
\* posted, and what is about to be, is in its topic.
MappingRules ==
  ~touched =>
    /\ alive = used
    /\ mapping # Nothing => mapping.topic \in used
    /\ \A m \in Mails :
         /\ proc[m].at \notin {"stale", "forget"}
         /\ proc[m].at = "claim" => proc[m].topic \in used
         /\ proc[m].at = "reread" => mapping # Nothing
         /\ proc[m].at \in {"send", "link"} /\ proc[m].topic # Nothing =>
              mapping # Nothing /\ proc[m].topic = mapping.topic
         /\ \A i \in DOMAIN cards[m] : cards[m][i].topic # Nothing =>
              mapping # Nothing /\ cards[m][i].topic = mapping.topic

NotifyInductive ==
  /\ WorkerTypes /\ TopicTypes /\ RowTypes
  /\ HeldHasChat /\ AckedIsAnnounced /\ ClosedAfterDigest /\ DigestWasSent /\ MappingRules

LEMMA NotifyStarts == NotifyInit => NotifyInductive
<1> SUFFICES ASSUME NotifyInit PROVE NotifyInductive
  OBVIOUS
<1>1. NoProc \in Proc
  BY DEF NoProc, Proc, Points, AnyChat, AnyTopic, AnyName
<1>2. WorkerTypes
  BY <1>1, NotifyAssumption DEF NotifyInit, WorkerTypes, Workers, NotePoints, NoProc
<1>3. used = {} \/ (used = {1} /\ 1 \in Topics)
  <2>1. 1 \in Topics
    BY NotifyAssumption DEF Topics
  <2>2. used = {} \/ used = {1}
    BY DEF NotifyInit
  <2> QED
    BY <2>1, <2>2
<1>4. TopicTypes
  <2>1. mapping \in MapRow \cup {Nothing}
    <3>1. \/ mapping = Nothing
          \/ used = {1} /\ chosen \in Names \cup {Nothing} /\ mapping = [topic |-> 1, name |-> chosen]
      BY DEF NotifyInit
    <3> QED
      BY <1>3, <3>1 DEF MapRow
  <2>2. binding \in [chat : AnyChat, forum : BOOLEAN]
    BY DEF NotifyInit, AnyChat
  <2> QED
    BY <1>3, <2>1, <2>2 DEF NotifyInit, TopicTypes, Request, NoOp, AnyName, AnyChat
<1>5. RowTypes
  <2>1. [c \in Chats |-> "none"] \in Retained /\ <<>> \in Seq(Posted)
    BY EmptySeq DEF Retained
  <2> QED
    BY <2>1 DEF NotifyInit, RowTypes, NoProc
<1>6. HeldHasChat /\ AckedIsAnnounced /\ ClosedAfterDigest /\ DigestWasSent
  BY DEF NotifyInit, HeldHasChat, MayBeHeld, AckedIsAnnounced, ClosedAfterDigest, DigestWasSent, NoProc, Workers
<1>7. MappingRules
  <2>1. mapping = Nothing \/ (mapping.topic = 1 /\ used = {1})
    BY DEF NotifyInit
  <2> QED
    BY <2>1 DEF NotifyInit, MappingRules, NoProc
<1> QED
  BY <1>2, <1>4, <1>5, <1>6, <1>7 DEF NotifyInductive

--------------------------------------------------------------------------------
(* How a worker moves.                                                     *)

LEMMA WorkerMoves ==
  ASSUME WorkerTypes, NEW f \in Workers, NEW r \in Proc, proc' = [proc EXCEPT ![f] = r]
  PROVE  /\ proc' \in [Workers -> Proc] /\ proc'[f] = r
         /\ \A g \in Workers : g # f => proc'[g] = proc[g]
BY DEF WorkerTypes

\* It goes on to a point of its way ...
LEMMA WorkerGoes ==
  ASSUME WorkerTypes, NEW f \in Workers, NEW p \in Points, Goes(f, p)
  PROVE  /\ proc' \in [Workers -> Proc]
         /\ \A g \in Workers : g # f => proc'[g] = proc[g]
         /\ proc'[f].at = p /\ proc'[f].chat = proc[f].chat /\ proc'[f].to = proc[f].to
         /\ proc'[f].topic = proc[f].topic /\ proc'[f].read = proc[f].read
<1>1. PICK r : r = [proc[f] EXCEPT !.at = p]
  OBVIOUS
<1>2. /\ r \in Proc /\ r.at = p /\ r.chat = proc[f].chat /\ r.to = proc[f].to
      /\ r.topic = proc[f].topic /\ r.read = proc[f].read
  BY <1>1 DEF WorkerTypes, Proc
<1>3. proc' = [proc EXCEPT ![f] = r]
  BY <1>1 DEF Goes
<1> QED
  BY <1>2, <1>3, WorkerMoves

\* ... with a topic ...
LEMMA WorkerTakesTopic ==
  ASSUME WorkerTypes, NEW f \in Workers, NEW p \in Points, NEW t \in AnyTopic,
         proc' = [proc EXCEPT ![f].at = p, ![f].topic = t]
  PROVE  /\ proc' \in [Workers -> Proc]
         /\ \A g \in Workers : g # f => proc'[g] = proc[g]
         /\ proc'[f].at = p /\ proc'[f].topic = t
<1>1. PICK r : r = [proc[f] EXCEPT !.at = p, !.topic = t]
  OBVIOUS
<1>2. r \in Proc /\ r.at = p /\ r.topic = t
  BY <1>1 DEF WorkerTypes, Proc
<1>3. proc' = [proc EXCEPT ![f] = r]
  BY <1>1
<1> QED
  BY <1>2, <1>3, WorkerMoves

\* ... with the name of a topic ...
LEMMA WorkerTakesName ==
  ASSUME WorkerTypes, NEW f \in Workers, NEW p \in Points, NEW n \in AnyName,
         proc' = [proc EXCEPT ![f].at = p, ![f].name = n]
  PROVE  /\ proc' \in [Workers -> Proc]
         /\ \A g \in Workers : g # f => proc'[g] = proc[g]
         /\ proc'[f].at = p
<1>1. PICK r : r = [proc[f] EXCEPT !.at = p, !.name = n]
  OBVIOUS
<1>2. r \in Proc /\ r.at = p
  BY <1>1 DEF WorkerTypes, Proc
<1>3. proc' = [proc EXCEPT ![f] = r]
  BY <1>1
<1> QED
  BY <1>2, <1>3, WorkerMoves

\* ... for a second attempt ...
LEMMA WorkerTriesAgain ==
  ASSUME WorkerTypes, NEW f \in Workers, NEW p \in Points,
         proc' = [proc EXCEPT ![f].at = p, ![f].second = TRUE]
  PROVE  /\ proc' \in [Workers -> Proc]
         /\ \A g \in Workers : g # f => proc'[g] = proc[g]
         /\ proc'[f].at = p
<1>1. PICK r : r = [proc[f] EXCEPT !.at = p, !.second = TRUE]
  OBVIOUS
<1>2. r \in Proc /\ r.at = p
  BY <1>1 DEF WorkerTypes, Proc
<1>3. proc' = [proc EXCEPT ![f] = r]
  BY <1>1
<1> QED
  BY <1>2, <1>3, WorkerMoves

\* ... with a digest to send, or with none.
LEMMA WorkerTakesDigest ==
  ASSUME WorkerTypes, NEW f \in Workers, NEW p \in Points, NEW c \in AnyChat, NEW rows \in SUBSET Mails,
         proc' = [proc EXCEPT ![f].at = p, ![f].to = c, ![f].read = rows]
  PROVE  /\ proc' \in [Workers -> Proc]
         /\ \A g \in Workers : g # f => proc'[g] = proc[g]
         /\ proc'[f].at = p /\ proc'[f].to = c /\ proc'[f].read = rows
         /\ proc'[f].chat = proc[f].chat
<1>1. PICK r : r = [proc[f] EXCEPT !.at = p, !.to = c, !.read = rows]
  OBVIOUS
<1>2. r \in Proc /\ r.at = p /\ r.to = c /\ r.read = rows /\ r.chat = proc[f].chat
  BY <1>1 DEF WorkerTypes, Proc
<1>3. proc' = [proc EXCEPT ![f] = r]
  BY <1>1
<1> QED
  BY <1>2, <1>3, WorkerMoves

\* A worker that is done is idle.
LEMMA WorkerAcks ==
  ASSUME WorkerTypes, NEW m \in Mails, NEW how \in NotePoints, Acks(m, how)
  PROVE  /\ proc' \in [Workers -> Proc] /\ proc'[m].at = "idle"
         /\ \A g \in Workers : g # m => proc'[g] = proc[g]
         /\ note' \in [Mails -> NotePoints] /\ note'[m] = how
         /\ \A k \in Mails : k # m => note'[k] = note[k]
<1>1. NoProc \in Proc /\ NoProc.at = "idle"
  BY DEF NoProc, Proc, Points, AnyChat, AnyTopic, AnyName
<1>2. m \in Workers /\ proc' = [proc EXCEPT ![m] = NoProc] /\ note' = [note EXCEPT ![m] = how]
  BY DEF Acks, Workers
<1> HIDE DEF NoProc
<1>3. /\ proc' \in [Workers -> Proc] /\ proc'[m] = NoProc
      /\ \A g \in Workers : g # m => proc'[g] = proc[g]
  BY <1>1, <1>2, WorkerMoves
<1> QED
  BY <1>1, <1>2, <1>3 DEF WorkerTypes

\* A delivery begins, and is skipped or looks at the digest.
LEMMA WorkerReceives ==
  ASSUME WorkerTypes, TopicTypes, NEW m \in Mails, Receive(m)
  PROVE  \/ Acks(m, "unbound") \/ Acks(m, "muted")
         \/ /\ proc' \in [Workers -> Proc] /\ proc'[m].at = "flush" /\ proc'[m].chat \in Chats
            /\ \A g \in Workers : g # m => proc'[g] = proc[g]
            /\ note' = [note EXCEPT ![m] = "running"]
<1> SUFFICES ASSUME proc' = [proc EXCEPT ![m] = [NoProc EXCEPT !.at = "flush", !.chat = binding.chat]],
                    note' = [note EXCEPT ![m] = "running"], binding.chat \in Chats
             PROVE  /\ proc' \in [Workers -> Proc] /\ proc'[m].at = "flush" /\ proc'[m].chat \in Chats
                    /\ \A g \in Workers : g # m => proc'[g] = proc[g]
  BY DEF Receive, TopicTypes, AnyChat
<1>1. PICK r : r = [NoProc EXCEPT !.at = "flush", !.chat = binding.chat]
  OBVIOUS
<1>2. r \in Proc /\ r.at = "flush" /\ r.chat \in Chats
  BY <1>1 DEF NoProc, Proc, Points, AnyChat, AnyTopic, AnyName, TopicTypes
<1> QED
  BY <1>1, <1>2, WorkerMoves DEF Workers

\* A step of one worker is a step of no other.
Alone(f) == proc' \in [Workers -> Proc] /\ \A g \in Workers : g # f => proc'[g] = proc[g]

LEMMA ResolveMoves ==
  ASSUME WorkerTypes, TopicTypes, NEW m \in Mails, resolveTopicId(m)
  PROVE  /\ Alone(m) /\ proc[m].at = "resolve"
         /\ \/ proc'[m].at = "create"
            \/ proc'[m].at = "send" /\ proc'[m].topic = Nothing
            \/ proc'[m].at = "send" /\ mapping # Nothing /\ proc'[m].topic = mapping.topic
<1>1. m \in Workers /\ "send" \in Points /\ "create" \in Points /\ proc[m].at = "resolve"
  BY DEF Workers, Points, resolveTopicId, NAt
<1>2. CASE proc' = [proc EXCEPT ![m].at = "send", ![m].topic = Nothing]
  <2>1. Nothing \in AnyTopic
    BY DEF AnyTopic
  <2> QED
    BY <1>1, <1>2, <2>1, WorkerTakesTopic DEF Alone
<1>3. CASE proc' = [proc EXCEPT ![m].at = "send", ![m].topic = mapping.topic] /\ mapping # Nothing
  <2>1. PICK t : t = mapping.topic
    OBVIOUS
  <2>2. t \in AnyTopic
    BY <1>3, <2>1 DEF TopicTypes, MapRow, AnyTopic
  <2>3. proc' = [proc EXCEPT ![m].at = "send", ![m].topic = t]
    BY <1>3, <2>1
  <2>4. Alone(m) /\ proc'[m].at = "send" /\ proc'[m].topic = t
    BY <1>1, <2>2, <2>3, WorkerTakesTopic DEF Alone
  <2> QED
    BY <1>1, <1>3, <2>1, <2>4
<1>4. CASE Goes(m, "create")
  BY <1>1, <1>4, WorkerGoes DEF Alone
<1> QED
  BY <1>2, <1>3, <1>4 DEF resolveTopicId, Mapped

LEMMA CreateMoves ==
  ASSUME WorkerTypes, NEW m \in Mails, createForumTopic(m)
  PROVE  /\ Alone(m) /\ proc[m].at = "create"
         /\ \/ proc'[m].at = "send" /\ proc'[m].topic = Nothing /\ UNCHANGED <<alive, used>>
            \/ \E t \in Topics : proc'[m].at = "claim" /\ proc'[m].topic = t /\ NewTopic(t)
<1>1. m \in Workers /\ {"send", "claim"} \subseteq Points /\ Nothing \in AnyTopic
  BY DEF Workers, Points, AnyTopic
<1>2. CASE proc' = [proc EXCEPT ![m].at = "send", ![m].topic = Nothing] /\ UNCHANGED <<alive, used>>
  BY <1>1, <1>2, WorkerTakesTopic DEF createForumTopic, NAt, Alone
<1>3. ASSUME NEW t \in Topics, NewTopic(t), proc' = [proc EXCEPT ![m].at = "claim", ![m].topic = t]
      PROVE  Alone(m) /\ proc'[m].at = "claim" /\ proc'[m].topic = t
  <2>1. t \in AnyTopic
    BY DEF AnyTopic
  <2> QED
    BY <1>1, <1>3, <2>1, WorkerTakesTopic DEF Alone
<1> QED
  BY <1>2, <1>3 DEF createForumTopic, NAt

LEMMA RereadMoves ==
  ASSUME WorkerTypes, TopicTypes, NEW m \in Mails, getTelegramTopicForMailbox(m)
  PROVE  /\ Alone(m) /\ proc[m].at = "reread" /\ proc'[m].at = "send"
         /\ mapping # Nothing => proc'[m].topic = mapping.topic
<1>1. m \in Workers /\ "send" \in Points
  BY DEF Workers, Points
<1>2. PICK t : t = IF mapping = Nothing THEN proc[m].topic ELSE mapping.topic
  OBVIOUS
<1>3. t \in AnyTopic
  BY <1>1, <1>2 DEF WorkerTypes, Proc, TopicTypes, MapRow, AnyTopic
<1>4. proc' = [proc EXCEPT ![m].at = "send", ![m].topic = t]
  BY <1>1, <1>2 DEF getTelegramTopicForMailbox, WorkerTypes, Proc
<1>5. PICK r : r = [proc[m] EXCEPT !.at = "send", !.topic = t]
  OBVIOUS
<1>6. r \in Proc /\ r.at = "send" /\ r.topic = t
  BY <1>1, <1>3, <1>5 DEF WorkerTypes, Proc
<1>7. proc' = [proc EXCEPT ![m] = r]
  BY <1>4, <1>5
<1>8. Alone(m) /\ proc'[m] = r
  BY <1>1, <1>6, <1>7, WorkerMoves DEF Alone
<1> QED
  BY <1>2, <1>6, <1>8 DEF getTelegramTopicForMailbox, NAt

LEMMA NameMoves ==
  ASSUME WorkerTypes, TopicTypes, NEW m \in Mails, readStaleName(m)
  PROVE  Alone(m) /\ proc[m].at = "stale" /\ proc'[m].at = "forget"
<1>1. m \in Workers /\ "forget" \in Points
  BY DEF Workers, Points
<1>2. PICK n : n = IF Mapped(proc[m].chat) THEN mapping.name ELSE Nothing
  OBVIOUS
<1>3. n \in AnyName
  BY <1>2 DEF TopicTypes, MapRow, AnyName, Mapped
<1>4. proc' = [proc EXCEPT ![m].at = "forget", ![m].name = n]
  BY <1>2 DEF readStaleName
<1> QED
  BY <1>1, <1>3, <1>4, WorkerTakesName DEF readStaleName, NAt, Alone

LEMMA DigestMoves ==
  ASSUME WorkerTypes, TopicTypes, NEW f \in Workers, pendingRetained(f)
  PROVE  /\ Alone(f) /\ proc[f].at = "flush" /\ proc'[f].chat = proc[f].chat
         /\ \/ proc'[f].at = AfterFlush(f)
            \/ proc'[f].at = "digest" /\ proc'[f].read # {}
<1> DEFINE rows == Pending(binding.chat)
<1>1. AfterFlush(f) \in Points /\ "digest" \in Points /\ proc[f].at = "flush"
  BY DEF AfterFlush, Points, pendingRetained, NAt
<1>2. CASE Goes(f, AfterFlush(f))
  BY <1>1, <1>2, WorkerGoes DEF Alone
<1>3. CASE proc' = [proc EXCEPT ![f].at = "digest", ![f].to = binding.chat, ![f].read = rows] /\ rows # {}
  <2>1. PICK r : r = rows
    OBVIOUS
  <2>2. PICK c : c = binding.chat
    OBVIOUS
  <2>3. r \in SUBSET Mails /\ c \in AnyChat
    BY <2>1, <2>2 DEF Pending, TopicTypes
  <2>4. proc' = [proc EXCEPT ![f].at = "digest", ![f].to = c, ![f].read = r]
    BY <1>3, <2>1, <2>2
  <2>5. PICK q : q = [proc[f] EXCEPT !.at = "digest", !.to = c, !.read = r]
    OBVIOUS
  <2>6. q \in Proc /\ q.at = "digest" /\ q.read = r /\ q.chat = proc[f].chat
    BY <1>1, <2>3, <2>5 DEF WorkerTypes, Proc
  <2>7. proc' = [proc EXCEPT ![f] = q]
    BY <2>4, <2>5
  <2>8. Alone(f) /\ proc'[f] = q
    BY <2>6, <2>7, WorkerMoves DEF Alone
  <2> QED
    BY <1>1, <1>3, <2>1, <2>6, <2>8
<1> QED
  BY <1>2, <1>3 DEF pendingRetained

LEMMA FlushEnds ==
  ASSUME WorkerTypes, NEW f \in Workers, markDigested(f) \/ FlushFails(f)
  PROVE  /\ Alone(f) /\ proc[f].at \in {"digest", "mark"} /\ proc'[f].at = AfterFlush(f)
         /\ proc'[f].chat = proc[f].chat
<1>1. AfterFlush(f) \in Points /\ Nothing \in AnyChat /\ {} \in SUBSET Mails
  BY DEF AfterFlush, Points, AnyChat
<1>2. proc' = [proc EXCEPT ![f].at = AfterFlush(f), ![f].to = Nothing, ![f].read = {}]
  BY DEF markDigested, FlushFails
<1> QED
  BY <1>1, <1>2, WorkerTakesDigest DEF markDigested, FlushFails, NAt, Alone

LEMMA SendMoves ==
  ASSUME WorkerTypes, NEW m \in Mails, sendToMailboxTopic(m)
  PROVE  /\ Alone(m) /\ proc[m].at = "send"
         /\ note' \in [Mails -> NotePoints] /\ \A k \in Mails : k # m => note'[k] = note[k]
         /\ \/ /\ proc'[m].at = "link" /\ proc'[m].topic = proc[m].topic /\ UNCHANGED note
               /\ cards' = [cards EXCEPT ![m] = Append(@,
                      [chat |-> proc[m].chat, topic |-> proc[m].topic, linked |-> FALSE])]
            \/ ~Arrives(proc[m]) /\ proc'[m].at = "stale" /\ UNCHANGED <<note, cards>>
            \/ proc'[m].at = "idle" /\ note'[m] = "dropped" /\ UNCHANGED cards
<1>1. /\ m \in Workers /\ "link" \in Points /\ "stale" \in Points /\ "dropped" \in NotePoints
      /\ proc[m].at = "send"
  BY DEF Workers, Points, NotePoints, sendToMailboxTopic, NAt
<1>2. ASSUME UNCHANGED note
      PROVE  note' \in [Mails -> NotePoints] /\ \A k \in Mails : k # m => note'[k] = note[k]
  BY <1>2 DEF WorkerTypes
<1>3. CASE /\ Goes(m, "link") /\ UNCHANGED note
           /\ cards' = [cards EXCEPT ![m] = Append(@,
                  [chat |-> proc[m].chat, topic |-> proc[m].topic, linked |-> FALSE])]
  BY <1>1, <1>2, <1>3, WorkerGoes DEF Alone
<1>4. CASE ~Arrives(proc[m]) /\ Goes(m, "stale") /\ UNCHANGED <<note, cards>>
  BY <1>1, <1>2, <1>4, WorkerGoes DEF Alone
<1>5. CASE Acks(m, "dropped") /\ UNCHANGED cards
  BY <1>1, <1>5, WorkerAcks DEF Alone
<1> QED
  BY <1>3, <1>4, <1>5 DEF sendToMailboxTopic

\* A delivery that fails is queued again, or given up.
LEMMA RetryMoves ==
  ASSUME WorkerTypes, NEW m \in Mails, NotifyRetry(m)
  PROVE  /\ Alone(m) /\ proc'[m].at = "idle" /\ note'[m] \in {"queued", "dead"}
         /\ note' \in [Mails -> NotePoints] /\ \A k \in Mails : k # m => note'[k] = note[k]
         /\ tries' \in [Mails -> 0 .. MaxRetries]
<1>1. PICK how : how = IF tries[m] < MaxRetries THEN "queued" ELSE "dead"
  OBVIOUS
<1>2. how \in NotePoints /\ how \in {"queued", "dead"} /\ Acks(m, how)
  BY <1>1 DEF NotifyRetry, NotePoints
<1>3. tries' \in [Mails -> 0 .. MaxRetries]
  BY NotifyAssumption DEF NotifyRetry, WorkerTypes
<1> QED
  BY <1>2, <1>3, WorkerAcks DEF Alone

\* Every step keeps the types of the workers and of the queue.
LEMMA WorkerTypesStep ==
  ASSUME WorkerTypes, TopicTypes, [NotifyNext]_notifyVars
  PROVE  WorkerTypes'
<1> USE NotifyAssumption DEF NAt, Turn, topicVars, outsideVars, Workers, WorkerTypes
<1>1. ASSUME NEW m \in Mails, Receive(m) PROVE WorkerTypes'
  <2>1. UNCHANGED tries
    BY <1>1 DEF Receive
  <2>2. CASE Acks(m, "unbound") \/ Acks(m, "muted")
    <3>1. "unbound" \in NotePoints /\ "muted" \in NotePoints
      BY DEF NotePoints
    <3> QED
      BY <2>1, <2>2, <3>1, WorkerAcks
  <2>3. CASE ~(Acks(m, "unbound") \/ Acks(m, "muted"))
    <3>1. note' \in [Mails -> NotePoints] /\ note'[m] = "running" /\ \A k \in Mails : k # m => note'[k] = note[k]
      BY <1>1, <2>3, WorkerReceives DEF NotePoints
    <3>2. m \in Workers /\ m # Cron
      OBVIOUS
    <3> QED
      BY <1>1, <2>1, <2>3, <3>1, <3>2, WorkerReceives
  <2> QED
    BY <2>2, <2>3
<1>2. ASSUME NEW m \in Mails, retainNotification(m) PROVE WorkerTypes'
  BY <1>2, WorkerAcks DEF retainNotification, Alone, Points, NotePoints, Acks
<1>3. ASSUME NEW m \in Mails, isNotQuiet(m) PROVE WorkerTypes'
  BY <1>3, WorkerGoes DEF isNotQuiet, Alone, Points, NotePoints
<1>4. ASSUME NEW m \in Mails, resolveTopicId(m) PROVE WorkerTypes'
  <2>1. UNCHANGED <<note, tries>>
    BY <1>4 DEF resolveTopicId
  <2> QED
    BY <1>4, <2>1, ResolveMoves DEF Alone
<1>5. ASSUME NEW m \in Mails, createForumTopic(m) PROVE WorkerTypes'
  <2>1. UNCHANGED <<note, tries>>
    BY <1>5 DEF createForumTopic
  <2> QED
    BY <1>5, <2>1, CreateMoves DEF Alone
<1>6. ASSUME NEW m \in Mails, claimTelegramTopic(m) PROVE WorkerTypes'
  BY <1>6, WorkerGoes DEF claimTelegramTopic, Alone, Points, NotePoints
<1>7. ASSUME NEW m \in Mails, getTelegramTopicForMailbox(m) PROVE WorkerTypes'
  <2>1. UNCHANGED <<note, tries>>
    BY <1>7 DEF getTelegramTopicForMailbox
  <2> QED
    BY <1>7, <2>1, RereadMoves DEF Alone
<1>8. ASSUME NEW m \in Mails, sendToMailboxTopic(m) PROVE WorkerTypes'
  <2>1. UNCHANGED tries
    BY <1>8 DEF sendToMailboxTopic
  <2>2. /\ Alone(m) /\ proc[m].at = "send"
        /\ note' \in [Mails -> NotePoints] /\ \A k \in Mails : k # m => note'[k] = note[k]
        /\ \/ proc'[m].at \in {"link", "stale"} /\ UNCHANGED note
           \/ proc'[m].at = "idle" /\ note'[m] = "dropped"
    BY <1>8, SendMoves
  <2> QED
    BY <2>1, <2>2 DEF Alone
<1>9. ASSUME NEW m \in Mails, readStaleName(m) PROVE WorkerTypes'
  <2>1. UNCHANGED <<note, tries>>
    BY <1>9 DEF readStaleName
  <2> QED
    BY <1>9, <2>1, NameMoves DEF Alone
<1>10. ASSUME NEW m \in Mails, forgetTelegramTopic(m) PROVE WorkerTypes'
  BY <1>10, WorkerTriesAgain DEF forgetTelegramTopic, Alone, Points, NotePoints
<1>11. ASSUME NEW m \in Mails, insertTelegramLink(m) PROVE WorkerTypes'
  BY <1>11, WorkerAcks DEF insertTelegramLink, Alone, Points, NotePoints, Acks
<1>12. ASSUME NEW m \in Mails, NotifyRetry(m) PROVE WorkerTypes'
  BY <1>12, RetryMoves DEF Alone
<1>13. ASSUME NEW m \in Mails, Redelivered(m) PROVE WorkerTypes'
  BY <1>13 DEF Redelivered, Alone, Points, NotePoints
<1>14. ASSUME NEW f \in Workers, pendingRetained(f) PROVE WorkerTypes'
  <2>1. UNCHANGED <<note, tries>>
    BY <1>14 DEF pendingRetained
  <2> QED
    BY <1>14, <2>1, DigestMoves DEF Alone, AfterFlush
<1>15. ASSUME NEW f \in Workers, sendDigest(f) PROVE WorkerTypes'
  BY <1>15, WorkerGoes DEF sendDigest, Alone, Points, NotePoints
<1>16. ASSUME NEW f \in Workers, markDigested(f) PROVE WorkerTypes'
  <2>1. UNCHANGED <<note, tries>>
    BY <1>16 DEF markDigested
  <2> QED
    BY <1>16, <2>1, FlushEnds DEF Alone, AfterFlush
<1>17. ASSUME NEW f \in Workers, FlushFails(f) PROVE WorkerTypes'
  <2>1. UNCHANGED <<note, tries>>
    BY <1>17 DEF FlushFails
  <2> QED
    BY <1>17, <2>1, FlushEnds DEF Alone, AfterFlush
<1>18. ASSUME CronBegin PROVE WorkerTypes'
  BY <1>18, WorkerGoes DEF CronBegin, Alone, Points, NotePoints
<1>19. ASSUME deleteStaleDigestItems PROVE WorkerTypes'
  BY <1>19, WorkerGoes DEF deleteStaleDigestItems, Alone, Points, NotePoints
<1>20. ASSUME toggleSenderMute PROVE WorkerTypes'
  BY <1>20 DEF toggleSenderMute
<1>21. ASSUME isWithinQuietHours PROVE WorkerTypes'
  BY <1>21 DEF isWithinQuietHours
<1>22. ASSUME DeleteTopic PROVE WorkerTypes'
  BY <1>22 DEF DeleteTopic
<1>23. ASSUME mapTelegramTopic PROVE WorkerTypes'
  BY <1>23 DEF mapTelegramTopic
<1>24. ASSUME observeForum PROVE WorkerTypes'
  BY <1>24 DEF observeForum
<1>25. ASSUME upsertTelegramTopic PROVE WorkerTypes'
  BY <1>25 DEF upsertTelegramTopic
<1>26. ASSUME NEW c \in Chats, adoptTelegramChat(c) PROVE WorkerTypes'
  BY <1>26 DEF adoptTelegramChat
<1>27. ASSUME NEW c \in Chats, rebindTelegramChat(c) PROVE WorkerTypes'
  BY <1>27 DEF rebindTelegramChat
<1>28. ASSUME NEW replace \in BOOLEAN, decideTopicMapping(replace) PROVE WorkerTypes'
  BY <1>28 DEF decideTopicMapping
<1>29. CASE UNCHANGED notifyVars
  BY <1>29 DEF notifyVars
<1> QED
  BY <1>1, <1>2, <1>3, <1>4, <1>5, <1>6, <1>7, <1>8, <1>9, <1>10, <1>11, <1>12, <1>13, <1>14, <1>15, <1>16, <1>17, <1>18, <1>19, <1>20, <1>21, <1>22, <1>23, <1>24, <1>25, <1>26, <1>27, <1>28, <1>29
  DEF NotifyNext, NotifyStep, FlushStep, SweepBridge, OperatorStep

--------------------------------------------------------------------------------
(* What a step posts, holds and maps.                                      *)

\* A card is posted with the topic the worker has.
LEMMA CardPosted ==
  ASSUME RowTypes, WorkerTypes, NEW m \in Mails,
         cards' = [cards EXCEPT ![m] = Append(@,
             [chat |-> proc[m].chat, topic |-> proc[m].topic, linked |-> FALSE])]
  PROVE  /\ cards' \in [Mails -> Seq(Posted)]
         /\ \A k \in Mails : k # m => cards'[k] = cards[k]
         /\ cards'[m] # <<>>
         /\ \A i \in DOMAIN cards'[m] :
              \/ i \in DOMAIN cards[m] /\ cards'[m][i] = cards[m][i]
              \/ cards'[m][i].topic = proc[m].topic
<1>1. PICK p : p = [chat |-> proc[m].chat, topic |-> proc[m].topic, linked |-> FALSE]
  OBVIOUS
<1>2. PICK s : s = cards[m]
  OBVIOUS
<1>3. p \in Posted /\ p.topic = proc[m].topic
  BY <1>1 DEF Posted, WorkerTypes, Workers, Proc
<1>4. s \in Seq(Posted)
  BY <1>2 DEF RowTypes
<1>5. /\ Append(s, p) \in Seq(Posted) /\ Append(s, p) # <<>>
      /\ Len(Append(s, p)) = Len(s) + 1
      /\ \A i \in 1 .. Len(s) : Append(s, p)[i] = s[i]
      /\ Append(s, p)[Len(s) + 1] = p
  BY <1>3, <1>4, AppendProperties
<1>6. Len(s) \in Nat /\ DOMAIN s = 1 .. Len(s) /\ DOMAIN Append(s, p) = 1 .. Len(s) + 1
  BY <1>4, <1>5, LenProperties
<1>7. cards' = [cards EXCEPT ![m] = Append(s, p)]
  BY <1>1, <1>2
<1>8. \A i \in DOMAIN Append(s, p) : i \in DOMAIN s \/ i = Len(s) + 1
  BY <1>6
<1>9. cards' \in [Mails -> Seq(Posted)] /\ cards'[m] = Append(s, p)
      /\ \A k \in Mails : k # m => cards'[k] = cards[k]
  BY <1>5, <1>7 DEF RowTypes
<1> QED
  BY <1>2, <1>3, <1>5, <1>6, <1>8, <1>9

\* Linking it changes nothing else of it.
LEMMA CardLinked ==
  ASSUME RowTypes, NEW m \in Mails, insertTelegramLink(m)
  PROVE  /\ cards' \in [Mails -> Seq(Posted)]
         /\ \A k \in Mails : k # m => cards'[k] = cards[k]
         /\ \E i \in DOMAIN cards'[m] : cards'[m][i].linked
         /\ DOMAIN cards'[m] = DOMAIN cards[m]
         /\ \A i \in DOMAIN cards[m] : cards'[m][i].topic = cards[m][i].topic
<1>1. PICK s : s = cards[m]
  OBVIOUS
<1>2. s \in Seq(Posted) /\ s # <<>>
  BY <1>1 DEF RowTypes, insertTelegramLink, NAt
<1>3. Len(s) \in Nat /\ DOMAIN s = 1 .. Len(s) /\ Len(s) # 0
  BY <1>2, LenProperties, EmptySeq
<1>4. PICK n : n = Len(s)
  OBVIOUS
<1>5. n \in 1 .. Len(s) /\ n \in DOMAIN s
  BY <1>3, <1>4
<1>6. s[n] \in Posted
  BY <1>2, <1>5, ElementOfSeq
<1>7. PICK p : p = [s[n] EXCEPT !.linked = TRUE]
  OBVIOUS
<1>8. p \in Posted /\ p.linked /\ p.topic = s[n].topic
  BY <1>6, <1>7 DEF Posted
<1>9. PICK t : t = [s EXCEPT ![n] = p]
  OBVIOUS
<1>10. /\ t \in Seq(Posted) /\ Len(t) = Len(s)
       /\ \A i \in 1 .. Len(s) : t[i] = IF i = n THEN p ELSE s[i]
  BY <1>2, <1>5, <1>8, <1>9, ExceptSeq
<1>11. DOMAIN t = DOMAIN s
  BY <1>3, <1>10, LenProperties
<1>12. cards' = [cards EXCEPT ![m] = t]
  BY <1>1, <1>4, <1>7, <1>9 DEF insertTelegramLink, RowTypes
<1>13. cards' \in [Mails -> Seq(Posted)] /\ cards'[m] = t
       /\ \A k \in Mails : k # m => cards'[k] = cards[k]
  BY <1>10, <1>12 DEF RowTypes
<1> HIDE DEF Posted
<1> QED
  BY <1>1, <1>3, <1>5, <1>8, <1>10, <1>11, <1>13

\* A new topic exists, and is one of the topics there may be.
LEMMA TopicIsMade ==
  ASSUME TopicTypes, NEW t, NewTopic(t)
  PROVE  /\ alive' \subseteq used' /\ used' \subseteq Topics /\ t \in used'
         /\ used \subseteq used'
         /\ alive = used => alive' = used'
BY DEF TopicTypes, NewTopic

LEMMA NumbersOfTopics ==
  ASSUME TopicTypes
  PROVE  Cardinality(used) + 1 \in Nat
<1>1. IsFiniteSet(Topics)
  BY NotifyAssumption, FS_Interval DEF Topics
<1>2. IsFiniteSet(used)
  BY <1>1, FS_Subset DEF TopicTypes
<1> QED
  BY <1>2, FS_CardinalityType

\* The request of the operator goes on.
LEMMA RequestStarts ==
  ASSUME NEW c \in Chats
  PROVE  /\ NoOp \in Request /\ NoOp.at = "idle"
         /\ [NoOp EXCEPT !.at = "start", !.chat = c] \in Request
         /\ [NoOp EXCEPT !.at = "start", !.chat = c].at = "start"
BY DEF NoOp, Request, AnyName, AnyChat

LEMMA RequestUpserts ==
  ASSUME NEW r \in Request, NEW t \in Nat
  PROVE  /\ [r EXCEPT !.at = "upsert", !.topic = t] \in Request
         /\ [r EXCEPT !.at = "upsert", !.topic = t].topic = t
BY DEF Request

\* Every step keeps the types of the chat, the topics and the request.
LEMMA TopicTypesStep ==
  ASSUME WorkerTypes, TopicTypes, [NotifyNext]_notifyVars
  PROVE  TopicTypes'
<1> USE NotifyAssumption DEF NAt, Turn, topicVars, outsideVars, Workers, TopicTypes
<1>1. ASSUME NEW m \in Mails, Receive(m) PROVE TopicTypes'
  <2>1. UNCHANGED <<binding, mapping, alive, used, op>>
    BY <1>1 DEF Receive
  <2> QED
    BY <2>1
<1>2. ASSUME NEW m \in Mails, retainNotification(m) PROVE TopicTypes'
  <2>1. UNCHANGED <<binding, mapping, alive, used, op>>
    BY <1>2 DEF retainNotification
  <2> QED
    BY <2>1
<1>3. ASSUME NEW m \in Mails, isNotQuiet(m) PROVE TopicTypes'
  <2>1. UNCHANGED <<binding, mapping, alive, used, op>>
    BY <1>3 DEF isNotQuiet
  <2> QED
    BY <2>1
<1>4. ASSUME NEW m \in Mails, resolveTopicId(m) PROVE TopicTypes'
  <2>1. UNCHANGED <<binding, mapping, alive, used, op>>
    BY <1>4 DEF resolveTopicId
  <2> QED
    BY <2>1
<1>5. ASSUME NEW m \in Mails, createForumTopic(m) PROVE TopicTypes'
  <2>1. UNCHANGED <<binding, mapping, op>>
    BY <1>5 DEF createForumTopic
  <2>2. UNCHANGED <<alive, used>> \/ \E t \in Topics : NewTopic(t)
    BY <1>5 DEF createForumTopic
  <2>3. alive' \subseteq used' /\ used' \subseteq Topics
    BY <2>2, TopicIsMade
  <2> QED
    BY <2>1, <2>3
<1>6. ASSUME NEW m \in Mails, claimTelegramTopic(m) PROVE TopicTypes'
  <2>1. UNCHANGED <<binding, alive, used, op>> /\ proc[m].topic \in Topics
    BY <1>6 DEF claimTelegramTopic, WorkerTypes
  <2>2. proc[m].name \in AnyName
    BY DEF WorkerTypes, Proc
  <2>3. mapping' \in MapRow \cup {Nothing}
    BY <1>6, <2>1, <2>2 DEF claimTelegramTopic, MapRow, AnyName
  <2> QED
    BY <2>1, <2>3
<1>7. ASSUME NEW m \in Mails, getTelegramTopicForMailbox(m) PROVE TopicTypes'
  <2>1. UNCHANGED <<binding, mapping, alive, used, op>>
    BY <1>7 DEF getTelegramTopicForMailbox
  <2> QED
    BY <2>1
<1>8. ASSUME NEW m \in Mails, sendToMailboxTopic(m) PROVE TopicTypes'
  <2>1. UNCHANGED <<binding, mapping, alive, used, op>>
    BY <1>8 DEF sendToMailboxTopic
  <2> QED
    BY <2>1
<1>9. ASSUME NEW m \in Mails, readStaleName(m) PROVE TopicTypes'
  <2>1. UNCHANGED <<binding, mapping, alive, used, op>>
    BY <1>9 DEF readStaleName
  <2> QED
    BY <2>1
<1>10. ASSUME NEW m \in Mails, forgetTelegramTopic(m) PROVE TopicTypes'
  BY <1>10 DEF forgetTelegramTopic
<1>11. ASSUME NEW m \in Mails, insertTelegramLink(m) PROVE TopicTypes'
  <2>1. UNCHANGED <<binding, mapping, alive, used, op>>
    BY <1>11 DEF insertTelegramLink
  <2> QED
    BY <2>1
<1>12. ASSUME NEW m \in Mails, NotifyRetry(m) PROVE TopicTypes'
  <2>1. UNCHANGED <<binding, mapping, alive, used, op>>
    BY <1>12 DEF NotifyRetry
  <2> QED
    BY <2>1
<1>13. ASSUME NEW m \in Mails, Redelivered(m) PROVE TopicTypes'
  <2>1. UNCHANGED <<binding, mapping, alive, used, op>>
    BY <1>13 DEF Redelivered
  <2> QED
    BY <2>1
<1>14. ASSUME NEW f \in Workers, pendingRetained(f) PROVE TopicTypes'
  <2>1. UNCHANGED <<binding, mapping, alive, used, op>>
    BY <1>14 DEF pendingRetained
  <2> QED
    BY <2>1
<1>15. ASSUME NEW f \in Workers, sendDigest(f) PROVE TopicTypes'
  <2>1. UNCHANGED <<binding, mapping, alive, used, op>>
    BY <1>15 DEF sendDigest
  <2> QED
    BY <2>1
<1>16. ASSUME NEW f \in Workers, markDigested(f) PROVE TopicTypes'
  <2>1. UNCHANGED <<binding, mapping, alive, used, op>>
    BY <1>16 DEF markDigested
  <2> QED
    BY <2>1
<1>17. ASSUME NEW f \in Workers, FlushFails(f) PROVE TopicTypes'
  <2>1. UNCHANGED <<binding, mapping, alive, used, op>>
    BY <1>17 DEF FlushFails
  <2> QED
    BY <2>1
<1>18. ASSUME CronBegin PROVE TopicTypes'
  <2>1. UNCHANGED <<binding, mapping, alive, used, op>>
    BY <1>18 DEF CronBegin
  <2> QED
    BY <2>1
<1>19. ASSUME deleteStaleDigestItems PROVE TopicTypes'
  <2>1. UNCHANGED <<binding, mapping, alive, used, op>>
    BY <1>19 DEF deleteStaleDigestItems
  <2> QED
    BY <2>1
<1>20. ASSUME toggleSenderMute PROVE TopicTypes'
  <2>1. UNCHANGED <<binding, mapping, alive, used, op>>
    BY <1>20 DEF toggleSenderMute
  <2> QED
    BY <2>1
<1>21. ASSUME isWithinQuietHours PROVE TopicTypes'
  <2>1. UNCHANGED <<binding, mapping, alive, used, op>>
    BY <1>21 DEF isWithinQuietHours
  <2> QED
    BY <2>1
<1>22. ASSUME DeleteTopic PROVE TopicTypes'
  BY <1>22 DEF DeleteTopic
<1>23. ASSUME mapTelegramTopic PROVE TopicTypes'
  <2>1. UNCHANGED <<binding, mapping, alive, used>>
    BY <1>23 DEF mapTelegramTopic
  <2>2. op' \in Request /\ op'.at = "map"
    BY <1>23, NumbersOfTopics DEF mapTelegramTopic, Topics, AnyName, Request
  <2> QED
    BY <2>1, <2>2
<1>24. ASSUME observeForum PROVE TopicTypes'
  <2>1. UNCHANGED <<mapping, alive, used>>
    BY <1>24 DEF observeForum
  <2>2. binding' \in [chat : AnyChat, forum : BOOLEAN]
    BY <1>24 DEF observeForum
  <2>3. op' = NoOp \/ op' = [op EXCEPT !.at = "decide"]
    BY <1>24 DEF observeForum
  <2>4. op' \in Request /\ op'.at # "upsert"
    BY <2>3 DEF NoOp, AnyName, AnyChat, Request
  <2> QED
    BY <2>1, <2>2, <2>4
<1>25. ASSUME upsertTelegramTopic PROVE TopicTypes'
  BY <1>25 DEF upsertTelegramTopic, MapRow, AnyName, NoOp, AnyChat, Request
<1>26. ASSUME NEW c \in Chats, adoptTelegramChat(c) PROVE TopicTypes'
  <2>1. UNCHANGED <<mapping, alive, used>>
    BY <1>26 DEF adoptTelegramChat
  <2>2. binding' \in [chat : AnyChat, forum : BOOLEAN]
    BY <1>26 DEF adoptTelegramChat, AnyChat
  <2>3. op' = NoOp \/ op' = [NoOp EXCEPT !.at = "start", !.chat = c]
    BY <1>26 DEF adoptTelegramChat
  <2>4. op' \in Request /\ op'.at # "upsert"
    BY <1>26, <2>3, RequestStarts
  <2> QED
    BY <2>1, <2>2, <2>4
<1>27. ASSUME NEW c \in Chats, rebindTelegramChat(c) PROVE TopicTypes'
  BY <1>27 DEF rebindTelegramChat, AnyChat, Chats
<1>28. ASSUME NEW replace \in BOOLEAN, decideTopicMapping(replace) PROVE TopicTypes'
  <2>1. UNCHANGED <<binding, mapping>>
    BY <1>28 DEF decideTopicMapping
  <2>2. CASE op' = NoOp /\ UNCHANGED <<alive, used>>
    BY <2>1, <2>2 DEF NoOp, AnyName, AnyChat, Request
  <2>3. ASSUME NEW t \in Topics, NewTopic(t), op' = [op EXCEPT !.at = "upsert", !.topic = t] PROVE TopicTypes'
    <3>1. alive' \subseteq used' /\ used' \subseteq Topics
      BY <2>3, TopicIsMade
    <3>2. t \in Nat /\ op \in Request
      BY DEF Topics
    <3>3. op' \in Request /\ op'.topic = t
      BY <2>3, <3>2, RequestUpserts
    <3> QED
      BY <2>1, <2>3, <3>1, <3>3
  <2>4. CASE op.topic \in Topics /\ NewTopic(op.topic) /\ op' = [op EXCEPT !.at = "upsert"]
    <3>1. alive' \subseteq used' /\ used' \subseteq Topics
      BY <2>4 DEF NewTopic
    <3> QED
      BY <2>1, <2>4, <3>1 DEF Request
  <2>5. CASE op.topic \in used /\ op' = [op EXCEPT !.at = "upsert"] /\ UNCHANGED <<alive, used>>
    BY <2>1, <2>5 DEF Request
  <2> QED
    BY <1>28, <2>2, <2>3, <2>4, <2>5 DEF decideTopicMapping, NewTopic
<1>29. CASE UNCHANGED notifyVars
  BY <1>29 DEF notifyVars
<1> QED
  BY <1>1, <1>2, <1>3, <1>4, <1>5, <1>6, <1>7, <1>8, <1>9, <1>10, <1>11, <1>12, <1>13, <1>14, <1>15, <1>16, <1>17, <1>18, <1>19, <1>20, <1>21, <1>22, <1>23, <1>24, <1>25, <1>26, <1>27, <1>28, <1>29
  DEF NotifyNext, NotifyStep, FlushStep, SweepBridge, OperatorStep

\* Every step keeps the types of what is held and posted.
\* What the statements on the rows do to them.
LEMMA RowHeld ==
  ASSUME retained \in [Mails -> Retained], NEW m \in Mails, NEW c,
         retained' = [retained EXCEPT ![m][c] = IF @ \in {"pending", "digested"} THEN @ ELSE "pending"]
  PROVE  /\ retained' \in [Mails -> Retained]
         /\ \A k \in Mails : k # m => retained'[k] = retained[k]
         /\ \A b \in Chats : b # c => retained'[m][b] = retained[m][b]
         /\ c \in Chats => /\ retained'[m][c] \in {"pending", "digested"}
                           /\ retained'[m][c] = "digested" => retained[m][c] = "digested"
<1>1. PICK s : s = IF retained[m][c] \in {"pending", "digested"} THEN retained[m][c] ELSE "pending"
  OBVIOUS
<1>2. PICK row : row = [retained[m] EXCEPT ![c] = s]
  OBVIOUS
<1>3. retained' = [retained EXCEPT ![m] = row]
  BY <1>1, <1>2
<1>4. s \in {"pending", "digested"} /\ (s = "digested" => retained[m][c] = "digested")
  BY <1>1
<1>5. row \in Retained /\ \A b \in Chats : row[b] = IF b = c THEN s ELSE retained[m][b]
  BY <1>2, <1>4 DEF Retained
<1> QED
  BY <1>3, <1>4, <1>5

LEMMA RowMarked ==
  ASSUME retained \in [Mails -> Retained], NEW k \in Mails, NEW c, NEW row,
         row = [retained[k] EXCEPT ![c] = IF @ = "pending" THEN "digested" ELSE @]
  PROVE  /\ row \in Retained
         /\ \A b \in Chats : /\ b # c => row[b] = retained[k][b]
                             /\ retained[k][b] # "none" => row[b] # "none"
<1>1. retained[k] \in Retained
  OBVIOUS
<1> QED
  BY <1>1 DEF Retained

LEMMA RowsSwept ==
  ASSUME retained \in [Mails -> Retained], deleteStaleDigestItems
  PROVE  /\ retained' \in [Mails -> Retained]
         /\ \A k \in Mails, c \in Chats :
              \/ retained'[k][c] = retained[k][c]
              \/ retained[k][c] = "digested" /\ retained'[k][c] = "gone"
<1>1. PICK old \in {{}, {"digested"}} :
        retained' = [m \in Mails |-> [c \in Chats |->
                       IF retained[m][c] \in old THEN "gone" ELSE retained[m][c]]]
  BY DEF deleteStaleDigestItems
<1>2. \A k \in Mails, c \in Chats : retained[k][c] \in {"none", "pending", "digested", "gone"}
  BY DEF Retained
<1> QED
  BY <1>1, <1>2 DEF Retained

LEMMA RowTypesStep ==
  ASSUME WorkerTypes, TopicTypes, RowTypes, [NotifyNext]_notifyVars
  PROVE  RowTypes'
<1> USE NotifyAssumption DEF NAt, Turn, topicVars, outsideVars, Workers, RowTypes
<1>1. ASSUME NEW m \in Mails, Receive(m) PROVE RowTypes'
  <2>1. UNCHANGED <<retained, cards>>
    BY <1>1 DEF Receive
  <2>2. proc'[m].at \in {"idle", "flush"} /\ \A g \in Workers : g # m => proc'[g] = proc[g]
    BY <1>1, WorkerReceives, WorkerAcks DEF NotePoints
  <2> QED
    BY <2>1, <2>2
<1>2. ASSUME NEW m \in Mails, retainNotification(m) PROVE RowTypes'
  <2>1. UNCHANGED cards /\ Acks(m, "held") /\ proc[m].chat \in AnyChat
    BY <1>2 DEF retainNotification, WorkerTypes, Proc
  <2>2. PICK c : c = proc[m].chat
    OBVIOUS
  <2>3. retained' \in [Mails -> Retained]
    BY <1>2, <2>2, RowHeld DEF retainNotification
  <2>4. proc'[m].at = "idle" /\ \A g \in Workers : g # m => proc'[g] = proc[g]
    BY <2>1, WorkerAcks DEF NotePoints
  <2> QED
    BY <2>1, <2>3, <2>4
<1>3. ASSUME NEW m \in Mails, isNotQuiet(m) PROVE RowTypes'
  <2>1. UNCHANGED <<retained, cards>>
    BY <1>3 DEF isNotQuiet
  <2>2. proc'[m].at = "resolve" /\ \A g \in Workers : g # m => proc'[g] = proc[g]
    BY <1>3, WorkerGoes DEF isNotQuiet, Points
  <2> QED
    BY <2>1, <2>2
<1>4. ASSUME NEW m \in Mails, resolveTopicId(m) PROVE RowTypes'
  <2>1. UNCHANGED <<retained, cards>>
    BY <1>4 DEF resolveTopicId
  <2> QED
    BY <1>4, <2>1, ResolveMoves DEF Alone
<1>5. ASSUME NEW m \in Mails, createForumTopic(m) PROVE RowTypes'
  <2>1. UNCHANGED <<retained, cards>>
    BY <1>5 DEF createForumTopic
  <2> QED
    BY <1>5, <2>1, CreateMoves DEF Alone
<1>6. ASSUME NEW m \in Mails, claimTelegramTopic(m) PROVE RowTypes'
  <2>1. UNCHANGED <<retained, cards>>
    BY <1>6 DEF claimTelegramTopic
  <2>2. proc'[m].at = "reread" /\ \A g \in Workers : g # m => proc'[g] = proc[g]
    BY <1>6, WorkerGoes DEF claimTelegramTopic, Points
  <2> QED
    BY <2>1, <2>2
<1>7. ASSUME NEW m \in Mails, getTelegramTopicForMailbox(m) PROVE RowTypes'
  <2>1. UNCHANGED <<retained, cards>>
    BY <1>7 DEF getTelegramTopicForMailbox
  <2> QED
    BY <1>7, <2>1, RereadMoves DEF Alone
<1>8. ASSUME NEW m \in Mails, sendToMailboxTopic(m) PROVE RowTypes'
  <2>1. UNCHANGED retained
    BY <1>8 DEF sendToMailboxTopic
  <2>2. CASE UNCHANGED cards /\ proc'[m].at # "link"
    BY <1>8, <2>1, <2>2, SendMoves DEF Alone
  <2>3. CASE cards' = [cards EXCEPT ![m] = Append(@,
                 [chat |-> proc[m].chat, topic |-> proc[m].topic, linked |-> FALSE])]
    <3>1. /\ cards' \in [Mails -> Seq(Posted)] /\ cards'[m] # <<>>
          /\ \A k \in Mails : k # m => cards'[k] = cards[k]
      BY <2>3, CardPosted
    <3> QED
      BY <1>8, <2>1, <3>1, SendMoves DEF Alone
  <2> QED
    BY <1>8, <2>2, <2>3, SendMoves
<1>9. ASSUME NEW m \in Mails, readStaleName(m) PROVE RowTypes'
  <2>1. UNCHANGED <<retained, cards>>
    BY <1>9 DEF readStaleName
  <2> QED
    BY <1>9, <2>1, NameMoves DEF Alone
<1>10. ASSUME NEW m \in Mails, forgetTelegramTopic(m) PROVE RowTypes'
  <2>1. UNCHANGED <<retained, cards>>
    BY <1>10 DEF forgetTelegramTopic
  <2>2. proc'[m].at = "resolve" /\ \A g \in Workers : g # m => proc'[g] = proc[g]
    BY <1>10, WorkerTriesAgain DEF forgetTelegramTopic, Points
  <2> QED
    BY <2>1, <2>2
<1>11. ASSUME NEW m \in Mails, insertTelegramLink(m) PROVE RowTypes'
  <2>1. UNCHANGED retained /\ Acks(m, "sent")
    BY <1>11 DEF insertTelegramLink
  <2>2. proc'[m].at = "idle" /\ \A g \in Workers : g # m => proc'[g] = proc[g]
    BY <2>1, WorkerAcks DEF NotePoints
  <2> QED
    BY <1>11, <2>1, <2>2, CardLinked
<1>12. ASSUME NEW m \in Mails, NotifyRetry(m) PROVE RowTypes'
  <2>1. UNCHANGED <<retained, cards>>
    BY <1>12 DEF NotifyRetry
  <2> QED
    BY <1>12, <2>1, RetryMoves DEF Alone
<1>13. ASSUME NEW m \in Mails, Redelivered(m) PROVE RowTypes'
  <2>1. UNCHANGED <<retained, cards, proc>>
    BY <1>13 DEF Redelivered
  <2> QED
    BY <2>1
<1>14. ASSUME NEW f \in Workers, pendingRetained(f) PROVE RowTypes'
  <2>1. UNCHANGED <<retained, cards>>
    BY <1>14 DEF pendingRetained
  <2> QED
    BY <1>14, <2>1, DigestMoves DEF Alone, AfterFlush
<1>15. ASSUME NEW f \in Workers, sendDigest(f) PROVE RowTypes'
  <2>1. UNCHANGED <<retained, cards>>
    BY <1>15 DEF sendDigest
  <2>2. proc'[f].at = "mark" /\ \A g \in Workers : g # f => proc'[g] = proc[g]
    BY <1>15, WorkerGoes DEF sendDigest, Points
  <2> QED
    BY <2>1, <2>2
<1>16. ASSUME NEW f \in Workers, markDigested(f) PROVE RowTypes'
  <2>1. UNCHANGED cards
    BY <1>16 DEF markDigested
  <2>2. retained' \in [Mails -> Retained]
    <3>1. ASSUME NEW k \in Mails
          PROVE  [retained[k] EXCEPT ![proc[f].to] =
                     IF @ = "pending" THEN "digested" ELSE @] \in Retained
      <4>1. retained[k] \in [Chats -> {"none", "pending", "digested", "gone"}]
        BY DEF Retained
      <4>2. PICK s : s = IF retained[k][proc[f].to] = "pending"
                         THEN "digested" ELSE retained[k][proc[f].to]
        OBVIOUS
      <4>3. proc[f].to \in Chats => s \in {"none", "pending", "digested", "gone"}
        BY <4>1, <4>2
      <4>4. [retained[k] EXCEPT ![proc[f].to] = s] \in Retained
        BY <4>1, <4>3 DEF Retained
      <4> QED
        BY <4>2, <4>4
    <3> QED
      BY <1>16, <3>1 DEF markDigested
  <2> QED
    BY <1>16, <2>1, <2>2, FlushEnds DEF Alone, AfterFlush
<1>17. ASSUME NEW f \in Workers, FlushFails(f) PROVE RowTypes'
  <2>1. UNCHANGED <<retained, cards>>
    BY <1>17 DEF FlushFails
  <2> QED
    BY <1>17, <2>1, FlushEnds DEF Alone, AfterFlush
<1>18. ASSUME CronBegin PROVE RowTypes'
  <2>1. UNCHANGED <<retained, cards>>
    BY <1>18 DEF CronBegin
  <2>2. proc'[Cron].at = "flush" /\ \A g \in Workers : g # Cron => proc'[g] = proc[g]
    BY <1>18, WorkerGoes DEF CronBegin, Points
  <2> QED
    BY <2>1, <2>2
<1>19. ASSUME deleteStaleDigestItems PROVE RowTypes'
  <2>1. UNCHANGED cards
    BY <1>19 DEF deleteStaleDigestItems
  <2>2. retained' \in [Mails -> Retained]
    BY <1>19, RowsSwept DEF deleteStaleDigestItems
  <2>3. proc'[Cron].at = "idle" /\ \A g \in Workers : g # Cron => proc'[g] = proc[g]
    BY <1>19, WorkerGoes DEF deleteStaleDigestItems, Points
  <2> QED
    BY <2>1, <2>2, <2>3
<1>20. ASSUME toggleSenderMute PROVE RowTypes'
  <2>1. UNCHANGED <<retained, cards, proc>>
    BY <1>20 DEF toggleSenderMute
  <2> QED
    BY <2>1
<1>21. ASSUME isWithinQuietHours PROVE RowTypes'
  <2>1. UNCHANGED <<retained, cards, proc>>
    BY <1>21 DEF isWithinQuietHours
  <2> QED
    BY <2>1
<1>22. ASSUME DeleteTopic PROVE RowTypes'
  <2>1. UNCHANGED <<retained, cards, proc>>
    BY <1>22 DEF DeleteTopic
  <2> QED
    BY <2>1
<1>23. ASSUME mapTelegramTopic PROVE RowTypes'
  <2>1. UNCHANGED <<retained, cards, proc>>
    BY <1>23 DEF mapTelegramTopic
  <2> QED
    BY <2>1
<1>24. ASSUME observeForum PROVE RowTypes'
  <2>1. UNCHANGED <<retained, cards, proc>>
    BY <1>24 DEF observeForum
  <2> QED
    BY <2>1
<1>25. ASSUME upsertTelegramTopic PROVE RowTypes'
  <2>1. UNCHANGED <<retained, cards, proc>>
    BY <1>25 DEF upsertTelegramTopic
  <2> QED
    BY <2>1
<1>26. ASSUME NEW c \in Chats, adoptTelegramChat(c) PROVE RowTypes'
  <2>1. UNCHANGED <<retained, cards, proc>>
    BY <1>26 DEF adoptTelegramChat
  <2> QED
    BY <2>1
<1>27. ASSUME NEW c \in Chats, rebindTelegramChat(c) PROVE RowTypes'
  <2>1. UNCHANGED <<retained, cards, proc>>
    BY <1>27 DEF rebindTelegramChat
  <2> QED
    BY <2>1
<1>28. ASSUME NEW replace \in BOOLEAN, decideTopicMapping(replace) PROVE RowTypes'
  <2>1. UNCHANGED <<retained, cards, proc>>
    BY <1>28 DEF decideTopicMapping
  <2> QED
    BY <2>1
<1>29. CASE UNCHANGED notifyVars
  BY <1>29 DEF notifyVars
<1> QED
  BY <1>1, <1>2, <1>3, <1>4, <1>5, <1>6, <1>7, <1>8, <1>9, <1>10, <1>11, <1>12, <1>13, <1>14, <1>15, <1>16, <1>17, <1>18, <1>19, <1>20, <1>21, <1>22, <1>23, <1>24, <1>25, <1>26, <1>27, <1>28, <1>29
  DEF NotifyNext, NotifyStep, FlushStep, SweepBridge, OperatorStep

\* Every step leaves a mail that may still be held in its chat.
LEMMA HeldStep ==
  ASSUME WorkerTypes, TopicTypes, HeldHasChat, [NotifyNext]_notifyVars
  PROVE  HeldHasChat'
<1> USE DEF NAt, Workers, HeldHasChat, MayBeHeld
<1>1. ASSUME NEW m \in Mails, Receive(m) PROVE HeldHasChat'
  <2>1. \/ proc'[m].at = "idle"
        \/ proc'[m].at = "flush" /\ proc'[m].chat \in Chats
    BY <1>1, WorkerReceives, WorkerAcks DEF NotePoints
  <2>2. \A g \in Workers : g # m => proc'[g] = proc[g]
    BY <1>1, WorkerReceives, WorkerAcks DEF NotePoints
  <2> QED
    BY <2>1, <2>2
<1>2. ASSUME NEW m \in Mails, retainNotification(m) \/ insertTelegramLink(m) PROVE HeldHasChat'
  BY <1>2, WorkerAcks DEF retainNotification, insertTelegramLink, NotePoints
<1>3. ASSUME NEW m \in Mails, isNotQuiet(m) \/ claimTelegramTopic(m) PROVE HeldHasChat'
  <2>1. PICK p \in {"resolve", "reread"} : Goes(m, p)
    BY <1>3 DEF isNotQuiet, claimTelegramTopic
  <2>2. proc'[m].at = p /\ \A g \in Workers : g # m => proc'[g] = proc[g]
    BY <2>1, WorkerGoes DEF Points
  <2> QED
    BY <2>2
<1>4. ASSUME NEW m \in Mails, resolveTopicId(m) PROVE HeldHasChat'
  BY <1>4, ResolveMoves DEF Alone
<1>5. ASSUME NEW m \in Mails, createForumTopic(m) PROVE HeldHasChat'
  BY <1>5, CreateMoves DEF Alone
<1>6. ASSUME NEW m \in Mails, getTelegramTopicForMailbox(m) PROVE HeldHasChat'
  BY <1>6, RereadMoves DEF Alone
<1>7. ASSUME NEW m \in Mails, sendToMailboxTopic(m) PROVE HeldHasChat'
  BY <1>7, SendMoves DEF Alone
<1>8. ASSUME NEW m \in Mails, readStaleName(m) PROVE HeldHasChat'
  BY <1>8, NameMoves DEF Alone
<1>9. ASSUME NEW m \in Mails, forgetTelegramTopic(m) PROVE HeldHasChat'
  <2>1. proc'[m].at = "resolve" /\ \A g \in Workers : g # m => proc'[g] = proc[g]
    BY <1>9, WorkerTriesAgain DEF forgetTelegramTopic, Points
  <2> QED
    BY <2>1
<1>10. ASSUME NEW m \in Mails, NotifyRetry(m) PROVE HeldHasChat'
  BY <1>10, RetryMoves DEF Alone
<1>11. ASSUME NEW f \in Workers, pendingRetained(f) PROVE HeldHasChat'
  BY <1>11, DigestMoves DEF Alone
<1>12. ASSUME NEW f \in Workers, sendDigest(f) PROVE HeldHasChat'
  <2>1. proc[f].at = "digest" /\ Goes(f, "mark")
    BY <1>12 DEF sendDigest
  <2>2. /\ proc'[f].chat = proc[f].chat
        /\ \A g \in Workers : g # f => proc'[g] = proc[g]
    BY <2>1, WorkerGoes DEF Points
  <2> QED
    BY <2>1, <2>2
<1>13. ASSUME NEW f \in Workers, markDigested(f) \/ FlushFails(f) PROVE HeldHasChat'
  BY <1>13, FlushEnds DEF Alone
<1>14. ASSUME CronBegin \/ deleteStaleDigestItems PROVE HeldHasChat'
  <2>1. Goes(Cron, "flush") \/ Goes(Cron, "idle")
    BY <1>14 DEF CronBegin, deleteStaleDigestItems
  <2>2. \A g \in Workers : g # Cron => proc'[g] = proc[g]
    BY <2>1, WorkerGoes DEF Points
  <2> QED
    BY <2>2, NotifyAssumption
<1>15. ASSUME (\E m \in Mails : Redelivered(m)) \/ OperatorStep \/ UNCHANGED notifyVars PROVE HeldHasChat'
  <2>1. UNCHANGED proc
    BY <1>15 DEF Redelivered, OperatorStep, notifyVars, toggleSenderMute, isWithinQuietHours, DeleteTopic,
      mapTelegramTopic, adoptTelegramChat, rebindTelegramChat, observeForum, upsertTelegramTopic,
      decideTopicMapping
  <2> QED
    BY <2>1
<1> QED
  BY <1>1, <1>2, <1>3, <1>4, <1>5, <1>6, <1>7, <1>8, <1>9, <1>10, <1>11, <1>12, <1>13, <1>14, <1>15
  DEF NotifyNext, NotifyStep, FlushStep, SweepBridge

\* Every step leaves what the queue is done with announced.
LEMMA AckedStep ==
  ASSUME WorkerTypes, RowTypes, HeldHasChat, AckedIsAnnounced, [NotifyNext]_notifyVars
  PROVE  AckedIsAnnounced'
<1> USE NotifyAssumption DEF NAt, Turn, topicVars, outsideVars, Workers, AckedIsAnnounced
<1>1. ASSUME NEW m \in Mails, Receive(m) PROVE AckedIsAnnounced'
  <2>1. UNCHANGED <<retained, cards>>
    BY <1>1 DEF Receive
  <2>2. \E how \in {"unbound", "muted", "running"} : note' = [note EXCEPT ![m] = how]
    BY <1>1 DEF Receive, Acks
  <2> QED
    BY <2>1, <2>2 DEF WorkerTypes
<1>2. ASSUME NEW m \in Mails, retainNotification(m) PROVE AckedIsAnnounced'
  <2>1. UNCHANGED cards /\ note' = [note EXCEPT ![m] = "held"]
    BY <1>2 DEF retainNotification, Acks
  <2>2. PICK c : c = proc[m].chat
    OBVIOUS
  <2>3. c \in Chats
    BY <1>2, <2>2 DEF retainNotification, HeldHasChat, MayBeHeld
  <2>4. /\ retained'[m][c] # "none"
        /\ \A k \in Mails : k # m => retained'[k] = retained[k]
    BY <1>2, <2>2, <2>3, RowHeld DEF retainNotification, RowTypes
  <2> QED
    BY <2>1, <2>3, <2>4 DEF WorkerTypes
<1>3. ASSUME NEW m \in Mails, isNotQuiet(m) PROVE AckedIsAnnounced'
  <2>1. UNCHANGED <<note, cards, retained>>
    BY <1>3 DEF isNotQuiet
  <2> QED
    BY <2>1
<1>4. ASSUME NEW m \in Mails, resolveTopicId(m) PROVE AckedIsAnnounced'
  <2>1. UNCHANGED <<note, cards, retained>>
    BY <1>4 DEF resolveTopicId
  <2> QED
    BY <2>1
<1>5. ASSUME NEW m \in Mails, createForumTopic(m) PROVE AckedIsAnnounced'
  <2>1. UNCHANGED <<note, cards, retained>>
    BY <1>5 DEF createForumTopic
  <2> QED
    BY <2>1
<1>6. ASSUME NEW m \in Mails, claimTelegramTopic(m) PROVE AckedIsAnnounced'
  <2>1. UNCHANGED <<note, cards, retained>>
    BY <1>6 DEF claimTelegramTopic
  <2> QED
    BY <2>1
<1>7. ASSUME NEW m \in Mails, getTelegramTopicForMailbox(m) PROVE AckedIsAnnounced'
  <2>1. UNCHANGED <<note, cards, retained>>
    BY <1>7 DEF getTelegramTopicForMailbox
  <2> QED
    BY <2>1
<1>8. ASSUME NEW m \in Mails, sendToMailboxTopic(m) PROVE AckedIsAnnounced'
  <2>1. UNCHANGED retained /\ note[m] = "running"
    BY <1>8 DEF sendToMailboxTopic, WorkerTypes
  <2>2. note'[m] \in {"running", "dropped"} /\ \A k \in Mails : k # m => note'[k] = note[k]
    BY <1>8, <2>1, SendMoves
  <2>3. \A k \in Mails : k # m => cards'[k] = cards[k]
    BY <1>8 DEF sendToMailboxTopic, RowTypes
  <2> QED
    BY <2>1, <2>2, <2>3
<1>9. ASSUME NEW m \in Mails, readStaleName(m) PROVE AckedIsAnnounced'
  <2>1. UNCHANGED <<note, cards, retained>>
    BY <1>9 DEF readStaleName
  <2> QED
    BY <2>1
<1>10. ASSUME NEW m \in Mails, forgetTelegramTopic(m) PROVE AckedIsAnnounced'
  <2>1. UNCHANGED <<note, cards, retained>>
    BY <1>10 DEF forgetTelegramTopic
  <2> QED
    BY <2>1
<1>11. ASSUME NEW m \in Mails, insertTelegramLink(m) PROVE AckedIsAnnounced'
  <2>1. UNCHANGED retained /\ note' = [note EXCEPT ![m] = "sent"]
    BY <1>11 DEF insertTelegramLink, Acks
  <2>2. /\ \E i \in DOMAIN cards'[m] : cards'[m][i].linked
        /\ \A k \in Mails : k # m => cards'[k] = cards[k]
    BY <1>11, CardLinked
  <2> QED
    BY <2>1, <2>2 DEF WorkerTypes
<1>12. ASSUME NEW m \in Mails, NotifyRetry(m) PROVE AckedIsAnnounced'
  BY <1>12 DEF NotifyRetry, WorkerTypes, RowTypes, Acks, Retained
<1>13. ASSUME NEW m \in Mails, Redelivered(m) PROVE AckedIsAnnounced'
  BY <1>13 DEF Redelivered, WorkerTypes, RowTypes, Acks, Retained
<1>14. ASSUME NEW f \in Workers, pendingRetained(f) PROVE AckedIsAnnounced'
  <2>1. UNCHANGED <<note, cards, retained>>
    BY <1>14 DEF pendingRetained
  <2> QED
    BY <2>1
<1>15. ASSUME NEW f \in Workers, sendDigest(f) PROVE AckedIsAnnounced'
  <2>1. UNCHANGED <<note, cards, retained>>
    BY <1>15 DEF sendDigest
  <2> QED
    BY <2>1
<1>16. ASSUME NEW f \in Workers, markDigested(f) PROVE AckedIsAnnounced'
  <2>1. UNCHANGED <<note, cards>>
    BY <1>16 DEF markDigested
  <2>2. \A k \in Mails, c \in Chats : retained[k][c] # "none" => retained'[k][c] # "none"
    BY <1>16, RowMarked DEF markDigested, RowTypes
  <2> QED
    BY <2>1, <2>2
<1>17. ASSUME NEW f \in Workers, FlushFails(f) PROVE AckedIsAnnounced'
  <2>1. UNCHANGED <<note, cards, retained>>
    BY <1>17 DEF FlushFails
  <2> QED
    BY <2>1
<1>18. ASSUME CronBegin PROVE AckedIsAnnounced'
  <2>1. UNCHANGED <<note, cards, retained>>
    BY <1>18 DEF CronBegin
  <2> QED
    BY <2>1
<1>19. ASSUME deleteStaleDigestItems PROVE AckedIsAnnounced'
  <2>1. UNCHANGED <<note, cards>>
    BY <1>19 DEF deleteStaleDigestItems
  <2>2. \A k \in Mails, c \in Chats : retained[k][c] # "none" => retained'[k][c] # "none"
    BY <1>19, RowsSwept DEF RowTypes
  <2> QED
    BY <2>1, <2>2
<1>20. ASSUME toggleSenderMute PROVE AckedIsAnnounced'
  <2>1. UNCHANGED <<note, cards, retained>>
    BY <1>20 DEF toggleSenderMute
  <2> QED
    BY <2>1
<1>21. ASSUME isWithinQuietHours PROVE AckedIsAnnounced'
  <2>1. UNCHANGED <<note, cards, retained>>
    BY <1>21 DEF isWithinQuietHours
  <2> QED
    BY <2>1
<1>22. ASSUME DeleteTopic PROVE AckedIsAnnounced'
  <2>1. UNCHANGED <<note, cards, retained>>
    BY <1>22 DEF DeleteTopic
  <2> QED
    BY <2>1
<1>23. ASSUME mapTelegramTopic PROVE AckedIsAnnounced'
  <2>1. UNCHANGED <<note, cards, retained>>
    BY <1>23 DEF mapTelegramTopic
  <2> QED
    BY <2>1
<1>24. ASSUME observeForum PROVE AckedIsAnnounced'
  <2>1. UNCHANGED <<note, cards, retained>>
    BY <1>24 DEF observeForum
  <2> QED
    BY <2>1
<1>25. ASSUME upsertTelegramTopic PROVE AckedIsAnnounced'
  <2>1. UNCHANGED <<note, cards, retained>>
    BY <1>25 DEF upsertTelegramTopic
  <2> QED
    BY <2>1
<1>26. ASSUME NEW c \in Chats, adoptTelegramChat(c) PROVE AckedIsAnnounced'
  <2>1. UNCHANGED <<note, cards, retained>>
    BY <1>26 DEF adoptTelegramChat
  <2> QED
    BY <2>1
<1>27. ASSUME NEW c \in Chats, rebindTelegramChat(c) PROVE AckedIsAnnounced'
  <2>1. UNCHANGED <<note, cards, retained>>
    BY <1>27 DEF rebindTelegramChat
  <2> QED
    BY <2>1
<1>28. ASSUME NEW replace \in BOOLEAN, decideTopicMapping(replace) PROVE AckedIsAnnounced'
  <2>1. UNCHANGED <<note, cards, retained>>
    BY <1>28 DEF decideTopicMapping
  <2> QED
    BY <2>1
<1>29. CASE UNCHANGED notifyVars
  BY <1>29 DEF notifyVars
<1> QED
  BY <1>1, <1>2, <1>3, <1>4, <1>5, <1>6, <1>7, <1>8, <1>9, <1>10, <1>11, <1>12, <1>13, <1>14, <1>15, <1>16, <1>17, <1>18, <1>19, <1>20, <1>21, <1>22, <1>23, <1>24, <1>25, <1>26, <1>27, <1>28, <1>29
  DEF NotifyNext, NotifyStep, FlushStep, SweepBridge, OperatorStep

\* Every step leaves what is closed after a digest that was sent.
LEMMA DigestStep ==
  ASSUME WorkerTypes, TopicTypes, RowTypes, ClosedAfterDigest, DigestWasSent, [NotifyNext]_notifyVars
  PROVE  ClosedAfterDigest' /\ DigestWasSent'
<1> USE NotifyAssumption DEF NAt, Turn, topicVars, outsideVars, Workers, ClosedAfterDigest, DigestWasSent
<1>1. ASSUME NEW m \in Mails, Receive(m) PROVE ClosedAfterDigest' /\ DigestWasSent'
  <2>1. UNCHANGED <<retained, told>>
    BY <1>1 DEF Receive
  <2>2. proc'[m].at \in {"idle", "flush"} /\ \A g \in Workers : g # m => proc'[g] = proc[g]
    BY <1>1, WorkerReceives, WorkerAcks DEF NotePoints
  <2> QED
    BY <2>1, <2>2
<1>2. ASSUME NEW m \in Mails, retainNotification(m) PROVE ClosedAfterDigest' /\ DigestWasSent'
  <2>1. UNCHANGED told /\ Acks(m, "held")
    BY <1>2 DEF retainNotification
  <2>2. proc'[m].at = "idle" /\ \A g \in Workers : g # m => proc'[g] = proc[g]
    BY <2>1, WorkerAcks DEF NotePoints
  <2>3. \A k \in Mails, c \in Chats :
          retained'[k][c] \in {"digested", "gone"} => retained'[k][c] = retained[k][c]
    <3>1. PICK c : c = proc[m].chat
      OBVIOUS
    <3> QED
      BY <1>2, <3>1, RowHeld DEF retainNotification, RowTypes
  <2> QED
    BY <2>1, <2>2, <2>3
<1>3. ASSUME NEW m \in Mails, isNotQuiet(m) PROVE ClosedAfterDigest' /\ DigestWasSent'
  <2>1. UNCHANGED <<retained, told>>
    BY <1>3 DEF isNotQuiet
  <2>2. proc'[m].at = "resolve" /\ \A g \in Workers : g # m => proc'[g] = proc[g]
    BY <1>3, WorkerGoes DEF isNotQuiet, Points
  <2> QED
    BY <2>1, <2>2
<1>4. ASSUME NEW m \in Mails, resolveTopicId(m) PROVE ClosedAfterDigest' /\ DigestWasSent'
  <2>1. UNCHANGED <<retained, told>>
    BY <1>4 DEF resolveTopicId
  <2> QED
    BY <1>4, <2>1, ResolveMoves DEF Alone
<1>5. ASSUME NEW m \in Mails, createForumTopic(m) PROVE ClosedAfterDigest' /\ DigestWasSent'
  <2>1. UNCHANGED <<retained, told>>
    BY <1>5 DEF createForumTopic
  <2> QED
    BY <1>5, <2>1, CreateMoves DEF Alone
<1>6. ASSUME NEW m \in Mails, claimTelegramTopic(m) PROVE ClosedAfterDigest' /\ DigestWasSent'
  <2>1. UNCHANGED <<retained, told>>
    BY <1>6 DEF claimTelegramTopic
  <2>2. proc'[m].at = "reread" /\ \A g \in Workers : g # m => proc'[g] = proc[g]
    BY <1>6, WorkerGoes DEF claimTelegramTopic, Points
  <2> QED
    BY <2>1, <2>2
<1>7. ASSUME NEW m \in Mails, getTelegramTopicForMailbox(m) PROVE ClosedAfterDigest' /\ DigestWasSent'
  <2>1. UNCHANGED <<retained, told>>
    BY <1>7 DEF getTelegramTopicForMailbox
  <2> QED
    BY <1>7, <2>1, RereadMoves DEF Alone
<1>8. ASSUME NEW m \in Mails, sendToMailboxTopic(m) PROVE ClosedAfterDigest' /\ DigestWasSent'
  <2>1. UNCHANGED <<retained, told>>
    BY <1>8 DEF sendToMailboxTopic
  <2> QED
    BY <1>8, <2>1, SendMoves DEF Alone
<1>9. ASSUME NEW m \in Mails, readStaleName(m) PROVE ClosedAfterDigest' /\ DigestWasSent'
  <2>1. UNCHANGED <<retained, told>>
    BY <1>9 DEF readStaleName
  <2> QED
    BY <1>9, <2>1, NameMoves DEF Alone
<1>10. ASSUME NEW m \in Mails, forgetTelegramTopic(m) PROVE ClosedAfterDigest' /\ DigestWasSent'
  <2>1. UNCHANGED <<retained, told>>
    BY <1>10 DEF forgetTelegramTopic
  <2>2. proc'[m].at = "resolve" /\ \A g \in Workers : g # m => proc'[g] = proc[g]
    BY <1>10, WorkerTriesAgain DEF forgetTelegramTopic, Points
  <2> QED
    BY <2>1, <2>2
<1>11. ASSUME NEW m \in Mails, insertTelegramLink(m) PROVE ClosedAfterDigest' /\ DigestWasSent'
  <2>1. UNCHANGED <<retained, told>> /\ Acks(m, "sent")
    BY <1>11 DEF insertTelegramLink
  <2>2. proc'[m].at = "idle" /\ \A g \in Workers : g # m => proc'[g] = proc[g]
    BY <2>1, WorkerAcks DEF NotePoints
  <2> QED
    BY <2>1, <2>2
<1>12. ASSUME NEW m \in Mails, NotifyRetry(m) PROVE ClosedAfterDigest' /\ DigestWasSent'
  <2>1. UNCHANGED <<retained, told>>
    BY <1>12 DEF NotifyRetry
  <2> QED
    BY <1>12, <2>1, RetryMoves DEF Alone
<1>13. ASSUME NEW m \in Mails, Redelivered(m) PROVE ClosedAfterDigest' /\ DigestWasSent'
  <2>1. UNCHANGED <<retained, told, proc>>
    BY <1>13 DEF Redelivered
  <2> QED
    BY <2>1
<1>14. ASSUME NEW f \in Workers, pendingRetained(f) PROVE ClosedAfterDigest' /\ DigestWasSent'
  <2>1. UNCHANGED <<retained, told>>
    BY <1>14 DEF pendingRetained
  <2> QED
    BY <1>14, <2>1, DigestMoves DEF Alone, AfterFlush
<1>15. ASSUME NEW f \in Workers, sendDigest(f) PROVE ClosedAfterDigest' /\ DigestWasSent'
  <2>1. UNCHANGED retained /\ proc[f].at = "digest" /\ told' = told \cup {<<k, proc[f].to>> : k \in proc[f].read}
    BY <1>15 DEF sendDigest
  <2>2. proc'[f].at = "mark" /\ proc'[f].to = proc[f].to /\ \A g \in Workers : g # f => proc'[g] = proc[g]
    BY <1>15, WorkerGoes DEF sendDigest, Points
  <2>3. proc[f].read # {} /\ proc[f].read \subseteq Mails
    BY <2>1 DEF WorkerTypes, Proc
  <2>4. \E x \in Mails : <<x, proc'[f].to>> \in told'
    BY <2>1, <2>2, <2>3
  <2> QED
    BY <2>1, <2>2, <2>4
<1>16. ASSUME NEW f \in Workers, markDigested(f) PROVE ClosedAfterDigest' /\ DigestWasSent'
  <2>1. UNCHANGED told /\ proc[f].at = "mark"
    BY <1>16 DEF markDigested
  <2>2. \E x \in Mails : <<x, proc[f].to>> \in told
    BY <2>1
  <2>3. Alone(f) /\ proc'[f].at \notin {"digest", "mark"}
    BY <1>16, FlushEnds DEF AfterFlush
  <2>4. \A k \in Mails, c \in Chats : c # proc[f].to => retained'[k][c] = retained[k][c]
    BY <1>16, RowMarked DEF markDigested, RowTypes
  <2> QED
    BY <2>1, <2>2, <2>3, <2>4 DEF Alone
<1>17. ASSUME NEW f \in Workers, FlushFails(f) PROVE ClosedAfterDigest' /\ DigestWasSent'
  <2>1. UNCHANGED <<retained, told>>
    BY <1>17 DEF FlushFails
  <2> QED
    BY <1>17, <2>1, FlushEnds DEF Alone, AfterFlush
<1>18. ASSUME CronBegin PROVE ClosedAfterDigest' /\ DigestWasSent'
  <2>1. UNCHANGED <<retained, told>>
    BY <1>18 DEF CronBegin
  <2>2. proc'[Cron].at = "flush" /\ \A g \in Workers : g # Cron => proc'[g] = proc[g]
    BY <1>18, WorkerGoes DEF CronBegin, Points
  <2> QED
    BY <2>1, <2>2
<1>19. ASSUME deleteStaleDigestItems PROVE ClosedAfterDigest' /\ DigestWasSent'
  <2>1. UNCHANGED told
    BY <1>19 DEF deleteStaleDigestItems
  <2>2. proc'[Cron].at = "idle" /\ \A g \in Workers : g # Cron => proc'[g] = proc[g]
    BY <1>19, WorkerGoes DEF deleteStaleDigestItems, Points
  <2>3. \A k \in Mails, c \in Chats :
          \/ retained'[k][c] = retained[k][c]
          \/ retained[k][c] = "digested" /\ retained'[k][c] = "gone"
    BY <1>19, RowsSwept DEF RowTypes
  <2> QED
    BY <2>1, <2>2, <2>3
<1>20. ASSUME toggleSenderMute PROVE ClosedAfterDigest' /\ DigestWasSent'
  <2>1. UNCHANGED <<retained, told, proc>>
    BY <1>20 DEF toggleSenderMute
  <2> QED
    BY <2>1
<1>21. ASSUME isWithinQuietHours PROVE ClosedAfterDigest' /\ DigestWasSent'
  <2>1. UNCHANGED <<retained, told, proc>>
    BY <1>21 DEF isWithinQuietHours
  <2> QED
    BY <2>1
<1>22. ASSUME DeleteTopic PROVE ClosedAfterDigest' /\ DigestWasSent'
  <2>1. UNCHANGED <<retained, told, proc>>
    BY <1>22 DEF DeleteTopic
  <2> QED
    BY <2>1
<1>23. ASSUME mapTelegramTopic PROVE ClosedAfterDigest' /\ DigestWasSent'
  <2>1. UNCHANGED <<retained, told, proc>>
    BY <1>23 DEF mapTelegramTopic
  <2> QED
    BY <2>1
<1>24. ASSUME observeForum PROVE ClosedAfterDigest' /\ DigestWasSent'
  <2>1. UNCHANGED <<retained, told, proc>>
    BY <1>24 DEF observeForum
  <2> QED
    BY <2>1
<1>25. ASSUME upsertTelegramTopic PROVE ClosedAfterDigest' /\ DigestWasSent'
  <2>1. UNCHANGED <<retained, told, proc>>
    BY <1>25 DEF upsertTelegramTopic
  <2> QED
    BY <2>1
<1>26. ASSUME NEW c \in Chats, adoptTelegramChat(c) PROVE ClosedAfterDigest' /\ DigestWasSent'
  <2>1. UNCHANGED <<retained, told, proc>>
    BY <1>26 DEF adoptTelegramChat
  <2> QED
    BY <2>1
<1>27. ASSUME NEW c \in Chats, rebindTelegramChat(c) PROVE ClosedAfterDigest' /\ DigestWasSent'
  <2>1. UNCHANGED <<retained, told, proc>>
    BY <1>27 DEF rebindTelegramChat
  <2> QED
    BY <2>1
<1>28. ASSUME NEW replace \in BOOLEAN, decideTopicMapping(replace) PROVE ClosedAfterDigest' /\ DigestWasSent'
  <2>1. UNCHANGED <<retained, told, proc>>
    BY <1>28 DEF decideTopicMapping
  <2> QED
    BY <2>1
<1>29. CASE UNCHANGED notifyVars
  BY <1>29 DEF notifyVars
<1> QED
  BY <1>1, <1>2, <1>3, <1>4, <1>5, <1>6, <1>7, <1>8, <1>9, <1>10, <1>11, <1>12, <1>13, <1>14, <1>15, <1>16, <1>17, <1>18, <1>19, <1>20, <1>21, <1>22, <1>23, <1>24, <1>25, <1>26, <1>27, <1>28, <1>29
  DEF NotifyNext, NotifyStep, FlushStep, SweepBridge, OperatorStep

\* Every step keeps what was posted in the topic of the mailbox.
LEMMA MappingStep ==
  ASSUME WorkerTypes, TopicTypes, RowTypes, MappingRules, [NotifyNext]_notifyVars
  PROVE  MappingRules'
<1> USE NotifyAssumption DEF NAt, Turn, topicVars, outsideVars, Workers, MappingRules
<1>1. ASSUME NEW m \in Mails, Receive(m) PROVE MappingRules'
  <2>1. UNCHANGED <<mapping, alive, used, touched, cards>>
    BY <1>1 DEF Receive
  <2>2. proc'[m].at \in {"idle", "flush"} /\ \A g \in Workers : g # m => proc'[g] = proc[g]
    BY <1>1, WorkerReceives, WorkerAcks DEF NotePoints
  <2> QED
    BY <2>1, <2>2
<1>2. ASSUME NEW m \in Mails, retainNotification(m) PROVE MappingRules'
  <2>1. UNCHANGED <<mapping, alive, used, touched, cards>> /\ Acks(m, "held")
    BY <1>2 DEF retainNotification
  <2>2. proc'[m].at = "idle" /\ \A g \in Workers : g # m => proc'[g] = proc[g]
    BY <2>1, WorkerAcks DEF NotePoints
  <2> QED
    BY <2>1, <2>2
<1>3. ASSUME NEW m \in Mails, isNotQuiet(m) PROVE MappingRules'
  <2>1. UNCHANGED <<mapping, alive, used, touched, cards>>
    BY <1>3 DEF isNotQuiet
  <2>2. proc'[m].at = "resolve" /\ \A g \in Workers : g # m => proc'[g] = proc[g]
    BY <1>3, WorkerGoes DEF isNotQuiet, Points
  <2> QED
    BY <2>1, <2>2
<1>4. ASSUME NEW m \in Mails, resolveTopicId(m) PROVE MappingRules'
  <2>1. UNCHANGED <<mapping, alive, used, touched, cards>>
    BY <1>4 DEF resolveTopicId
  <2> QED
    BY <1>4, <2>1, ResolveMoves DEF Alone
<1>5. ASSUME NEW m \in Mails, createForumTopic(m) PROVE MappingRules'
  <2>1. UNCHANGED <<mapping, touched, cards>>
    BY <1>5 DEF createForumTopic
  <2>2. CASE proc'[m].at = "send" /\ proc'[m].topic = Nothing /\ UNCHANGED <<alive, used>>
    BY <1>5, <2>1, <2>2, CreateMoves DEF Alone
  <2>3. ASSUME NEW t \in Topics, proc'[m].at = "claim", proc'[m].topic = t, NewTopic(t) PROVE MappingRules'
    <3>1. used \subseteq used' /\ (alive = used => alive' = used') /\ t \in used'
      BY <2>3, TopicIsMade
    <3> QED
      BY <1>5, <2>1, <2>3, <3>1, CreateMoves DEF Alone
  <2> QED
    BY <1>5, <2>2, <2>3, CreateMoves
<1>6. ASSUME NEW m \in Mails, claimTelegramTopic(m) PROVE MappingRules'
  <2>1. /\ UNCHANGED <<alive, used, touched, cards>> /\ proc[m].at = "claim"
        /\ mapping' = IF mapping = Nothing THEN [topic |-> proc[m].topic, name |-> proc[m].name]
                      ELSE mapping
    BY <1>6 DEF claimTelegramTopic
  <2>2. proc'[m].at = "reread" /\ \A g \in Workers : g # m => proc'[g] = proc[g]
    BY <1>6, WorkerGoes DEF claimTelegramTopic, Points
  <2>3. mapping' # Nothing
    <3>1. proc[m].topic \in Nat /\ proc[m].name \in Names \cup {Nothing}
      BY <2>1 DEF WorkerTypes, Proc, Topics, AnyName
    <3> QED
      BY <2>1, <3>1
  <2>4. mapping = Nothing => mapping'.topic = proc[m].topic
    BY <2>1
  <2>5. mapping # Nothing => mapping' = mapping
    BY <2>1
  <2>6. UNCHANGED <<alive, used, touched, cards>> /\ proc[m].at = "claim"
    BY <2>1
  <2> QED
    BY <2>2, <2>3, <2>4, <2>5, <2>6
<1>7. ASSUME NEW m \in Mails, getTelegramTopicForMailbox(m) PROVE MappingRules'
  <2>1. UNCHANGED <<mapping, alive, used, touched, cards>>
    BY <1>7 DEF getTelegramTopicForMailbox
  <2> QED
    BY <1>7, <2>1, RereadMoves DEF Alone
<1>8. ASSUME NEW m \in Mails, sendToMailboxTopic(m) PROVE MappingRules'
  <2>1. UNCHANGED <<mapping, alive, used, touched>> /\ proc[m].at = "send"
    BY <1>8 DEF sendToMailboxTopic
  <2>2. ~touched => Arrives(proc[m])
    BY <2>1 DEF Arrives
  <2>3. CASE /\ proc'[m].at = "link" /\ proc'[m].topic = proc[m].topic
             /\ cards' = [cards EXCEPT ![m] = Append(@,
                    [chat |-> proc[m].chat, topic |-> proc[m].topic, linked |-> FALSE])]
    <3>1. /\ \A k \in Mails : k # m => cards'[k] = cards[k]
          /\ \A i \in DOMAIN cards'[m] :
               (i \in DOMAIN cards[m] /\ cards'[m][i] = cards[m][i]) \/ cards'[m][i].topic = proc[m].topic
      BY <2>3, CardPosted
    <3>2. Alone(m) /\ proc'[m].at = "link" /\ proc'[m].topic = proc[m].topic
      BY <1>8, <2>3, SendMoves
    <3> QED
      BY <2>1, <3>1, <3>2 DEF Alone
  <2>4. CASE proc'[m].at \in {"stale", "idle"} /\ UNCHANGED cards
    <3>1. Alone(m) /\ (proc'[m].at = "stale" => ~Arrives(proc[m]))
      BY <1>8, SendMoves
    <3> QED
      BY <2>1, <2>2, <2>4, <3>1 DEF Alone
  <2> QED
    BY <1>8, <2>3, <2>4, SendMoves
<1>9. ASSUME NEW m \in Mails, readStaleName(m) PROVE MappingRules'
  <2>1. UNCHANGED touched /\ proc[m].at = "stale"
    BY <1>9 DEF readStaleName
  <2> QED
    BY <2>1
<1>10. ASSUME NEW m \in Mails, forgetTelegramTopic(m) PROVE MappingRules'
  <2>1. UNCHANGED touched /\ proc[m].at = "forget"
    BY <1>10 DEF forgetTelegramTopic
  <2> QED
    BY <2>1
<1>11. ASSUME NEW m \in Mails, insertTelegramLink(m) PROVE MappingRules'
  <2>1. UNCHANGED <<mapping, alive, used, touched>> /\ Acks(m, "sent")
    BY <1>11 DEF insertTelegramLink
  <2>2. proc'[m].at = "idle" /\ \A g \in Workers : g # m => proc'[g] = proc[g]
    BY <2>1, WorkerAcks DEF NotePoints
  <2>3. /\ \A k \in Mails : k # m => cards'[k] = cards[k]
        /\ DOMAIN cards'[m] = DOMAIN cards[m]
        /\ \A i \in DOMAIN cards[m] : cards'[m][i].topic = cards[m][i].topic
    BY <1>11, CardLinked
  <2> QED
    BY <2>1, <2>2, <2>3
<1>12. ASSUME NEW m \in Mails, NotifyRetry(m) PROVE MappingRules'
  <2>1. UNCHANGED <<mapping, alive, used, touched, cards>>
    BY <1>12 DEF NotifyRetry
  <2> QED
    BY <1>12, <2>1, RetryMoves DEF Alone
<1>13. ASSUME NEW m \in Mails, Redelivered(m) PROVE MappingRules'
  <2>1. UNCHANGED <<mapping, alive, used, touched, cards, proc>>
    BY <1>13 DEF Redelivered
  <2> QED
    BY <2>1
<1>14. ASSUME NEW f \in Workers, pendingRetained(f) PROVE MappingRules'
  <2>1. UNCHANGED <<mapping, alive, used, touched, cards>>
    BY <1>14 DEF pendingRetained
  <2> QED
    BY <1>14, <2>1, DigestMoves DEF Alone, AfterFlush
<1>15. ASSUME NEW f \in Workers, sendDigest(f) PROVE MappingRules'
  <2>1. UNCHANGED <<mapping, alive, used, touched, cards>>
    BY <1>15 DEF sendDigest
  <2>2. proc'[f].at = "mark" /\ \A g \in Workers : g # f => proc'[g] = proc[g]
    BY <1>15, WorkerGoes DEF sendDigest, Points
  <2> QED
    BY <2>1, <2>2
<1>16. ASSUME NEW f \in Workers, markDigested(f) PROVE MappingRules'
  <2>1. UNCHANGED <<mapping, alive, used, touched, cards>>
    BY <1>16 DEF markDigested
  <2> QED
    BY <1>16, <2>1, FlushEnds DEF Alone, AfterFlush
<1>17. ASSUME NEW f \in Workers, FlushFails(f) PROVE MappingRules'
  <2>1. UNCHANGED <<mapping, alive, used, touched, cards>>
    BY <1>17 DEF FlushFails
  <2> QED
    BY <1>17, <2>1, FlushEnds DEF Alone, AfterFlush
<1>18. ASSUME CronBegin PROVE MappingRules'
  <2>1. UNCHANGED <<mapping, alive, used, touched, cards>>
    BY <1>18 DEF CronBegin
  <2>2. proc'[Cron].at = "flush" /\ \A g \in Workers : g # Cron => proc'[g] = proc[g]
    BY <1>18, WorkerGoes DEF CronBegin, Points
  <2> QED
    BY <2>1, <2>2
<1>19. ASSUME deleteStaleDigestItems PROVE MappingRules'
  <2>1. UNCHANGED <<mapping, alive, used, touched, cards>>
    BY <1>19 DEF deleteStaleDigestItems
  <2>2. proc'[Cron].at = "idle" /\ \A g \in Workers : g # Cron => proc'[g] = proc[g]
    BY <1>19, WorkerGoes DEF deleteStaleDigestItems, Points
  <2> QED
    BY <2>1, <2>2
<1>20. ASSUME toggleSenderMute PROVE MappingRules'
  <2>1. UNCHANGED <<mapping, alive, used, touched, cards, proc>>
    BY <1>20 DEF toggleSenderMute
  <2> QED
    BY <2>1
<1>21. ASSUME isWithinQuietHours PROVE MappingRules'
  <2>1. UNCHANGED <<mapping, alive, used, touched, cards, proc>>
    BY <1>21 DEF isWithinQuietHours
  <2> QED
    BY <2>1
<1>22. ASSUME DeleteTopic PROVE MappingRules'
  BY <1>22 DEF DeleteTopic
<1>23. ASSUME mapTelegramTopic PROVE MappingRules'
  <2>1. UNCHANGED <<mapping, alive, used, touched, cards, proc>>
    BY <1>23 DEF mapTelegramTopic
  <2> QED
    BY <2>1
<1>24. ASSUME observeForum PROVE MappingRules'
  <2>1. UNCHANGED <<mapping, alive, used, touched, cards, proc>>
    BY <1>24 DEF observeForum
  <2> QED
    BY <2>1
<1>25. ASSUME upsertTelegramTopic PROVE MappingRules'
  BY <1>25 DEF upsertTelegramTopic
<1>26. ASSUME NEW c \in Chats, adoptTelegramChat(c) PROVE MappingRules'
  <2>1. UNCHANGED <<mapping, alive, used, touched, cards, proc>>
    BY <1>26 DEF adoptTelegramChat
  <2> QED
    BY <2>1
<1>27. ASSUME NEW c \in Chats, rebindTelegramChat(c) PROVE MappingRules'
  <2>1. UNCHANGED <<mapping, alive, used, touched, cards, proc>>
    BY <1>27 DEF rebindTelegramChat
  <2> QED
    BY <2>1
<1>28. ASSUME NEW replace \in BOOLEAN, decideTopicMapping(replace) PROVE MappingRules'
  <2>1. UNCHANGED <<mapping, touched, cards, proc>>
    BY <1>28 DEF decideTopicMapping
  <2>2. UNCHANGED <<alive, used>> \/ \E t : NewTopic(t)
    BY <1>28 DEF decideTopicMapping
  <2>3. used \subseteq used' /\ (alive = used => alive' = used')
    BY <2>2, TopicIsMade
  <2> QED
    BY <2>1, <2>3
<1>29. CASE UNCHANGED notifyVars
  BY <1>29 DEF notifyVars
<1> QED
  BY <1>1, <1>2, <1>3, <1>4, <1>5, <1>6, <1>7, <1>8, <1>9, <1>10, <1>11, <1>12, <1>13, <1>14, <1>15, <1>16, <1>17, <1>18, <1>19, <1>20, <1>21, <1>22, <1>23, <1>24, <1>25, <1>26, <1>27, <1>28, <1>29
  DEF NotifyNext, NotifyStep, FlushStep, SweepBridge, OperatorStep

(***************************************************************************)
(* Every mail the queue is done with is a linked card or a row of the      *)
(* digest; no row is closed in a chat that was never sent a digest; and    *)
(* until the operator deletes or maps a topic, all cards of the mailbox    *)
(* are in one topic, however many deliveries race to create it.            *)
(***************************************************************************)
THEOREM MailIsAnnounced == NotifySpec => []NotifyInvariant
<1>1. NotifyInductive /\ [NotifyNext]_notifyVars => NotifyInductive'
  BY WorkerTypesStep, TopicTypesStep, RowTypesStep, HeldStep, AckedStep, DigestStep, MappingStep DEF NotifyInductive
<1>2. NotifyInductive => NotifyInvariant
  <2> SUFFICES ASSUME NotifyInductive PROVE NotifyInvariant
    OBVIOUS
  <2>1. NotifyTypeOK
    <3>1. /\ \A f \in Workers : proc[f].at \in Points
          /\ \A m \in Mails, c \in Chats : retained[m][c] \in {"none", "pending", "digested", "gone"}
      BY DEF NotifyInductive, WorkerTypes, RowTypes, Proc, Retained
    <3> QED
      BY <3>1 DEF NotifyInductive, NotifyTypeOK, WorkerTypes, TopicTypes, NotePoints, Workers, AnyChat
  <2>2. OneTopicPerMailbox
    <3> DEFINE all == (UNION {{cards[m][i].topic : i \in DOMAIN cards[m]} : m \in Mails}) \ {Nothing}
    <3>1. ASSUME ~touched PROVE all \subseteq {mapping.topic}
      <4>1. \A m \in Mails : \A i \in DOMAIN cards[m] :
              cards[m][i].topic # Nothing => cards[m][i].topic = mapping.topic
        BY <3>1 DEF NotifyInductive, MappingRules
      <4>2. \A x \in all : \E m \in Mails : \E i \in DOMAIN cards[m] : x = cards[m][i].topic /\ x # Nothing
        <5> SUFFICES ASSUME NEW x \in all
                     PROVE  \E m \in Mails : \E i \in DOMAIN cards[m] : x = cards[m][i].topic /\ x # Nothing
          OBVIOUS
        <5>1. x # Nothing /\ \E m \in Mails : x \in {cards[m][i].topic : i \in DOMAIN cards[m]}
          OBVIOUS
        <5> QED
          BY <5>1
      <4> QED
        BY <4>1, <4>2
    <3>2. IsFiniteSet({mapping.topic}) /\ Cardinality({mapping.topic}) = 1
      BY FS_Singleton
    <3> HIDE DEF all
    <3>3. ASSUME ~touched PROVE Cardinality(all) <= 1
      BY <3>1, <3>2, <3>3, FS_Subset
    <3> USE DEF all
    <3> QED
      BY <3>3 DEF OneTopicPerMailbox
  <2> QED
    BY <2>1, <2>2 DEF NotifyInductive, NotifyInvariant
<1> QED
  BY <1>1, <1>2, NotifyStarts, PTL DEF NotifySpec

================================================================================
