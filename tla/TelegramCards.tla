----------------------------- MODULE TelegramCards -----------------------------
(***************************************************************************)
(* How the cards of one mail follow what happens to it (telegram/cards,    *)
(* telegram/links): the mail is changed on the web, which queues an edit   *)
(* of its newest card, or by a button of a card, which edits that card on  *)
(* the spot; more cards are posted when the mail is found or expanded out  *)
(* of a digest.                                                            *)
(*                                                                         *)
(* The queue keeps no order.  A card is a row of telegram_links only from  *)
(* the second of the two steps that post it.                               *)
(***************************************************************************)
EXTENDS FiniteSets, Naturals, Sequences

CONSTANTS
    Changes,        \* everything done to the mail, by web or button
    MaxCards,       \* bound: cards posted
    MaxCardFaults   \* bound: failures

ASSUME CardsAssumption == {MaxCards, MaxCardFaults} \subseteq Nat

VARIABLES
    place, read,    \* the mail in the Durable Object
    mutedSender,    \* its sender is muted
    posted,         \* the cards, oldest first: linked, and the status shown
    posting,        \* a card is posted and not yet linked
    change,         \* each change: its way from the mail to a card
    due,            \* what the newest card must show once nothing is in flight
    cardFaults

cardVars == <<place, read, mutedSender, posted, posting, change, due, cardFaults>>

(* CARD_STATUS_FOR_ACTION                                                  *)
Statuses == {"archived", "trashed", "inbox", "read", "unread"}
CLOSED_STATUSES == {"archived", "trashed"}
NoChange == [at |-> "new", by |-> "web", status |-> "none", card |-> 0]

CardsInit ==
    /\ place = "inbox" /\ read = FALSE /\ mutedSender = FALSE
    /\ posted = <<>> /\ posting = FALSE
    /\ change = [c \in Changes |-> NoChange]
    /\ due = "any" /\ cardFaults = 0

InFlight == posting \/ \E c \in Changes : change[c].at \notin {"new", "done"}
Linked == {i \in DOMAIN posted : posted[i].linked}
At(c, point) == change[c].at = point
To(c, point) == change' = [change EXCEPT ![c].at = point]
CardFault == cardFaults < MaxCardFaults /\ cardFaults' = cardFaults + 1

(* The card the operator looks at, 0 for none.                             *)
Newest == IF Linked = {} THEN 0 ELSE CHOOSE i \in Linked : \A j \in Linked : j <= i

(* Mutant: the first card of the mail.                                     *)
oldestCard == IF Linked = {} THEN 0 ELSE CHOOSE i \in Linked : \A j \in Linked : i <= j

(* findCardForMessage, findCardForThread: the newest card, 0 for none.     *)
findCard == IF Linked = {} THEN 0 ELSE CHOOSE i \in Linked : \A j \in Linked : j <= i

-----------------------------------------------------------------------------
(* A card: notified, found by a search or expanded out of a digest.        *)
postMailCard ==
    /\ ~posting /\ Len(posted) < MaxCards
    /\ posted' = Append(posted, [linked |-> FALSE, shown |-> "none"])
    /\ posting' = TRUE
    /\ due' = "any"
    /\ UNCHANGED <<place, read, mutedSender, change, cardFaults>>

insertCardLink ==
    /\ posting
    /\ posting' = FALSE
    /\ \/ posted' = [posted EXCEPT ![Len(posted)].linked = TRUE] /\ UNCHANGED cardFaults
       \/ CardFault /\ UNCHANGED posted
    /\ UNCHANGED <<place, read, mutedSender, change, due>>

-----------------------------------------------------------------------------
(* The actions of the mailbox object.                                      *)
applyMailboxMessageAction(s) ==
    /\ place' = CASE s = "inbox" -> "inbox"
                  [] s \in CLOSED_STATUSES -> s
                  [] OTHER -> place
    /\ read' = CASE s = "read" -> TRUE [] s = "unread" -> FALSE [] OTHER -> read

(* A change that starts while nothing is in flight, and whose card is the  *)
(* newest, is the one the card must show.                                  *)
Owes(s, alone) == due' = IF alone THEN s ELSE "any"

(* POST .../messages/:id/actions: the object first, then the queue.        *)
WebAction(c) ==
    /\ At(c, "new")
    /\ \E s \in Statuses :
           /\ applyMailboxMessageAction(s)
           /\ change' = [change EXCEPT ![c] = [NoChange EXCEPT !.at = "acted", !.status = s]]
           /\ Owes(s, ~InFlight /\ Newest # 0)
    /\ UNCHANGED <<mutedSender, posted, posting, cardFaults>>

enqueueTelegramCardRefresh(c) ==
    /\ At(c, "acted") /\ change[c].by = "web"
    /\ \/ To(c, "queued") /\ UNCHANGED <<due, cardFaults>>
       \/ CardFault /\ To(c, "done") /\ due' = "any"
    /\ UNCHANGED <<place, read, mutedSender, posted, posting>>

(* refreshTelegramCard, up to the edit: no card, nothing to edit.          *)
refreshTelegramCard(c) ==
    /\ At(c, "queued")
    /\ change' = [change EXCEPT ![c].at = IF findCard = 0 THEN "done" ELSE "editing",
                                ![c].card = findCard]
    /\ UNCHANGED <<place, read, mutedSender, posted, posting, due, cardFaults>>

Edited(c) == posted' = [posted EXCEPT ![change[c].card].shown = change[c].status]

(* A failed edit is redelivered while the queue has retries left.          *)
restateCard(c) ==
    /\ At(c, "editing")
    /\ \/ Edited(c) /\ To(c, "done") /\ UNCHANGED <<due, cardFaults>>
       \/ CardFault /\ To(c, "queued") /\ UNCHANGED <<posted, due>>
       \/ CardFault /\ To(c, "done") /\ due' = "any" /\ UNCHANGED posted
    /\ UNCHANGED <<place, read, mutedSender, posting>>

-----------------------------------------------------------------------------
(* A button of a card that still has its buttons: archive, read (marked,   *)
(* or read in full), mute.                                                 *)
PressButton(c) ==
    /\ At(c, "new")
    /\ \E i \in DOMAIN posted, s \in {"archived", "read", "none"} :
           /\ posted[i].shown \notin CLOSED_STATUSES
           /\ change' = [change EXCEPT ![c] =
                  [at |-> "pressed", by |-> "button", status |-> s, card |-> i]]
           /\ Owes(s, ~InFlight /\ i = Newest)
    /\ UNCHANGED <<place, read, mutedSender, posted, posting, cardFaults>>

(* handleCardCallback: the link names the mail, the verb what to do.       *)
handleCardCallback(c) ==
    /\ At(c, "pressed")
    /\ \/ posted[change[c].card].linked = FALSE /\ To(c, "done")
          /\ UNCHANGED <<place, read, mutedSender>>
       \/ /\ posted[change[c].card].linked /\ To(c, "acted")
          /\ applyMailboxMessageAction(change[c].status)
          /\ mutedSender' = IF change[c].status = "none" THEN ~mutedSender ELSE mutedSender
    /\ UNCHANGED <<posted, posting, due, cardFaults>>

(* What fails after the action is reported, never thrown ...               *)
restateAfterAction(c) ==
    /\ At(c, "acted") /\ change[c].by = "button"
    /\ \/ Edited(c) /\ UNCHANGED <<due, cardFaults>>
       \/ CardFault /\ due' = "any" /\ UNCHANGED posted
    /\ To(c, "done")
    /\ UNCHANGED <<place, read, mutedSender, posting>>

(* ... but a worker that dies makes Telegram deliver the press again.      *)
PressAgain(c) ==
    /\ At(c, "acted") /\ change[c].by = "button" /\ CardFault
    /\ To(c, "pressed")
    /\ UNCHANGED <<place, read, mutedSender, posted, posting, due>>

CardStep(c) ==
    \/ WebAction(c) \/ enqueueTelegramCardRefresh(c) \/ refreshTelegramCard(c) \/ restateCard(c)
    \/ PressButton(c) \/ handleCardCallback(c) \/ restateAfterAction(c) \/ PressAgain(c)
CardsNext == postMailCard \/ insertCardLink \/ \E c \in Changes : CardStep(c)
CardsSpec == CardsInit /\ [][CardsNext]_cardVars

-----------------------------------------------------------------------------
(* A status is true of the mail.                                           *)
TrueOf(s) == CASE s = "read" -> read
               [] s = "unread" -> ~read
               [] s \in CLOSED_STATUSES \union {"inbox"} -> place = s
               [] OTHER -> TRUE

(* Whatever happened before, and however stale the cards had become by     *)
(* then: a change that nothing overlapped is what the newest card shows,   *)
(* and it is true of the mail (cards.ts, the two reconciliations).         *)
CardsAgree ==
    /\ place \in {"inbox"} \union CLOSED_STATUSES
    /\ ~InFlight /\ due # "any" => posted[Newest].shown = due /\ TrueOf(due)
================================================================================
