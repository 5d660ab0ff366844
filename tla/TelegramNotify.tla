----------------------------- MODULE TelegramNotify -----------------------------
(***************************************************************************)
(* How the mail of one mailbox is announced in Telegram (telegram/notify,  *)
(* telegram/noise, telegram/admin): the notification queue delivers a      *)
(* mail, which is skipped, held for the digest of the quiet hours, or      *)
(* posted as a card in the forum topic of its mailbox; the topic is        *)
(* created the first time and again when it was deleted.  An hourly pass   *)
(* sends the digest, and the operator mutes, deletes and maps topics and   *)
(* moves the bridge to another chat while all of this runs.                *)
(*                                                                         *)
(* Each step is one statement in D1 or one call to Telegram, so a worker   *)
(* may fail between any two; two statements that no other actor can come   *)
(* between with an effect are one step.                                    *)
(***************************************************************************)
EXTENDS FiniteSets, Naturals, Sequences

CONSTANTS
    Mails,          \* mails to announce: one mailbox, one sender
    Cron,           \* the hourly pass
    MaxTopics,      \* bound: forum topics the group ever has
    Names,          \* names the operator gives a topic
    Nothing,        \* no topic, no name, no chat, no mapping
    MaxRetries,     \* max_retries of the notification queue
    MaxTurns,       \* bound: moves of the operator and of the clock
    MaxFaults       \* bound: failures and redeliveries

ASSUME NotifyAssumption ==
    /\ Cron \notin Mails
    /\ Nothing \notin Nat \union Names \union {"group", "private"}
    /\ Nothing \notin [topic : Nat, name : Names \union {Nothing}]
    /\ {MaxTopics, MaxRetries, MaxTurns, MaxFaults} \subseteq Nat /\ MaxTopics # 0

VARIABLES
    binding,        \* runtime_config: the bound chat and whether it is a forum
    quiet, muted,   \* the quiet hours are on, the sender is muted
    mapping,        \* telegram_topics: the topic of the mailbox in the group
    alive, used,    \* topics that exist in Telegram, topics that ever did
    note, tries,    \* the queue message of each mail, its redeliveries
    proc,           \* the worker of each mail, and of the hourly pass
    retained,       \* telegram_retained: the row of each mail in each chat
    cards,          \* the cards posted for each mail, oldest first
    told,           \* <<mail, chat>> named in a digest Telegram accepted
    op,             \* the request of the operator being served
    chosen,         \* the name the operator last gave the topic
    touched,        \* the operator has deleted a topic or mapped one
    turns, faults

notifyVars == <<binding, quiet, muted, mapping, alive, used, note, tries, proc, retained,
                cards, told, op, chosen, touched, turns, faults>>
topicVars == <<mapping, alive, used>>
outsideVars == <<op, chosen, touched, turns>>

Chats == {"group", "private"}
Topics == 1 .. MaxTopics
NoProc == [at |-> "idle", chat |-> Nothing, to |-> Nothing, topic |-> Nothing,
           name |-> Nothing, second |-> FALSE, read |-> {}]
NoOp == [at |-> "idle", chat |-> Nothing, topic |-> Nothing, name |-> Nothing]

NotifyInit ==
    /\ \E c \in Chats \union {Nothing} : binding = [chat |-> c, forum |-> c = "group"]
    /\ quiet \in BOOLEAN /\ muted = FALSE
    /\ \/ mapping = Nothing /\ used = {} /\ chosen = Nothing
       \/ /\ used = {1}
          /\ chosen \in Names \union {Nothing}
          /\ mapping = [topic |-> 1, name |-> chosen]
    /\ alive = used
    /\ note = [m \in Mails |-> "queued"] /\ tries = [m \in Mails |-> 0]
    /\ proc = [f \in Mails \union {Cron} |-> NoProc]
    /\ retained = [m \in Mails |-> [c \in Chats |-> "none"]]
    /\ cards = [m \in Mails |-> <<>>]
    /\ told = {} /\ op = NoOp /\ touched = FALSE
    /\ turns = 0 /\ faults = 0

NAt(f, point) == proc[f].at = point
Goes(f, point) == proc' = [proc EXCEPT ![f].at = point]
Acks(m, how) == /\ note' = [note EXCEPT ![m] = how]
                /\ proc' = [proc EXCEPT ![m] = NoProc]
Pending(c) == {m \in Mails : retained[m][c] = "pending"}

-----------------------------------------------------------------------------
(* A delivery of the queue, from the skip to the digest it releases.       *)
Receive(m) ==
    /\ note[m] = "queued"
    /\ \/ binding.chat = Nothing /\ Acks(m, "unbound")
       \/ binding.chat # Nothing /\ muted /\ Acks(m, "muted")
       \/ /\ binding.chat # Nothing /\ ~muted
          /\ note' = [note EXCEPT ![m] = "running"]
          /\ proc' = [proc EXCEPT ![m] = [NoProc EXCEPT !.at = "flush", !.chat = binding.chat]]
    /\ UNCHANGED <<binding, quiet, muted, topicVars, tries, retained, cards, told, outsideVars, faults>>

AfterFlush(f) == IF f = Cron THEN "sweep" ELSE "quiet"

(* Mutant: the hourly pass only tidies up.                                 *)
sweepOnly ==
    /\ NAt(Cron, "idle")
    /\ Goes(Cron, "sweep")
    /\ UNCHANGED <<binding, quiet, muted, topicVars, note, tries, retained, cards, told, outsideVars, faults>>

(* The hourly pass flushes before it deletes anything.                     *)
CronBegin ==
    /\ NAt(Cron, "idle")
    /\ Goes(Cron, "flush")
    /\ UNCHANGED <<binding, quiet, muted, topicVars, note, tries, retained, cards, told, outsideVars, faults>>

(* The digest names what was pending when it was put together.             *)
pendingRetained(f) ==
    /\ NAt(f, "flush")
    /\ IF quiet \/ binding.chat = Nothing \/ Pending(binding.chat) = {}
       THEN Goes(f, AfterFlush(f))
       ELSE proc' = [proc EXCEPT ![f].at = "digest", ![f].to = binding.chat,
                                 ![f].read = Pending(binding.chat)]
    /\ UNCHANGED <<binding, quiet, muted, topicVars, note, tries, retained, cards, told, outsideVars, faults>>

sendDigest(f) ==
    /\ NAt(f, "digest")
    /\ told' = told \union {<<m, proc[f].to>> : m \in proc[f].read}
    /\ Goes(f, "mark")
    /\ UNCHANGED <<binding, quiet, muted, topicVars, note, tries, retained, cards, outsideVars, faults>>

(* Every pending row of the chat is marked, whether the digest named it or *)
(* not.                                                                    *)
markDigested(f) ==
    /\ NAt(f, "mark")
    /\ retained' = [m \in Mails |->
           [retained[m] EXCEPT ![proc[f].to] = IF @ = "pending" THEN "digested" ELSE @]]
    /\ proc' = [proc EXCEPT ![f].at = AfterFlush(f), ![f].to = Nothing, ![f].read = {}]
    /\ UNCHANGED <<binding, quiet, muted, topicVars, note, tries, cards, told, outsideVars, faults>>

(* Both callers swallow what the flush throws: the rows stay pending.      *)
FlushFails(f) ==
    /\ proc[f].at \in {"digest", "mark"}
    /\ faults < MaxFaults
    /\ faults' = faults + 1
    /\ proc' = [proc EXCEPT ![f].at = AfterFlush(f), ![f].to = Nothing, ![f].read = {}]
    /\ UNCHANGED <<binding, quiet, muted, topicVars, note, tries, retained, cards, told, outsideVars>>

(* deleteStaleDigestItems: rows digested more than seven days ago.         *)
deleteStaleDigestItems ==
    /\ NAt(Cron, "sweep")
    /\ \E old \in {{}, {"digested"}} :
           retained' = [m \in Mails |-> [c \in Chats |->
                            IF retained[m][c] \in old THEN "gone" ELSE retained[m][c]]]
    /\ Goes(Cron, "idle")
    /\ UNCHANGED <<binding, quiet, muted, topicVars, note, tries, cards, told, outsideVars, faults>>

(* In the quiet hours the mail is held: one row per mail and chat,         *)
(* whatever the queue does.                                                *)
retainNotification(m) ==
    /\ NAt(m, "quiet") /\ quiet
    /\ retained' = [retained EXCEPT ![m][proc[m].chat] =
                        IF @ \in {"pending", "digested"} THEN @ ELSE "pending"]
    /\ Acks(m, "held")
    /\ UNCHANGED <<binding, quiet, muted, topicVars, tries, cards, told, outsideVars, faults>>

isNotQuiet(m) ==
    /\ NAt(m, "quiet") /\ ~quiet
    /\ Goes(m, "resolve")
    /\ UNCHANGED <<binding, quiet, muted, topicVars, note, tries, retained, cards, told, outsideVars, faults>>

-----------------------------------------------------------------------------
(* The topic the card goes into.                                           *)
Mapped(chat) == chat = "group" /\ mapping # Nothing

resolveTopicId(m) ==
    /\ NAt(m, "resolve")
    /\ \/ ~binding.forum /\ proc' = [proc EXCEPT ![m].at = "send", ![m].topic = Nothing]
       \/ /\ binding.forum /\ Mapped(proc[m].chat)
          /\ proc' = [proc EXCEPT ![m].at = "send", ![m].topic = mapping.topic]
       \/ binding.forum /\ ~Mapped(proc[m].chat) /\ Goes(m, "create")
    /\ UNCHANGED <<binding, quiet, muted, topicVars, note, tries, retained, cards, told, outsideVars, faults>>

(* Telegram numbers topics upwards.                                        *)
NewTopic(t) == /\ t \in Topics /\ t = Cardinality(used) + 1
               /\ used' = used \union {t}
               /\ alive' = alive \union {t}

(* Refused for good, as in a chat that is no forum, the card goes without. *)
createForumTopic(m) ==
    /\ NAt(m, "create")
    /\ \/ /\ proc[m].chat = "group"
          /\ \E t \in Topics :
                 /\ NewTopic(t)
                 /\ proc' = [proc EXCEPT ![m].at = "claim", ![m].topic = t]
          /\ UNCHANGED faults
       \/ /\ proc[m].chat # "group" \/ faults < MaxFaults
          /\ faults' = IF proc[m].chat = "group" THEN faults + 1 ELSE faults
          /\ proc' = [proc EXCEPT ![m].at = "send", ![m].topic = Nothing]
          /\ UNCHANGED <<alive, used>>
    /\ UNCHANGED <<binding, quiet, muted, mapping, note, tries, retained, cards, told, outsideVars>>

(* INSERT ... ON CONFLICT DO NOTHING: the first write wins ...             *)
claimTelegramTopic(m) ==
    /\ NAt(m, "claim")
    /\ mapping' = IF mapping = Nothing THEN [topic |-> proc[m].topic, name |-> proc[m].name]
                  ELSE mapping
    /\ Goes(m, "reread")
    /\ UNCHANGED <<binding, quiet, muted, alive, used, note, tries, retained, cards, told, outsideVars, faults>>

(* Mutant: the caller trusts its own insert.                               *)
trustInsert(m) ==
    /\ NAt(m, "reread")
    /\ Goes(m, "send")
    /\ UNCHANGED <<binding, quiet, muted, topicVars, note, tries, retained, cards, told, outsideVars, faults>>

(* ... and the row is read again: the topic in force is the winner's.      *)
getTelegramTopicForMailbox(m) ==
    /\ NAt(m, "reread")
    /\ proc' = [proc EXCEPT ![m].at = "send",
                            ![m].topic = IF mapping = Nothing THEN @ ELSE mapping.topic]
    /\ UNCHANGED <<binding, quiet, muted, topicVars, note, tries, retained, cards, told, outsideVars, faults>>

Arrives(p) == p.topic = Nothing \/ p.topic \in alive

(* A deleted topic is healed once; a second miss is refused for good, and  *)
(* so is any other 4xx: the notification is dropped.                       *)
sendToMailboxTopic(m) ==
    /\ NAt(m, "send")
    /\ \/ /\ Arrives(proc[m])
          /\ cards' = [cards EXCEPT ![m] = Append(@,
                 [chat |-> proc[m].chat, topic |-> proc[m].topic, linked |-> FALSE])]
          /\ Goes(m, "link")
          /\ UNCHANGED <<note, faults>>
       \/ /\ ~Arrives(proc[m]) /\ ~proc[m].second
          /\ Goes(m, "stale")
          /\ UNCHANGED <<cards, note, faults>>
       \/ /\ ~Arrives(proc[m]) /\ proc[m].second
          /\ Acks(m, "dropped")
          /\ UNCHANGED <<cards, faults>>
       \/ /\ faults < MaxFaults /\ faults' = faults + 1
          /\ Acks(m, "dropped")
          /\ UNCHANGED cards
    /\ UNCHANGED <<binding, quiet, muted, topicVars, tries, retained, told, outsideVars>>

(* The name is read before the mapping is forgotten ...                    *)
readStaleName(m) ==
    /\ NAt(m, "stale")
    /\ proc' = [proc EXCEPT ![m].at = "forget",
           ![m].name = IF Mapped(proc[m].chat) THEN mapping.name ELSE Nothing]
    /\ UNCHANGED <<binding, quiet, muted, topicVars, note, tries, retained, cards, told, outsideVars, faults>>

(* ... whichever topic it names by then.                                   *)
forgetTelegramTopic(m) ==
    /\ NAt(m, "forget")
    /\ mapping' = IF proc[m].chat = "group" THEN Nothing ELSE mapping
    /\ proc' = [proc EXCEPT ![m].at = "resolve", ![m].second = TRUE]
    /\ UNCHANGED <<binding, quiet, muted, alive, used, note, tries, retained, cards, told, outsideVars, faults>>

insertTelegramLink(m) ==
    /\ NAt(m, "link")
    /\ cards' = [cards EXCEPT ![m][Len(cards[m])].linked = TRUE]
    /\ Acks(m, "sent")
    /\ UNCHANGED <<binding, quiet, muted, topicVars, tries, retained, told, outsideVars, faults>>

(* An await of a delivery fails, or its worker dies: the queue redelivers  *)
(* until its retries are spent.                                            *)
NotifyRetry(m) ==
    /\ note[m] = "running" /\ proc[m].at \notin {"digest", "mark"}
    /\ faults < MaxFaults /\ faults' = faults + 1
    /\ Acks(m, IF tries[m] < MaxRetries THEN "queued" ELSE "dead")
    /\ tries' = [tries EXCEPT ![m] = IF @ < MaxRetries THEN @ + 1 ELSE @]
    /\ UNCHANGED <<binding, quiet, muted, topicVars, retained, cards, told, outsideVars>>

(* The queue delivers at least once: an acknowledgement may be lost.       *)
Redelivered(m) ==
    /\ note[m] \in {"sent", "held", "muted"}
    /\ faults < MaxFaults /\ faults' = faults + 1
    /\ note' = [note EXCEPT ![m] = "queued"]
    /\ UNCHANGED <<binding, quiet, muted, topicVars, tries, proc, retained, cards, told, outsideVars>>

-----------------------------------------------------------------------------
(* The operator and the clock.                                             *)
Turn == turns < MaxTurns /\ turns' = turns + 1

toggleSenderMute ==
    /\ Turn /\ muted' = ~muted
    /\ UNCHANGED <<binding, quiet, topicVars, note, tries, proc, retained, cards, told, op, chosen, touched, faults>>

(* The window opens or closes, or the operator states another one.         *)
isWithinQuietHours ==
    /\ Turn /\ quiet' = ~quiet
    /\ UNCHANGED <<binding, muted, topicVars, note, tries, proc, retained, cards, told, op, chosen, touched, faults>>

DeleteTopic ==
    /\ Turn
    /\ \E t \in alive : alive' = alive \ {t}
    /\ touched' = TRUE
    /\ UNCHANGED <<binding, quiet, muted, mapping, used, note, tries, proc, retained, cards, told, op, chosen, faults>>

(* /start in a chat adopts it when none is bound, then asks Telegram what  *)
(* kind of chat it is.                                                     *)
adoptTelegramChat(c) ==
    /\ Turn /\ op.at = "idle"
    /\ binding' = IF binding.chat = Nothing THEN [binding EXCEPT !.chat = c] ELSE binding
    /\ op' = IF binding'.chat = c THEN [NoOp EXCEPT !.at = "start", !.chat = c] ELSE NoOp
    /\ UNCHANGED <<quiet, muted, topicVars, note, tries, proc, retained, cards, told, chosen, touched, faults>>

rebindTelegramChat(c) ==
    /\ Turn /\ binding # [chat |-> c, forum |-> c = "group"]
    /\ binding' = [chat |-> c, forum |-> c = "group"]
    /\ UNCHANGED <<quiet, muted, topicVars, note, tries, proc, retained, cards, told, op, chosen, touched, faults>>

(* A request to map the mailbox: to a new topic under a name, or to one    *)
(* that a person made, or believes to exist.                               *)
mapTelegramTopic ==
    /\ Turn /\ op.at = "idle" /\ binding.chat # Nothing
    /\ \E t \in used \union {Cardinality(used) + 1, Nothing}, n \in Names \union {Nothing} :
           /\ t # Nothing \/ n # Nothing
           /\ op' = [at |-> "map", chat |-> binding.chat, topic |-> t, name |-> n]
    /\ UNCHANGED <<binding, quiet, muted, topicVars, note, tries, proc, retained, cards, told, chosen, touched, faults>>

(* refreshChatTopicSupport and observeForum: the flag of the chat that was *)
(* asked about is stored, unless Telegram does not answer.                 *)
observeForum ==
    /\ op.at \in {"start", "map"}
    /\ binding' \in {binding, [binding EXCEPT !.forum = op.chat = "group"]}
    /\ op' = IF op.at = "map" /\ op.chat = "group" THEN [op EXCEPT !.at = "decide"] ELSE NoOp
    /\ UNCHANGED <<quiet, muted, topicVars, note, tries, proc, retained, cards, told, chosen, touched, turns, faults>>

Already(want) ==
    /\ mapping # Nothing
    /\ IF want.topic = Nothing THEN want.name = mapping.name
       ELSE want.topic = mapping.topic /\ want.name \in {Nothing, mapping.name}

(* What is mapped already is left alone, and another mapping replaced only *)
(* on request; a new topic is created on the spot, an adopted one is taken *)
(* at its word.                                                            *)
decideTopicMapping(replace) ==
    /\ op.at = "decide"
    /\ IF Already(op) \/ (mapping # Nothing /\ ~replace)
       THEN op' = NoOp /\ UNCHANGED <<alive, used>>
       ELSE \/ /\ op.topic = Nothing
               /\ \E t \in Topics : NewTopic(t) /\ op' = [op EXCEPT !.at = "upsert", !.topic = t]
            \/ /\ op.topic # Nothing /\ op.topic \notin used
               /\ NewTopic(op.topic)
               /\ op' = [op EXCEPT !.at = "upsert"]
            \/ /\ op.topic \in used
               /\ op' = [op EXCEPT !.at = "upsert"]
               /\ UNCHANGED <<alive, used>>
            \/ op.topic = Nothing /\ op' = NoOp /\ UNCHANGED <<alive, used>>
    /\ UNCHANGED <<binding, quiet, muted, mapping, note, tries, proc, retained, cards, told, chosen, touched, turns, faults>>

upsertTelegramTopic ==
    /\ op.at = "upsert"
    /\ mapping' = [topic |-> op.topic, name |-> op.name]
    /\ chosen' = op.name
    /\ touched' = TRUE
    /\ op' = NoOp
    /\ UNCHANGED <<binding, quiet, muted, alive, used, note, tries, proc, retained, cards, told, turns, faults>>

-----------------------------------------------------------------------------
FlushStep(f) == pendingRetained(f) \/ sendDigest(f) \/ markDigested(f)
(* One delivery: deliverInboundNotification.                               *)
NotifyStep(m) ==
    \/ Receive(m) \/ FlushStep(m)
    \/ retainNotification(m) \/ isNotQuiet(m)
    \/ resolveTopicId(m) \/ createForumTopic(m)
    \/ claimTelegramTopic(m) \/ getTelegramTopicForMailbox(m)
    \/ sendToMailboxTopic(m) \/ readStaleName(m) \/ forgetTelegramTopic(m)
    \/ insertTelegramLink(m)
(* The hourly pass: sweepTelegramBridge.                                   *)
SweepBridge == CronBegin \/ FlushStep(Cron) \/ deleteStaleDigestItems
OperatorStep ==
    \/ toggleSenderMute \/ isWithinQuietHours \/ DeleteTopic \/ mapTelegramTopic
    \/ \E c \in Chats : adoptTelegramChat(c) \/ rebindTelegramChat(c)
    \/ observeForum \/ upsertTelegramTopic
    \/ \E replace \in BOOLEAN : decideTopicMapping(replace)

NotifyNext ==
    \/ \E m \in Mails : NotifyStep(m) \/ NotifyRetry(m) \/ Redelivered(m)
    \/ \E f \in Mails \union {Cron} : FlushFails(f)
    \/ SweepBridge
    \/ OperatorStep

(* A worker that runs keeps running, the queue delivers and the cron fires *)
(* every hour.                                                             *)
NotifyFairness ==
    /\ \A m \in Mails : WF_notifyVars(NotifyStep(m))
    /\ WF_notifyVars(SweepBridge)
NotifySpec == NotifyInit /\ [][NotifyNext]_notifyVars /\ NotifyFairness

-----------------------------------------------------------------------------
MapRow == [topic : Topics, name : Names \union {Nothing}]
Points == {"idle", "flush", "digest", "mark", "sweep", "quiet", "resolve", "create", "claim",
           "reread", "send", "stale", "forget", "link"}
(* The types of the variables.                                             *)
NotifyTypeOK ==
    /\ binding \in [chat : Chats \union {Nothing}, forum : BOOLEAN]
    /\ mapping \in MapRow \union {Nothing}
    /\ alive \subseteq used /\ used \subseteq Topics
    /\ tries \in [Mails -> 0 .. MaxRetries]
    /\ \A m \in Mails :
        /\ note[m] \in {"queued", "running", "sent", "held", "muted", "unbound", "dropped", "dead"}
        /\ \A c \in Chats : retained[m][c] \in {"none", "pending", "digested", "gone"}
        /\ note[m] = "running" <=> proc[m].at # "idle"
    /\ \A f \in Mails \union {Cron} : proc[f].at \in Points

(* A mail the queue has done with is where the operator can find it: a     *)
(* card that a reply or a button resolves, or a row of the digest          *)
(* (notify.ts: the link is written inside the retried path).               *)
AckedIsAnnounced ==
    \A m \in Mails :
        /\ note[m] = "sent" => \E i \in DOMAIN cards[m] : cards[m][i].linked
        /\ note[m] = "held" => \E c \in Chats : retained[m][c] # "none"

(* No row of a night is closed, and none deleted, in a chat where no       *)
(* digest was ever accepted (noise.ts, flushTelegramDigest and             *)
(* deleteStaleDigestItems).                                                *)
ClosedAfterDigest ==
    \A m \in Mails, c \in Chats : retained[m][c] \in {"digested", "gone"} =>
        \E x \in Mails : <<x, c>> \in told

(* Until the operator deletes a topic or maps one, every card of the       *)
(* mailbox is in the same topic, however many deliveries overlapped        *)
(* (db/telegram-topics.ts, claimTelegramTopic).                            *)
OneTopicPerMailbox ==
    ~touched => Cardinality((UNION {{cards[m][i].topic : i \in DOMAIN cards[m]} : m \in Mails})
                            \ {Nothing}) <= 1

(* What the notification path keeps at every moment.                       *)
NotifyInvariant == NotifyTypeOK /\ AckedIsAnnounced /\ ClosedAfterDigest /\ OneTopicPerMailbox

(* Held mail is digested in the end, unless the nights never stop or the   *)
(* bridge moves away from the chat it was held for (noise.ts: a quiet      *)
(* morning with no new mail still gets its digest).                        *)
HeldIsDigested ==
    \A m \in Mails, c \in Chats : retained[m][c] = "pending" ~>
        (retained[m][c] # "pending" \/ quiet \/ c # binding.chat)

(* What the code says of a topic recreated after it was deleted: the name  *)
(* the operator chose outlives the topic it was first given to             *)
(* (notify.ts, deliverInboundNotification).                                *)
NameOutlives == mapping # Nothing => mapping.name = chosen

(* What the code says of the digest: a row the operator has not been told  *)
(* about is never closed (noise.ts, deleteStaleDigestItems).               *)
DigestedIsTold ==
    \A m \in Mails, c \in Chats : retained[m][c] \in {"digested", "gone"} => <<m, c>> \in told
================================================================================
