------------------------------- MODULE MCTelegram -------------------------------
(* The bridge, one concern at a time, for they share no state: two mails on    *)
(* their way into a topic that the operator may delete or map; two mails held  *)
(* overnight; one mail while the bridge moves; the cards of a mail; a reply.   *)
EXTENDS TelegramNotify, TelegramCards, TelegramReply
CONSTANTS m1, m2, n1
VARIABLE live

MCInit ==
    /\ live \in {"topics", "night", "moves", "cards", "reply"}
    /\ NotifyInit /\ CardsInit /\ ReplyInit
    /\ live = "topics" => binding.chat = "group" /\ ~quiet
    /\ live = "moves" => ~quiet
    /\ live \notin {"topics", "moves"} => binding.chat = "private" /\ quiet /\ mapping = Nothing
MCNotify ==
    /\ live \in {"topics", "night", "moves"}
    /\ NotifyNext
    /\ CASE live = "topics" ->
              turns' <= 1 /\ UNCHANGED <<quiet, muted, binding.chat, proc[Cron]>>
         [] live = "night" -> UNCHANGED <<used, alive, mapping, op>>
         [] live = "moves" -> UNCHANGED <<quiet, muted, alive, proc[Cron], note[m2]>>
MCNext ==
    /\ UNCHANGED live
    /\ \/ MCNotify /\ UNCHANGED <<cardVars, replyVars>>
       \/ live = "cards" /\ CardsNext /\ UNCHANGED <<notifyVars, replyVars>>
       \/ live = "reply" /\ ReplyNext /\ UNCHANGED <<notifyVars, cardVars>>
MCVars == <<live, notifyVars, cardVars, replyVars>>
\* Mail is held in the night alone, so fairness is asked of its workers.
Night(A) ==
    live = "night" /\ A /\ UNCHANGED <<used, alive, mapping, op, live, cardVars, replyVars>>
MCSpec ==
    /\ MCInit /\ [][MCNext]_MCVars
    /\ \A m \in Mails : WF_MCVars(Night(NotifyStep(m)))
    /\ WF_MCVars(Night(SweepBridge))
================================================================================
