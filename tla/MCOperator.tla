------------------------------- MODULE MCOperator -------------------------------
(* What the operator's programs do to a mailbox and to what a deploy ships.  *)
(* They share no state, so a behaviour moves one of them, and `live` says    *)
(* which.                                                                    *)
EXTENDS MailboxRebuild, DeployConfig
CONSTANTS m1, m2, n1
VARIABLE live

(* An old index of an inbox message, a sent one and a filed one.  The target *)
(* may list the first as processed; or R2 may have lost it, and then the     *)
(* target may list the last as failed and the script be run twice.           *)
MCDeliveries == {m1, m2} \X Runs
MCKeyOf == [d \in Deliveries |-> IF d[1] = m2 THEN "k2" ELSE "k1"]
MCRawOf == [d \in Deliveries |-> d[1]]
MCShaOf == [r \in Raws |-> r]
MCPushOf == [p \in Runs \X Raws |-> IF p[2] = n1 THEN <<m1, p[1]>> ELSE <<p[2], p[1]>>]
MCRowKey == [r \in Raws |-> IF r = m2 THEN "k2" ELSE "k1"]
Listed(key, status) == [k \in Keys |-> IF k = key THEN status ELSE "none"]
MCBackups == {Listed("k1", "none"), Listed("k1", "processed"), Listed("k2", "failed")}
MCLost == {{}, {m1}}
MCSource == <<m1, n1, m2>>

Listing(status) == \E k \in Keys : events[k].status = status
RebuildBegins == (Listing("processed") => m1 \in raws) /\ (Listing("failed") => m1 \notin raws)

(* --force is about the keys that the target lists: without any, it is as   *)
(* good as left out.                                                        *)
ForceMatters == force' => \E k \in Keys : known'[k].status # "none"

(* A script that dies for good is one that takes no more steps.             *)
DiesToRunAgain ==
  script' = "died" /\ script # "died" =>
    run + 1 \in Runs /\ Cardinality(RowsOf \cap raws) <= ReRunRows

(* Components that do not run keep one initial state.                        *)
RebuildRests == raws = {m1, m2} /\ \A k \in Keys : events[k].status = "none"
DeployRests == \A e \in Envs : tracked[e].bounded

(* The two domains are alike: where wrangler.jsonc names one, it is "a".     *)
NamesTheFirst == \A e \in Envs : tracked[e].from # "b"

Init ==
  /\ live \in {"rebuild", "deploy"}
  /\ RebuildInit /\ DeployInit /\ NamesTheFirst
  /\ RebuildBegins /\ (live # "rebuild" => RebuildRests)
  /\ live # "deploy" => DeployRests

(* The terminals are alike: the first is used while both are at rest.        *)
FirstTerminalFirst ==
  (\A t \in Terminals : commands[t] = AtPrompt) => commands'[2] = AtPrompt

RebuildStep == RebuildNext /\ ForceMatters /\ DiesToRunAgain

Next ==
  /\ UNCHANGED live
  /\ \/ live = "rebuild" /\ RebuildStep /\ UNCHANGED deployVars
     \/ live = "deploy" /\ DeployNext /\ FirstTerminalFirst /\ UNCHANGED allVars

Spec == Init /\ [][Next]_<<live, allVars, deployVars>>
================================================================================
