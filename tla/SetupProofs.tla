------------------------------ MODULE SetupProofs ------------------------------
(***************************************************************************)
(* What the setup programs guarantee, for any queues, event types, zones,  *)
(* envs, domains, keys, terminals and starting states.                     *)
(*                                                                         *)
(* Provisioning: a name once enabled stays so, its first DMARC record is   *)
(* only ever made ours, and a list somebody read of the records still      *)
(* describes them; a channel that is live is never made less.  So what a   *)
(* step found or did is still true when the answer is given, and after.    *)
(*                                                                         *)
(* Deploying: the tracked file with the generated one over it never takes  *)
(* back what was set up, nor anything a Worker runs with, because every    *)
(* write starts from the block that a deploy would ship and only adds to   *)
(* it.  A plan carries over what it was made from, whatever is edited, and *)
(* so keeps that promise if the files are still those when it is written;  *)
(* where they are not, `overwritten` has the env and nothing is claimed.   *)
(* What is in dist/ keeps it as well, from any number of terminals.        *)
(*                                                                         *)
(* Onboarding: no step takes back what another set up, so what a run       *)
(* passed is in place when the run ends, and a live key that no item holds *)
(* was lost by a run that counted it.  That an item of the store names a   *)
(* live key takes one terminal at a time.                                  *)
(***************************************************************************)
EXTENDS SendingDomain, DeployConfig, Onboarding, SequenceTheorems, FiniteSetTheorems, TLAPS

--------------------------------------------------------------------------------
(* The policy.                                                             *)

Policy == {"ours", "provider", "other"}
Ours == <<"ours">>

\* A list of the records read while the name was enabled, against what is there.
Describes(list, records) ==
  /\ list = << >> => records \in {<< >>, Ours}
  /\ list # << >> => /\ records # << >> /\ Len(records) <= Len(list)
                     /\ list[1] = "ours" => records[1] = "ours"

\* What may become of the records of an enabled name.
Improves(records, after) ==
  \/ after = records \/ after = Ours
  \/ records # << >> /\ after = SubSeq(records, 1, 1)

LEMMA OursIsIt == Ours \in Seq(Policy) /\ Len(Ours) = 1 /\ Ours[1] = "ours" /\ Ours # << >>
BY DEF Ours, Policy

\* One record that is ours is the list that holds it.
LEMMA OneIsOurs ==
  ASSUME NEW d \in Seq(Policy), Len(d) = 1, d[1] = "ours"
  PROVE  d = Ours
<1>1. \A i \in 1 .. Len(d) : d[i] = Ours[i]
  BY OursIsIt
<1> QED
  BY <1>1, OursIsIt, SeqEqual, Zenon

\* The first record alone.
LEMMA FirstRecord ==
  ASSUME NEW d \in Seq(Policy), d # << >>
  PROVE  LET f == SubSeq(d, 1, 1) IN f \in Seq(Policy) /\ Len(f) = 1 /\ f[1] = d[1] /\ f # << >>
<1>1. Len(d) \in Nat \ {0}
  BY EmptySeq
<1>2. \A i \in 1 .. 1 : d[i] \in Policy
  BY <1>1, ElementOfSeq
<1>3. LET f == SubSeq(d, 1, 1) IN f \in Seq(Policy) /\ Len(f) = 1 /\ f[1] = d[1]
  BY <1>2, SubSeqProperties
<1> QED
  BY <1>3, EmptySeq

\* What improves keeps what is ours, and every list that described it.
LEMMA ImprovedIsDescribed ==
  ASSUME NEW d \in Seq(Policy), NEW e, Improves(d, e)
  PROVE  /\ e \in Seq(Policy)
         /\ d = Ours => e = Ours
         /\ \A l \in Seq(Policy) : Describes(l, d) => Describes(l, e)
<1>1. CASE e = d
  BY <1>1
<1>2. CASE e = Ours
  <2>1. \A l \in Seq(Policy) : l # << >> => 1 <= Len(l)
    BY EmptySeq
  <2> QED
    BY <1>2, <2>1, OursIsIt DEF Describes
<1>3. CASE d # << >> /\ e = SubSeq(d, 1, 1)
  <2>1. e \in Seq(Policy) /\ Len(e) = 1 /\ e[1] = d[1] /\ e # << >>
    BY <1>3, FirstRecord
  <2>2. d = Ours => e = Ours
    BY <2>1, OneIsOurs, OursIsIt
  <2>3. \A l \in Seq(Policy) : l # << >> => 1 <= Len(l)
    BY EmptySeq
  <2> QED
    BY <1>3, <2>1, <2>2, <2>3 DEF Describes
<1> QED
  BY <1>1, <1>2, <1>3 DEF Improves

\* A list that was just read describes what it was read from.
LEMMA ReadDescribes ==
  ASSUME NEW d \in Seq(Policy)
  PROVE  Describes(d, d)
<1>1. Len(d) \in Nat
  BY LenProperties
<1> QED
  BY <1>1 DEF Describes

\* Where the duplicates are still there, the first of the records is left.
LEMMA PruningImproves ==
  ASSUME NEW l \in Seq(Policy), Len(l) > 1, dmarc \in Seq(Policy), Describes(l, dmarc)
  PROVE  /\ Improves(dmarc, Pruned(l))
         /\ SubSeq(l, 1, 1) \in Seq(Policy)
         /\ Describes(SubSeq(l, 1, 1), Pruned(l))
<1>1. l # << >> /\ dmarc # << >>
  BY EmptySeq DEF Describes
<1>2. Pruned(l) = SubSeq(dmarc, 1, 1)
  BY DEF Pruned
<1> QED
  BY <1>1, <1>2, FirstRecord DEF Describes, Improves

LEMMA BetweenOneAndOne ==
  \A m \in Nat \ {0}, n \in Nat : m <= n /\ n <= 1 => m = 1
OBVIOUS

\* The upsert leaves exactly our record, or is refused.
LEMMA PublishingIsOurs ==
  ASSUME NEW l \in Seq(Policy), Len(l) <= 1, dmarc \in Seq(Policy), Describes(l, dmarc),
         l # Ours, ~PostRefused(l)
  PROVE  Published(l) = Ours
<1>1. CASE l = << >>
  <2>1. dmarc = << >>
    BY <1>1, OursIsIt DEF Describes, PostRefused
  <2> QED
    BY <1>1, <2>1 DEF Published, Ours
<1>2. CASE l # << >>
  <2>1. Len(dmarc) = 1
    <3>1. Len(dmarc) \in Nat \ {0} /\ Len(l) \in Nat
      BY <1>2, EmptySeq DEF Describes
    <3>2. Len(dmarc) <= Len(l)
      BY <1>2 DEF Describes
    <3> HIDE DEF Describes
    <3> QED
      BY <3>1, <3>2, BetweenOneAndOne
  <2>2. Published(l) = [dmarc EXCEPT ![1] = "ours"]
    BY <1>2 DEF Published
  <2>3. 1 \in 1 .. Len(dmarc) /\ "ours" \in Policy
    BY <2>1 DEF Policy
  <2> HIDE DEF Policy
  <2>4. PICK p : p = [dmarc EXCEPT ![1] = "ours"]
    OBVIOUS
  <2>6. /\ p \in Seq(Policy) /\ Len(p) = Len(dmarc)
        /\ \A j \in 1 .. Len(dmarc) : p[j] = IF j = 1 THEN "ours" ELSE dmarc[j]
    BY <2>3, <2>4, ExceptSeq
  <2>5. Published(l) \in Seq(Policy) /\ Len(Published(l)) = 1 /\ Published(l)[1] = "ours"
    BY <2>1, <2>2, <2>3, <2>4, <2>6
  <2> QED
    BY <2>5, OneIsOurs
<1> QED
  BY <1>1, <1>2

\* A list that says the policy is in place is right.
LEMMA OursIsThere ==
  ASSUME NEW d \in Seq(Policy), Describes(Ours, d)
  PROVE  d = Ours
<1>1. Len(d) \in Nat \ {0}
  BY OursIsIt, EmptySeq DEF Describes
<1>2. Len(d) = 1 /\ d[1] = "ours"
  BY <1>1, OursIsIt DEF Describes
<1> QED
  BY <1>2, OneIsOurs

--------------------------------------------------------------------------------
(* The feedback channel.                                                   *)

\* Every event type reaches our queue.
Reached(list) ==
  \A e \in EventTypes : \E i \in 1 .. Len(list) :
    list[i].enabled /\ list[i].queue = Queue /\ e \in list[i].events

LEMMA LiveIsReached ==
  ASSUME NEW list \in Seq(Subscribable)
  PROVE  evaluateFeedbackSubscription(list).state = "live" <=> Reached(list)
<1> DEFINE switched == {i \in 1 .. Len(list) : list[i].enabled}
           reaching == {i \in switched : list[i].queue = Queue}
<1>1. \A i \in 1 .. Len(list) : list[i] \in Subscribable
  BY ElementOfSeq
<1>2. Covered(reaching, list) = EventTypes <=> Reached(list)
  BY <1>1 DEF Covered, Reached, Subscribable
<1>3. Reached(list) => reaching # {}
  BY SendingAssumption DEF Reached
<1>4. reaching # {} => switched # {} /\ list # << >>
  BY EmptySeq
<1> HIDE DEF switched, reaching
<1>5. evaluateFeedbackSubscription(list).state = "live"
        <=> list # << >> /\ switched # {} /\ reaching # {} /\ Covered(reaching, list) = EventTypes
  BY <1>4 DEF evaluateFeedbackSubscription, switched, reaching
<1> QED
  BY <1>2, <1>3, <1>4, <1>5

LEMMA FullIsSubscribable == FullSubscription \in Subscribable
BY DEF FullSubscription, Subscribable

\* Subscribing once more, and switching one on and widening it.
LEMMA SubscribingReaches ==
  ASSUME NEW list \in Seq(Subscribable)
  PROVE  Append(list, FullSubscription) \in Seq(Subscribable) /\ Reached(Append(list, FullSubscription))
<1>1. /\ Append(list, FullSubscription) \in Seq(Subscribable)
      /\ Len(Append(list, FullSubscription)) = Len(list) + 1
      /\ Append(list, FullSubscription)[Len(list) + 1] = FullSubscription
      /\ Len(list) \in Nat
  BY FullIsSubscribable, AppendProperties, LenProperties
<1> QED
  BY <1>1 DEF Reached, FullSubscription

LEMMA WideningReaches ==
  ASSUME NEW list \in Seq(Subscribable), NEW i
  PROVE  LET wider == [list EXCEPT ![i].enabled = TRUE, ![i].events = EventTypes]
         IN  wider \in Seq(Subscribable) /\ (Reached(list) => Reached(wider))
<1> DEFINE wider == [list EXCEPT ![i].enabled = TRUE, ![i].events = EventTypes]
<1>1. CASE i \notin 1 .. Len(list)
  <2>1. wider = list
    BY <1>1, LenProperties
  <2> QED
    BY <2>1
<1>2. CASE i \in 1 .. Len(list)
  <2> DEFINE w == [list[i] EXCEPT !.enabled = TRUE, !.events = EventTypes]
  <2>1. list[i] \in Subscribable
    BY <1>2, ElementOfSeq
  <2>2. w \in Subscribable /\ w.enabled = TRUE /\ w.events = EventTypes /\ w.queue = list[i].queue
    BY <2>1 DEF Subscribable
  <2>3. wider = [list EXCEPT ![i] = w]
    BY <1>2, <2>1, LenProperties DEF Subscribable
  <2> HIDE DEF w, wider
  <2>6. PICK t : t = wider
    OBVIOUS
  <2>4. /\ t \in Seq(Subscribable) /\ Len(t) = Len(list)
        /\ \A j \in 1 .. Len(list) : t[j] = IF j = i THEN w ELSE list[j]
    BY <1>2, <2>2, <2>3, <2>6, ExceptSeq
  <2>5. Reached(list) => Reached(wider)
    BY <1>2, <2>2, <2>4, <2>6 DEF Reached
  <2> QED
    BY <2>6, <2>4, <2>5 DEF wider
<1> QED
  BY <1>1, <1>2

--------------------------------------------------------------------------------
(* What every step of provisioning leaves as it was, or better.            *)

WorkerPoints == {"idle", "register", "insert", "sending", "enable", "dmarc", "policy",
                 "routing", "feedback", "subscribe", "mailbox", "report"}
CommandPoints == {"idle", "enable", "spf", "dmarc", "policy", "records", "feedback",
                  "converge", "recheck", "exit"}
ProvisionSteps == {"register", "sending", "dmarc", "routing", "feedback", "mailbox"}

WorldTypes ==
  /\ enabled \in BOOLEAN /\ dmarc \in Seq(Policy) /\ spf \in {0, 1, 2}
  /\ routing \in BOOLEAN /\ mailbox \in BOOLEAN
  /\ subscriptions \in Seq(Subscribable)

ProgramTypes ==
  /\ at \in [worker : WorkerPoints, command : CommandPoints]
  /\ steps \in [done : SUBSET ProvisionSteps, failed : SUBSET ProvisionSteps]
  /\ claim \in [worker : {"none", "complete", "incomplete"},
                command : {"none", "failed", "verified"}]
  /\ read = [worker |-> read.worker, command |-> read.command] /\ read.worker \in Seq(Policy)

\* What the two of them know of the records.
RecordsRead ==
  /\ at.worker = "policy" => enabled /\ Describes(read.worker, dmarc)
  /\ at.command = "policy" =>
       enabled /\ read.command \in Seq(Policy) /\ Describes(read.command, dmarc)

\* A step that succeeded is still so.
Proved(s) ==
  /\ s = "sending" => enabled /\ zone = ZoneId
  /\ s = "dmarc" => enabled /\ dmarc = Ours
  /\ s = "routing" => routing
  /\ s = "feedback" => Reached(subscriptions)
  /\ s = "mailbox" => mailbox

StepsHold == \A s \in steps.done : Proved(s)

\* No step is forgotten: what is behind the request succeeded or failed.
Behind(s) == s \in steps.done \cup steps.failed
NothingSkipped ==
  /\ at.worker = "enable" => zone = ZoneId
  /\ at.worker \in {"dmarc", "policy"} => "sending" \in steps.done
  /\ at.worker \in {"routing", "feedback", "subscribe", "mailbox"} =>
       Behind("sending") /\ Behind("dmarc")
  /\ at.worker \in {"feedback", "subscribe", "mailbox"} => Behind("routing")
  /\ at.worker = "mailbox" => Behind("feedback")
  /\ at.worker = "report" =>
       \/ steps.failed # {}
       \/ {"sending", "dmarc", "routing", "feedback", "mailbox"} \subseteq steps.done

\* How far the command has come.
CommandHolds ==
  /\ at.command \notin {"idle", "enable"} => enabled
  /\ at.command \notin {"idle", "enable", "spf"} => spf = 1
  /\ at.command \in {"records", "feedback", "converge", "recheck", "exit"} => dmarc = Ours
  /\ at.command \in {"converge", "exit"} => read.command \in Seq(Subscribable)
  /\ at.command = "converge" => ~Reached(read.command)
  /\ at.command = "exit" /\ Reached(read.command) => Reached(subscriptions)

\* The answers, with the channel as LiveIsReached states it.
AnswersHold ==
  /\ claim.worker = "complete" =>
       enabled /\ dmarc = Ours /\ routing /\ Reached(subscriptions) /\ zone = ZoneId /\ mailbox
  /\ claim.command = "verified" => enabled /\ dmarc = Ours /\ spf = 1 /\ Reached(subscriptions)

SendingInductive ==
  /\ WorldTypes /\ ProgramTypes /\ RecordsRead /\ StepsHold /\ NothingSkipped
  /\ CommandHolds /\ AnswersHold

\* The world only gets better.
Steadily ==
  /\ enabled => enabled' /\ Improves(dmarc, dmarc')
  /\ enabled /\ spf = 1 => spf' = 1
  /\ zone # NoRow => zone' = zone
  /\ routing => routing'
  /\ mailbox => mailbox'
  /\ Reached(subscriptions) => Reached(subscriptions')


USE DEF WorkerAt, WorkerGoes, Done, NotDone, WorkerReads, CommandAt, CommandGoes, CommandReads,
        Claims, Wrote, Refused, Lost, remote, database

\* The seven of them stand still.
Still == UNCHANGED <<enabled, dmarc, spf, routing, mailbox, subscriptions, zone>>

LEMMA StillIsSteady ==
  ASSUME WorldTypes, Still
  PROVE  WorldTypes' /\ Steadily
BY DEF WorldTypes, Steadily, Improves, Still, Reached

\* Switching the name on.
LEMMA EnablingIsSteady ==
  ASSUME WorldTypes, ~enabled, Enabling, UNCHANGED <<routing, mailbox, subscriptions, zone>>
  PROVE  WorldTypes' /\ Steadily
<1>1. dmarc' \in Seq(Policy)
  BY AppendProperties DEF WorldTypes, Enabling, Policy
<1> QED
  BY <1>1 DEF WorldTypes, Steadily, Enabling, Reached

\* The records change, under an enabled name.
LEMMA RecordsAreSteady ==
  ASSUME WorldTypes, Improves(dmarc, dmarc'),
         UNCHANGED <<enabled, spf, routing, mailbox, subscriptions, zone>>
  PROVE  WorldTypes' /\ Steadily
<1>1. dmarc' \in Seq(Policy)
  BY ImprovedIsDescribed DEF WorldTypes
<1> QED
  BY <1>1 DEF WorldTypes, Steadily, Reached

\* The subscriptions change.
LEMMA ChannelIsSteady ==
  ASSUME WorldTypes, UNCHANGED <<enabled, dmarc, spf, routing, mailbox, zone>>,
         subscriptions' \in Seq(Subscribable), Reached(subscriptions) => Reached(subscriptions')
  PROVE  WorldTypes' /\ Steadily
BY DEF WorldTypes, Steadily, Improves

\* Whoever moves, the world gets no worse.
LEMMA SteadyStep ==
  ASSUME WorldTypes, ProgramTypes, RecordsRead,
         [SendingNext]_sendingVars
  PROVE  WorldTypes' /\ Steadily
<1>1. CASE provision
  <2>1. Still
    BY <1>1 DEF provision, Still
  <2> QED
    BY <2>1, StillIsSteady
<1>2. CASE stepRegisterDomain
  <2>1. Still
    BY <1>2 DEF stepRegisterDomain, Still
  <2> QED
    BY <2>1, StillIsSteady
<1>3. CASE insertDomain
  BY <1>3 DEF insertDomain, WorldTypes, Steadily, Improves, Reached
<1>4. CASE stepEmailSending
  <2>1. Still
    BY <1>4 DEF stepEmailSending, Still
  <2> QED
    BY <2>1, StillIsSteady
<1>5. CASE createSendingSubdomain
  <2>1. CASE enabled
    <3>1. Still
      BY <1>5, <2>1 DEF createSendingSubdomain, Still
    <3> QED
      BY <3>1, StillIsSteady
  <2>2. CASE ~enabled
    <3>1. Enabling /\ UNCHANGED <<routing, mailbox, subscriptions, zone>>
      BY <1>5, <2>2 DEF createSendingSubdomain
    <3> QED
      BY <2>2, <3>1, EnablingIsSteady
  <2> QED
    BY <2>1, <2>2
<1>6. CASE ensureDmarcRecord
  <2>1. Still
    BY <1>6 DEF ensureDmarcRecord, Still
  <2> QED
    BY <2>1, StillIsSteady
<1>7. CASE deleteDuplicates
  <2>1. /\ UNCHANGED <<enabled, spf, routing, mailbox, subscriptions, zone>>
        /\ dmarc' = dmarc \/ dmarc' = Pruned(read.worker)
    BY <1>7 DEF deleteDuplicates
  <2>2. /\ read.worker \in Seq(Policy) /\ Len(read.worker) > 1
        /\ dmarc \in Seq(Policy) /\ Describes(read.worker, dmarc)
    BY <1>7 DEF deleteDuplicates, WorldTypes, ProgramTypes, RecordsRead
  <2>3. Improves(dmarc, dmarc')
    BY <2>1, <2>2, PruningImproves DEF Improves
  <2> QED
    BY <2>1, <2>3, RecordsAreSteady
<1>8. CASE stepDmarc
  <2>1. /\ UNCHANGED <<enabled, spf, routing, mailbox, subscriptions, zone>>
        /\ \/ dmarc' = dmarc
           \/ read.worker # Ours /\ ~PostRefused(read.worker) /\ dmarc' = Published(read.worker)
    BY <1>8 DEF stepDmarc, Ours
  <2>2. /\ read.worker \in Seq(Policy) /\ Len(read.worker) <= 1
        /\ dmarc \in Seq(Policy) /\ Describes(read.worker, dmarc)
    BY <1>8 DEF stepDmarc, WorldTypes, ProgramTypes, RecordsRead
  <2>3. Improves(dmarc, dmarc')
    BY <2>1, <2>2, PublishingIsOurs DEF Improves
  <2> QED
    BY <2>1, <2>3, RecordsAreSteady
<1>9. CASE stepEmailRouting
  BY <1>9 DEF stepEmailRouting, WorldTypes, Steadily, Improves, Reached
<1>10. CASE stepFeedbackSubscription
  <2>1. Still
    BY <1>10 DEF stepFeedbackSubscription, Still
  <2> QED
    BY <2>1, StillIsSteady
<1>11. CASE createFeedbackSubscription
  <2>1. /\ UNCHANGED <<enabled, dmarc, spf, routing, mailbox, zone>>
        /\ subscriptions' = Append(subscriptions, FullSubscription)
    BY <1>11 DEF createFeedbackSubscription
  <2>2. subscriptions' \in Seq(Subscribable) /\ Reached(subscriptions')
    BY <2>1, SubscribingReaches DEF WorldTypes
  <2> QED
    BY <2>1, <2>2, ChannelIsSteady
<1>12. CASE stepMailbox
  BY <1>12 DEF stepMailbox, WorldTypes, Steadily, Improves, Reached
<1>13. CASE report
  <2>1. Still
    BY <1>13 DEF report, Still
  <2> QED
    BY <2>1, StillIsSteady
<1>14. CASE WorkerDies
  <2>1. Still
    BY <1>14 DEF WorkerDies, Still
  <2> QED
    BY <2>1, StillIsSteady
<1>15. CASE setupSending
  <2>1. Still
    BY <1>15 DEF setupSending, Still
  <2> QED
    BY <2>1, StillIsSteady
<1>16. CASE runIdempotent
  <2>1. CASE enabled
    <3>1. Still
      BY <1>16, <2>1 DEF runIdempotent, Still
    <3> QED
      BY <3>1, StillIsSteady
  <2>2. CASE ~enabled
    <3>1. Enabling /\ UNCHANGED <<routing, mailbox, subscriptions, zone>>
      BY <1>16, <2>2 DEF runIdempotent
    <3> QED
      BY <2>2, <3>1, EnablingIsSteady
  <2> QED
    BY <2>1, <2>2
<1>17. CASE upsertSpf
  BY <1>17 DEF upsertSpf, WorldTypes, Steadily, Improves, Reached
<1>18. CASE listDmarc
  <2>1. Still
    BY <1>18 DEF listDmarc, Still
  <2> QED
    BY <2>1, StillIsSteady
<1>19. CASE removeDuplicates
  <2>1. /\ UNCHANGED <<enabled, spf, routing, mailbox, subscriptions, zone>>
        /\ dmarc' = dmarc \/ dmarc' = Pruned(read.command)
    BY <1>19 DEF removeDuplicates
  <2>2. /\ read.command \in Seq(Policy) /\ Len(read.command) > 1
        /\ dmarc \in Seq(Policy) /\ Describes(read.command, dmarc)
    BY <1>19 DEF removeDuplicates, WorldTypes, ProgramTypes, RecordsRead
  <2>3. Improves(dmarc, dmarc')
    BY <2>1, <2>2, PruningImproves DEF Improves
  <2> QED
    BY <2>1, <2>3, RecordsAreSteady
<1>20. CASE upsertTxtStyleRecord
  <2>1. /\ UNCHANGED <<enabled, spf, routing, mailbox, subscriptions, zone>>
        /\ \/ dmarc' = dmarc
           \/ read.command # Ours /\ ~PostRefused(read.command) /\ dmarc' = Published(read.command)
    BY <1>20 DEF upsertTxtStyleRecord, Ours
  <2>2. /\ read.command \in Seq(Policy) /\ Len(read.command) <= 1
        /\ dmarc \in Seq(Policy) /\ Describes(read.command, dmarc)
    BY <1>20 DEF upsertTxtStyleRecord, WorldTypes, ProgramTypes, RecordsRead
  <2>3. Improves(dmarc, dmarc')
    BY <2>1, <2>2, PublishingIsOurs DEF Improves
  <2> QED
    BY <2>1, <2>3, RecordsAreSteady
<1>21. CASE providerRecords
  <2>1. Still
    BY <1>21 DEF providerRecords, Still
  <2> QED
    BY <2>1, StillIsSteady
<1>22. CASE ensureEventSubscription
  <2>1. Still
    BY <1>22 DEF ensureEventSubscription, Still
  <2> QED
    BY <2>1, StillIsSteady
<1>23. CASE converge
  <2>1. /\ UNCHANGED <<enabled, dmarc, spf, routing, mailbox, zone>>
        /\ \/ subscriptions' = subscriptions
           \/ subscriptions' = Converged(read.command)
    BY <1>23 DEF converge
  <2>2. /\ Converged(read.command) \in Seq(Subscribable)
        /\ Reached(subscriptions) => Reached(Converged(read.command))
    BY SubscribingReaches, WideningReaches DEF WorldTypes, Converged
  <2>3. subscriptions' \in Seq(Subscribable) /\ (Reached(subscriptions) => Reached(subscriptions'))
    BY <2>1, <2>2 DEF WorldTypes
  <2> QED
    BY <2>1, <2>3, ChannelIsSteady
<1>24. CASE recheck
  <2>1. Still
    BY <1>24 DEF recheck, Still
  <2> QED
    BY <2>1, StillIsSteady
<1>25. CASE exit
  <2>1. Still
    BY <1>25 DEF exit, Still
  <2> QED
    BY <2>1, StillIsSteady
<1>26. CASE CommandDies
  <2>1. Still
    BY <1>26 DEF CommandDies, Still
  <2> QED
    BY <2>1, StillIsSteady
<1>27. CASE setupMailbox
  BY <1>27 DEF setupMailbox, WorldTypes, Steadily, Improves, Reached
<1>28. CASE Remedy
  <2>1. /\ UNCHANGED <<enabled, dmarc, spf, routing, mailbox, zone>>
        /\ \/ subscriptions' = subscriptions
           \/ subscriptions' = << >> /\ evaluateFeedbackSubscription(subscriptions).state # "live"
    BY <1>28 DEF Remedy
  <2>2. subscriptions' \in Seq(Subscribable) /\ (Reached(subscriptions) => Reached(subscriptions'))
    BY <2>1, LiveIsReached, EmptySeq DEF WorldTypes
  <2> QED
    BY <2>1, <2>2, ChannelIsSteady
<1>29. CASE UNCHANGED sendingVars
  BY <1>29 DEF sendingVars, WorldTypes, Steadily, Improves, Reached
<1> QED
  BY <1>1, <1>2, <1>3, <1>4, <1>5, <1>6, <1>7, <1>8, <1>9, <1>10, <1>11, <1>12, <1>13, <1>14, <1>15, <1>16, <1>17, <1>18, <1>19, <1>20, <1>21, <1>22, <1>23, <1>24, <1>25, <1>26, <1>27, <1>28, <1>29
     DEF SendingNext, WorkerStep, CommandStep

\* Every step keeps the types of the two programs.
LEMMA TypesStep ==
  ASSUME ProgramTypes, WorldTypes,
         [SendingNext]_sendingVars
  PROVE  ProgramTypes'
<1>1. CASE provision
  BY <1>1 DEF provision, ProgramTypes, WorkerPoints, CommandPoints, ProvisionSteps, Unregistered
<1>2. CASE stepRegisterDomain
  BY <1>2 DEF stepRegisterDomain, ProgramTypes, WorkerPoints, CommandPoints, ProvisionSteps, Unregistered
<1>3. CASE insertDomain
  BY <1>3 DEF insertDomain, ProgramTypes, WorkerPoints, CommandPoints, ProvisionSteps, Unregistered
<1>4. CASE stepEmailSending
  BY <1>4 DEF stepEmailSending, ProgramTypes, WorkerPoints, CommandPoints, ProvisionSteps, Unregistered
<1>5. CASE createSendingSubdomain
  BY <1>5 DEF createSendingSubdomain, ProgramTypes, WorkerPoints, CommandPoints, ProvisionSteps, Unregistered
<1>6. CASE ensureDmarcRecord
  BY <1>6 DEF ensureDmarcRecord, ProgramTypes, WorldTypes, WorkerPoints, ProvisionSteps
<1>7. CASE deleteDuplicates
  <2>1. read.worker \in Seq(Policy) /\ Len(read.worker) > 1
    BY <1>7 DEF deleteDuplicates, ProgramTypes
  <2>2. PICK l : l = SubSeq(read.worker, 1, 1)
    OBVIOUS
  <2>3. l \in Seq(Policy)
    BY <2>1, <2>2, FirstRecord, EmptySeq
  <2>4. read' = read \/ read' = [read EXCEPT !.worker = l]
    BY <1>7, <2>2 DEF deleteDuplicates
  <2>5. read' = [worker |-> read'.worker, command |-> read'.command] /\ read'.worker \in Seq(Policy)
    BY <2>3, <2>4 DEF ProgramTypes
  <2> QED
    BY <1>7, <2>5 DEF deleteDuplicates, ProgramTypes, WorkerPoints, ProvisionSteps
<1>8. CASE stepDmarc
  BY <1>8 DEF stepDmarc, ProgramTypes, WorkerPoints, CommandPoints, ProvisionSteps, Unregistered
<1>9. CASE stepEmailRouting
  BY <1>9 DEF stepEmailRouting, ProgramTypes, WorkerPoints, CommandPoints, ProvisionSteps, Unregistered
<1>10. CASE stepFeedbackSubscription
  BY <1>10 DEF stepFeedbackSubscription, ProgramTypes, WorkerPoints, CommandPoints, ProvisionSteps, Unregistered
<1>11. CASE createFeedbackSubscription
  BY <1>11 DEF createFeedbackSubscription, ProgramTypes, WorkerPoints, CommandPoints, ProvisionSteps, Unregistered
<1>12. CASE stepMailbox
  BY <1>12 DEF stepMailbox, ProgramTypes, WorkerPoints, CommandPoints, ProvisionSteps, Unregistered
<1>13. CASE report
  BY <1>13, EmptySeq DEF report, ProgramTypes, WorkerPoints
<1>14. CASE WorkerDies
  BY <1>14, EmptySeq DEF WorkerDies, ProgramTypes, WorkerPoints
<1>15. CASE setupSending
  BY <1>15 DEF setupSending, ProgramTypes, WorkerPoints, CommandPoints, ProvisionSteps, Unregistered
<1>16. CASE runIdempotent
  BY <1>16 DEF runIdempotent, ProgramTypes, WorkerPoints, CommandPoints, ProvisionSteps, Unregistered
<1>17. CASE upsertSpf
  BY <1>17 DEF upsertSpf, ProgramTypes, WorkerPoints, CommandPoints, ProvisionSteps, Unregistered
<1>18. CASE listDmarc
  BY <1>18 DEF listDmarc, ProgramTypes, WorkerPoints, CommandPoints, ProvisionSteps, Unregistered
<1>19. CASE removeDuplicates
  BY <1>19 DEF removeDuplicates, ProgramTypes, WorkerPoints, CommandPoints, ProvisionSteps, Unregistered
<1>20. CASE upsertTxtStyleRecord
  BY <1>20 DEF upsertTxtStyleRecord, ProgramTypes, WorkerPoints, CommandPoints, ProvisionSteps, Unregistered
<1>21. CASE providerRecords
  BY <1>21 DEF providerRecords, ProgramTypes, WorkerPoints, CommandPoints, ProvisionSteps, Unregistered
<1>22. CASE ensureEventSubscription
  BY <1>22 DEF ensureEventSubscription, ProgramTypes, WorkerPoints, CommandPoints, ProvisionSteps, Unregistered
<1>23. CASE converge
  BY <1>23 DEF converge, ProgramTypes, WorkerPoints, CommandPoints, ProvisionSteps, Unregistered
<1>24. CASE recheck
  BY <1>24 DEF recheck, ProgramTypes, WorkerPoints, CommandPoints, ProvisionSteps, Unregistered
<1>25. CASE exit
  BY <1>25 DEF exit, ProgramTypes, WorkerPoints, CommandPoints, ProvisionSteps, Unregistered
<1>26. CASE CommandDies
  BY <1>26 DEF CommandDies, ProgramTypes, WorkerPoints, CommandPoints, ProvisionSteps, Unregistered
<1>27. CASE setupMailbox
  BY <1>27 DEF setupMailbox, ProgramTypes, WorkerPoints, CommandPoints, ProvisionSteps, Unregistered
<1>28. CASE Remedy
  BY <1>28 DEF Remedy, ProgramTypes, WorkerPoints, CommandPoints, ProvisionSteps, Unregistered
<1>29. CASE UNCHANGED sendingVars
  BY <1>29 DEF sendingVars, ProgramTypes
<1> QED
  BY <1>1, <1>2, <1>3, <1>4, <1>5, <1>6, <1>7, <1>8, <1>9, <1>10, <1>11, <1>12, <1>13, <1>14, <1>15, <1>16, <1>17, <1>18, <1>19, <1>20, <1>21, <1>22, <1>23, <1>24, <1>25, <1>26, <1>27, <1>28, <1>29
     DEF SendingNext, WorkerStep, CommandStep

\* What succeeded stays, in a world that gets no worse.
LEMMA ProvedStays ==
  ASSUME NEW s \in ProvisionSteps, WorldTypes, Steadily, Proved(s)
  PROVE  Proved(s)'
<1>1. dmarc = Ours /\ Improves(dmarc, dmarc') => dmarc' = Ours
  BY ImprovedIsDescribed DEF WorldTypes
<1> QED
  BY <1>1, SendingAssumption DEF Proved, Steadily

LEMMA StepsStay ==
  ASSUME WorldTypes, ProgramTypes, StepsHold, Steadily,
         \A s \in steps'.done : s \in steps.done \/ Proved(s)'
  PROVE  StepsHold'
BY ProvedStays DEF StepsHold, ProgramTypes

\* What the request reports as done was done, and stays.
LEMMA StepsHoldStep ==
  ASSUME ProgramTypes, WorldTypes, RecordsRead, StepsHold, NothingSkipped,
         WorldTypes', Steadily,
         [SendingNext]_sendingVars
  PROVE  StepsHold'
<1>1. CASE provision
  <2>1. \A s \in steps'.done : s \in steps.done
    BY <1>1 DEF provision, ProgramTypes
  <2> QED
    BY <2>1, StepsStay
<1>2. CASE stepRegisterDomain
  <2>1. \A s \in steps'.done : s \in steps.done \/ s = "register"
    BY <1>2 DEF stepRegisterDomain, ProgramTypes
  <2>2. "register" \in steps'.done => "register" \in steps.done \/ Proved("register")'
    BY <1>2 DEF stepRegisterDomain, Proved, ProgramTypes
  <2> QED
    BY <2>1, <2>2, StepsStay
<1>3. CASE insertDomain
  <2>1. \A s \in steps'.done : s \in steps.done \/ s = "register"
    BY <1>3 DEF insertDomain, ProgramTypes
  <2>2. "register" \in steps'.done => "register" \in steps.done \/ Proved("register")'
    BY <1>3 DEF insertDomain, Proved, ProgramTypes
  <2> QED
    BY <2>1, <2>2, StepsStay
<1>4. CASE stepEmailSending
  <2>1. \A s \in steps'.done : s \in steps.done \/ s = "sending"
    BY <1>4 DEF stepEmailSending, ProgramTypes
  <2>2. "sending" \in steps'.done => "sending" \in steps.done \/ Proved("sending")'
    BY <1>4 DEF stepEmailSending, Proved, ProgramTypes
  <2> QED
    BY <2>1, <2>2, StepsStay
<1>5. CASE createSendingSubdomain
  <2>1. \A s \in steps'.done : s \in steps.done \/ s = "sending"
    BY <1>5 DEF createSendingSubdomain, ProgramTypes
  <2>2. "sending" \in steps'.done => "sending" \in steps.done \/ Proved("sending")'
    BY <1>5 DEF createSendingSubdomain, Proved, ProgramTypes, Enabling, NothingSkipped
  <2> QED
    BY <2>1, <2>2, StepsStay
<1>6. CASE ensureDmarcRecord
  <2>1. \A s \in steps'.done : s \in steps.done
    BY <1>6 DEF ensureDmarcRecord, ProgramTypes
  <2> QED
    BY <2>1, StepsStay
<1>7. CASE deleteDuplicates
  <2>1. \A s \in steps'.done : s \in steps.done
    BY <1>7 DEF deleteDuplicates, ProgramTypes
  <2> QED
    BY <2>1, StepsStay
<1>8. CASE stepDmarc
  <2>1. \A s \in steps'.done : s \in steps.done \/ s = "dmarc"
    BY <1>8 DEF stepDmarc, ProgramTypes
  <2>2. /\ read.worker \in Seq(Policy) /\ Len(read.worker) <= 1 /\ enabled
        /\ dmarc \in Seq(Policy) /\ Describes(read.worker, dmarc)
    BY <1>8 DEF stepDmarc, WorldTypes, ProgramTypes, RecordsRead
  <2>3. "dmarc" \in steps'.done \ steps.done =>
          /\ read.worker = Ours => dmarc' = dmarc
          /\ read.worker # Ours => ~PostRefused(read.worker) /\ dmarc' = Published(read.worker)
    BY <1>8 DEF stepDmarc, ProgramTypes, Ours
  <2>4. "dmarc" \in steps'.done \ steps.done => dmarc' = Ours
    BY <2>2, <2>3, PublishingIsOurs, OursIsThere
  <2>5. "dmarc" \in steps'.done => "dmarc" \in steps.done \/ Proved("dmarc")'
    BY <2>2, <2>4 DEF Proved, Steadily
  <2> QED
    BY <2>1, <2>5, StepsStay
<1>9. CASE stepEmailRouting
  <2>1. \A s \in steps'.done : s \in steps.done \/ s = "routing"
    BY <1>9 DEF stepEmailRouting, ProgramTypes
  <2>2. "routing" \in steps'.done => "routing" \in steps.done \/ Proved("routing")'
    BY <1>9 DEF stepEmailRouting, Proved, ProgramTypes
  <2> QED
    BY <2>1, <2>2, StepsStay
<1>10. CASE stepFeedbackSubscription
  <2>1. \A s \in steps'.done : s \in steps.done \/ s = "feedback"
    BY <1>10 DEF stepFeedbackSubscription, ProgramTypes
  <2>2. "feedback" \in steps'.done => "feedback" \in steps.done \/ Proved("feedback")'
    BY <1>10, LiveIsReached DEF stepFeedbackSubscription, Proved, ProgramTypes, WorldTypes, Reached
  <2> QED
    BY <2>1, <2>2, StepsStay
<1>11. CASE createFeedbackSubscription
  <2>1. \A s \in steps'.done : s \in steps.done \/ s = "feedback"
    BY <1>11 DEF createFeedbackSubscription, ProgramTypes
  <2>2. "feedback" \in steps'.done => "feedback" \in steps.done \/ Proved("feedback")'
    BY <1>11, SubscribingReaches DEF createFeedbackSubscription, Proved, ProgramTypes, WorldTypes
  <2> QED
    BY <2>1, <2>2, StepsStay
<1>12. CASE stepMailbox
  <2>1. \A s \in steps'.done : s \in steps.done \/ s = "mailbox"
    BY <1>12 DEF stepMailbox, ProgramTypes
  <2>2. "mailbox" \in steps'.done => "mailbox" \in steps.done \/ Proved("mailbox")'
    BY <1>12 DEF stepMailbox, Proved, ProgramTypes
  <2> QED
    BY <2>1, <2>2, StepsStay
<1>13. CASE report
  <2>1. \A s \in steps'.done : s \in steps.done
    BY <1>13 DEF report, ProgramTypes
  <2> QED
    BY <2>1, StepsStay
<1>14. CASE WorkerDies
  <2>1. \A s \in steps'.done : s \in steps.done
    BY <1>14 DEF WorkerDies, ProgramTypes
  <2> QED
    BY <2>1, StepsStay
<1>15. CASE setupSending
  <2>1. \A s \in steps'.done : s \in steps.done
    BY <1>15 DEF setupSending, ProgramTypes
  <2> QED
    BY <2>1, StepsStay
<1>16. CASE runIdempotent
  <2>1. \A s \in steps'.done : s \in steps.done
    BY <1>16 DEF runIdempotent, ProgramTypes
  <2> QED
    BY <2>1, StepsStay
<1>17. CASE upsertSpf
  <2>1. \A s \in steps'.done : s \in steps.done
    BY <1>17 DEF upsertSpf, ProgramTypes
  <2> QED
    BY <2>1, StepsStay
<1>18. CASE listDmarc
  <2>1. \A s \in steps'.done : s \in steps.done
    BY <1>18 DEF listDmarc, ProgramTypes
  <2> QED
    BY <2>1, StepsStay
<1>19. CASE removeDuplicates
  <2>1. \A s \in steps'.done : s \in steps.done
    BY <1>19 DEF removeDuplicates, ProgramTypes
  <2> QED
    BY <2>1, StepsStay
<1>20. CASE upsertTxtStyleRecord
  <2>1. \A s \in steps'.done : s \in steps.done
    BY <1>20 DEF upsertTxtStyleRecord, ProgramTypes
  <2> QED
    BY <2>1, StepsStay
<1>21. CASE providerRecords
  <2>1. \A s \in steps'.done : s \in steps.done
    BY <1>21 DEF providerRecords, ProgramTypes
  <2> QED
    BY <2>1, StepsStay
<1>22. CASE ensureEventSubscription
  <2>1. \A s \in steps'.done : s \in steps.done
    BY <1>22 DEF ensureEventSubscription, ProgramTypes
  <2> QED
    BY <2>1, StepsStay
<1>23. CASE converge
  <2>1. \A s \in steps'.done : s \in steps.done
    BY <1>23 DEF converge, ProgramTypes
  <2> QED
    BY <2>1, StepsStay
<1>24. CASE recheck
  <2>1. \A s \in steps'.done : s \in steps.done
    BY <1>24 DEF recheck, ProgramTypes
  <2> QED
    BY <2>1, StepsStay
<1>25. CASE exit
  <2>1. \A s \in steps'.done : s \in steps.done
    BY <1>25 DEF exit, ProgramTypes
  <2> QED
    BY <2>1, StepsStay
<1>26. CASE CommandDies
  <2>1. \A s \in steps'.done : s \in steps.done
    BY <1>26 DEF CommandDies, ProgramTypes
  <2> QED
    BY <2>1, StepsStay
<1>27. CASE setupMailbox
  <2>1. \A s \in steps'.done : s \in steps.done
    BY <1>27 DEF setupMailbox, ProgramTypes
  <2> QED
    BY <2>1, StepsStay
<1>28. CASE Remedy
  <2>1. \A s \in steps'.done : s \in steps.done
    BY <1>28 DEF Remedy, ProgramTypes
  <2> QED
    BY <2>1, StepsStay
<1>29. CASE UNCHANGED sendingVars
  BY <1>29 DEF sendingVars, StepsHold, Proved, Reached
<1> QED
  BY <1>1, <1>2, <1>3, <1>4, <1>5, <1>6, <1>7, <1>8, <1>9, <1>10, <1>11, <1>12, <1>13, <1>14, <1>15, <1>16, <1>17, <1>18, <1>19, <1>20, <1>21, <1>22, <1>23, <1>24, <1>25, <1>26, <1>27, <1>28, <1>29
     DEF SendingNext, WorkerStep, CommandStep

\* A list that was read before goes on describing the records.
LEMMA RecordsStay ==
  ASSUME WorldTypes, ProgramTypes, RecordsRead, Steadily,
         at'.worker = "policy" => at.worker = "policy" /\ read'.worker = read.worker,
         at'.command = "policy" => at.command = "policy" /\ read'.command = read.command
  PROVE  RecordsRead'
<1>1. \A l \in Seq(Policy) : enabled /\ Describes(l, dmarc) => Describes(l, dmarc')
  BY ImprovedIsDescribed DEF WorldTypes, Steadily
<1>2. at'.worker = "policy" => enabled' /\ Describes(read'.worker, dmarc')
  BY <1>1 DEF ProgramTypes, RecordsRead, Steadily
<1>3. at'.command = "policy" =>
        enabled' /\ read'.command \in Seq(Policy) /\ Describes(read'.command, dmarc')
  BY <1>1 DEF ProgramTypes, RecordsRead, Steadily
<1> QED
  BY <1>2, <1>3 DEF RecordsRead

\* What either read of the records describes them after any step.
LEMMA RecordsStep ==
  ASSUME ProgramTypes, WorldTypes, RecordsRead, StepsHold, NothingSkipped, CommandHolds,
         WorldTypes', Steadily,
         [SendingNext]_sendingVars
  PROVE  RecordsRead'
<1>1. CASE provision
  <2>1. /\ at'.worker = "policy" => at.worker = "policy" /\ read'.worker = read.worker
        /\ at'.command = "policy" => at.command = "policy" /\ read'.command = read.command
    BY <1>1 DEF provision, ProgramTypes
  <2> QED
    BY <2>1, RecordsStay
<1>2. CASE stepRegisterDomain
  <2>1. /\ at'.worker = "policy" => at.worker = "policy" /\ read'.worker = read.worker
        /\ at'.command = "policy" => at.command = "policy" /\ read'.command = read.command
    BY <1>2 DEF stepRegisterDomain, ProgramTypes
  <2> QED
    BY <2>1, RecordsStay
<1>3. CASE insertDomain
  <2>1. /\ at'.worker = "policy" => at.worker = "policy" /\ read'.worker = read.worker
        /\ at'.command = "policy" => at.command = "policy" /\ read'.command = read.command
    BY <1>3 DEF insertDomain, ProgramTypes
  <2> QED
    BY <2>1, RecordsStay
<1>4. CASE stepEmailSending
  <2>1. /\ at'.worker = "policy" => at.worker = "policy" /\ read'.worker = read.worker
        /\ at'.command = "policy" => at.command = "policy" /\ read'.command = read.command
    BY <1>4 DEF stepEmailSending, ProgramTypes
  <2> QED
    BY <2>1, RecordsStay
<1>5. CASE createSendingSubdomain
  <2>1. /\ at'.worker = "policy" => at.worker = "policy" /\ read'.worker = read.worker
        /\ at'.command = "policy" => at.command = "policy" /\ read'.command = read.command
    BY <1>5 DEF createSendingSubdomain, ProgramTypes
  <2> QED
    BY <2>1, RecordsStay
<1>6. CASE ensureDmarcRecord
  <2>1. /\ at'.command = "policy" => at.command = "policy" /\ read'.command = read.command
        /\ at'.worker = "policy" => read'.worker = dmarc
        /\ dmarc' = dmarc /\ enabled' = enabled /\ enabled
    BY <1>6 DEF ensureDmarcRecord, ProgramTypes, NothingSkipped, CommandHolds, StepsHold, Proved
  <2>2. dmarc \in Seq(Policy) /\ Describes(dmarc, dmarc)
    BY ReadDescribes DEF WorldTypes
  <2> QED
    BY <2>1, <2>2 DEF RecordsRead
<1>7. CASE deleteDuplicates
  <2>1. /\ at'.command = "policy" => at.command = "policy" /\ read'.command = read.command
        /\ at.worker = "policy" /\ enabled' = enabled
        /\ at'.worker = "policy" =>
             dmarc' = Pruned(read.worker) /\ read'.worker = SubSeq(read.worker, 1, 1)
    BY <1>7 DEF deleteDuplicates, ProgramTypes
  <2>2. /\ read.worker \in Seq(Policy) /\ Len(read.worker) > 1 /\ enabled
        /\ dmarc \in Seq(Policy) /\ Describes(read.worker, dmarc)
    BY <1>7 DEF deleteDuplicates, WorldTypes, ProgramTypes, RecordsRead
  <2>3. at'.worker = "policy" => read'.worker \in Seq(Policy) /\ Describes(read'.worker, dmarc')
    BY <2>1, <2>2, PruningImproves
  <2>4. at'.command = "policy" =>
          enabled' /\ read'.command \in Seq(Policy) /\ Describes(read'.command, dmarc')
    <3>1. \A l \in Seq(Policy) : Describes(l, dmarc) => Describes(l, dmarc')
      BY <2>2, ImprovedIsDescribed DEF Steadily
    <3> QED
      BY <2>1, <3>1 DEF ProgramTypes, RecordsRead
  <2> QED
    BY <2>1, <2>2, <2>3, <2>4 DEF RecordsRead
<1>8. CASE stepDmarc
  <2>1. /\ at'.worker = "policy" => at.worker = "policy" /\ read'.worker = read.worker
        /\ at'.command = "policy" => at.command = "policy" /\ read'.command = read.command
    BY <1>8 DEF stepDmarc, ProgramTypes
  <2> QED
    BY <2>1, RecordsStay
<1>9. CASE stepEmailRouting
  <2>1. /\ at'.worker = "policy" => at.worker = "policy" /\ read'.worker = read.worker
        /\ at'.command = "policy" => at.command = "policy" /\ read'.command = read.command
    BY <1>9 DEF stepEmailRouting, ProgramTypes
  <2> QED
    BY <2>1, RecordsStay
<1>10. CASE stepFeedbackSubscription
  <2>1. /\ at'.worker = "policy" => at.worker = "policy" /\ read'.worker = read.worker
        /\ at'.command = "policy" => at.command = "policy" /\ read'.command = read.command
    BY <1>10 DEF stepFeedbackSubscription, ProgramTypes
  <2> QED
    BY <2>1, RecordsStay
<1>11. CASE createFeedbackSubscription
  <2>1. /\ at'.worker = "policy" => at.worker = "policy" /\ read'.worker = read.worker
        /\ at'.command = "policy" => at.command = "policy" /\ read'.command = read.command
    BY <1>11 DEF createFeedbackSubscription, ProgramTypes
  <2> QED
    BY <2>1, RecordsStay
<1>12. CASE stepMailbox
  <2>1. /\ at'.worker = "policy" => at.worker = "policy" /\ read'.worker = read.worker
        /\ at'.command = "policy" => at.command = "policy" /\ read'.command = read.command
    BY <1>12 DEF stepMailbox, ProgramTypes
  <2> QED
    BY <2>1, RecordsStay
<1>13. CASE report
  <2>1. /\ at'.worker = "policy" => at.worker = "policy" /\ read'.worker = read.worker
        /\ at'.command = "policy" => at.command = "policy" /\ read'.command = read.command
    BY <1>13 DEF report, ProgramTypes
  <2> QED
    BY <2>1, RecordsStay
<1>14. CASE WorkerDies
  <2>1. /\ at'.worker = "policy" => at.worker = "policy" /\ read'.worker = read.worker
        /\ at'.command = "policy" => at.command = "policy" /\ read'.command = read.command
    BY <1>14 DEF WorkerDies, ProgramTypes
  <2> QED
    BY <2>1, RecordsStay
<1>15. CASE setupSending
  <2>1. /\ at'.worker = "policy" => at.worker = "policy" /\ read'.worker = read.worker
        /\ at'.command = "policy" => at.command = "policy" /\ read'.command = read.command
    BY <1>15 DEF setupSending, ProgramTypes
  <2> QED
    BY <2>1, RecordsStay
<1>16. CASE runIdempotent
  <2>1. /\ at'.worker = "policy" => at.worker = "policy" /\ read'.worker = read.worker
        /\ at'.command = "policy" => at.command = "policy" /\ read'.command = read.command
    BY <1>16 DEF runIdempotent, ProgramTypes
  <2> QED
    BY <2>1, RecordsStay
<1>17. CASE upsertSpf
  <2>1. /\ at'.worker = "policy" => at.worker = "policy" /\ read'.worker = read.worker
        /\ at'.command = "policy" => at.command = "policy" /\ read'.command = read.command
    BY <1>17 DEF upsertSpf, ProgramTypes
  <2> QED
    BY <2>1, RecordsStay
<1>18. CASE listDmarc
  <2>1. /\ at'.worker = "policy" => at.worker = "policy" /\ read'.worker = read.worker
        /\ at'.command = "policy" => read'.command = dmarc
        /\ dmarc' = dmarc /\ enabled' = enabled /\ enabled
    BY <1>18 DEF listDmarc, ProgramTypes, NothingSkipped, CommandHolds, StepsHold, Proved
  <2>2. dmarc \in Seq(Policy) /\ Describes(dmarc, dmarc)
    BY ReadDescribes DEF WorldTypes
  <2> QED
    BY <2>1, <2>2 DEF RecordsRead
<1>19. CASE removeDuplicates
  <2>1. /\ at'.worker = "policy" => at.worker = "policy" /\ read'.worker = read.worker
        /\ at.command = "policy" /\ enabled' = enabled
        /\ at'.command = "policy" =>
             dmarc' = Pruned(read.command) /\ read'.command = SubSeq(read.command, 1, 1)
    BY <1>19 DEF removeDuplicates, ProgramTypes
  <2>2. /\ read.command \in Seq(Policy) /\ Len(read.command) > 1 /\ enabled
        /\ dmarc \in Seq(Policy) /\ Describes(read.command, dmarc)
    BY <1>19 DEF removeDuplicates, WorldTypes, ProgramTypes, RecordsRead
  <2>3. at'.command = "policy" => read'.command \in Seq(Policy) /\ Describes(read'.command, dmarc')
    BY <2>1, <2>2, PruningImproves
  <2>4. at'.worker = "policy" =>
          enabled' /\ read'.worker \in Seq(Policy) /\ Describes(read'.worker, dmarc')
    <3>1. \A l \in Seq(Policy) : Describes(l, dmarc) => Describes(l, dmarc')
      BY <2>2, ImprovedIsDescribed DEF Steadily
    <3> QED
      BY <2>1, <3>1 DEF ProgramTypes, RecordsRead
  <2> QED
    BY <2>1, <2>2, <2>3, <2>4 DEF RecordsRead
<1>20. CASE upsertTxtStyleRecord
  <2>1. /\ at'.worker = "policy" => at.worker = "policy" /\ read'.worker = read.worker
        /\ at'.command = "policy" => at.command = "policy" /\ read'.command = read.command
    BY <1>20 DEF upsertTxtStyleRecord, ProgramTypes
  <2> QED
    BY <2>1, RecordsStay
<1>21. CASE providerRecords
  <2>1. /\ at'.worker = "policy" => at.worker = "policy" /\ read'.worker = read.worker
        /\ at'.command = "policy" => at.command = "policy" /\ read'.command = read.command
    BY <1>21 DEF providerRecords, ProgramTypes
  <2> QED
    BY <2>1, RecordsStay
<1>22. CASE ensureEventSubscription
  <2>1. /\ at'.worker = "policy" => at.worker = "policy" /\ read'.worker = read.worker
        /\ at'.command = "policy" => at.command = "policy" /\ read'.command = read.command
    BY <1>22 DEF ensureEventSubscription, ProgramTypes
  <2> QED
    BY <2>1, RecordsStay
<1>23. CASE converge
  <2>1. /\ at'.worker = "policy" => at.worker = "policy" /\ read'.worker = read.worker
        /\ at'.command = "policy" => at.command = "policy" /\ read'.command = read.command
    BY <1>23 DEF converge, ProgramTypes
  <2> QED
    BY <2>1, RecordsStay
<1>24. CASE recheck
  <2>1. /\ at'.worker = "policy" => at.worker = "policy" /\ read'.worker = read.worker
        /\ at'.command = "policy" => at.command = "policy" /\ read'.command = read.command
    BY <1>24 DEF recheck, ProgramTypes
  <2> QED
    BY <2>1, RecordsStay
<1>25. CASE exit
  <2>1. /\ at'.worker = "policy" => at.worker = "policy" /\ read'.worker = read.worker
        /\ at'.command = "policy" => at.command = "policy" /\ read'.command = read.command
    BY <1>25 DEF exit, ProgramTypes
  <2> QED
    BY <2>1, RecordsStay
<1>26. CASE CommandDies
  <2>1. /\ at'.worker = "policy" => at.worker = "policy" /\ read'.worker = read.worker
        /\ at'.command = "policy" => at.command = "policy" /\ read'.command = read.command
    BY <1>26 DEF CommandDies, ProgramTypes
  <2> QED
    BY <2>1, RecordsStay
<1>27. CASE setupMailbox
  <2>1. /\ at'.worker = "policy" => at.worker = "policy" /\ read'.worker = read.worker
        /\ at'.command = "policy" => at.command = "policy" /\ read'.command = read.command
    BY <1>27 DEF setupMailbox, ProgramTypes
  <2> QED
    BY <2>1, RecordsStay
<1>28. CASE Remedy
  <2>1. /\ at'.worker = "policy" => at.worker = "policy" /\ read'.worker = read.worker
        /\ at'.command = "policy" => at.command = "policy" /\ read'.command = read.command
    BY <1>28 DEF Remedy, ProgramTypes
  <2> QED
    BY <2>1, RecordsStay
<1>29. CASE UNCHANGED sendingVars
  BY <1>29 DEF sendingVars, RecordsRead, Describes
<1> QED
  BY <1>1, <1>2, <1>3, <1>4, <1>5, <1>6, <1>7, <1>8, <1>9, <1>10, <1>11, <1>12, <1>13, <1>14, <1>15, <1>16, <1>17, <1>18, <1>19, <1>20, <1>21, <1>22, <1>23, <1>24, <1>25, <1>26, <1>27, <1>28, <1>29
     DEF SendingNext, WorkerStep, CommandStep

\* The request leaves no step out.
LEMMA NothingSkippedStep ==
  ASSUME ProgramTypes, WorldTypes, RecordsRead, StepsHold, NothingSkipped, WorldTypes', Steadily,
         [SendingNext]_sendingVars
  PROVE  NothingSkipped'
<1>1. CASE provision
  BY <1>1 DEF provision, ProgramTypes, NothingSkipped, Behind, Unregistered, StepsHold, Proved
<1>2. CASE stepRegisterDomain
  BY <1>2 DEF stepRegisterDomain, ProgramTypes, NothingSkipped, Behind, Unregistered, StepsHold, Proved
<1>3. CASE insertDomain
  <2>1. \/ at'.worker = "sending"
        \/ at'.worker = "report" /\ "register" \in steps'.failed
    BY <1>3 DEF insertDomain, ProgramTypes, Unregistered
  <2> QED
    BY <2>1 DEF NothingSkipped
<1>4. CASE stepEmailSending
  BY <1>4 DEF stepEmailSending, ProgramTypes, NothingSkipped, Behind, Unregistered, StepsHold, Proved
<1>5. CASE createSendingSubdomain
  BY <1>5 DEF createSendingSubdomain, ProgramTypes, NothingSkipped, Behind, Unregistered, StepsHold, Proved
<1>6. CASE ensureDmarcRecord
  BY <1>6 DEF ensureDmarcRecord, ProgramTypes, NothingSkipped, Behind, Unregistered, StepsHold, Proved
<1>7. CASE deleteDuplicates
  BY <1>7 DEF deleteDuplicates, ProgramTypes, NothingSkipped, Behind, Unregistered, StepsHold, Proved
<1>8. CASE stepDmarc
  BY <1>8 DEF stepDmarc, ProgramTypes, NothingSkipped, Behind, Unregistered, StepsHold, Proved
<1>9. CASE stepEmailRouting
  BY <1>9 DEF stepEmailRouting, ProgramTypes, NothingSkipped, Behind, Unregistered, StepsHold, Proved
<1>10. CASE stepFeedbackSubscription
  BY <1>10 DEF stepFeedbackSubscription, ProgramTypes, NothingSkipped, Behind, Unregistered, StepsHold, Proved
<1>11. CASE createFeedbackSubscription
  BY <1>11 DEF createFeedbackSubscription, ProgramTypes, NothingSkipped, Behind, Unregistered, StepsHold, Proved
<1>12. CASE stepMailbox
  BY <1>12 DEF stepMailbox, ProgramTypes, NothingSkipped, Behind, Unregistered, StepsHold, Proved
<1>13. CASE report
  BY <1>13 DEF report, ProgramTypes, NothingSkipped, Behind, Unregistered, StepsHold, Proved
<1>14. CASE WorkerDies
  BY <1>14 DEF WorkerDies, ProgramTypes, NothingSkipped, Behind, Unregistered, StepsHold, Proved
<1>15. CASE setupSending
  <2>1. at'.worker = at.worker /\ steps' = steps
    BY <1>15 DEF setupSending, ProgramTypes
  <2> QED
    BY <2>1, SendingAssumption DEF NothingSkipped, Behind, Steadily
<1>16. CASE runIdempotent
  <2>1. at'.worker = at.worker /\ steps' = steps
    BY <1>16 DEF runIdempotent, ProgramTypes
  <2> QED
    BY <2>1, SendingAssumption DEF NothingSkipped, Behind, Steadily
<1>17. CASE upsertSpf
  <2>1. at'.worker = at.worker /\ steps' = steps
    BY <1>17 DEF upsertSpf, ProgramTypes
  <2> QED
    BY <2>1, SendingAssumption DEF NothingSkipped, Behind, Steadily
<1>18. CASE listDmarc
  <2>1. at'.worker = at.worker /\ steps' = steps
    BY <1>18 DEF listDmarc, ProgramTypes
  <2> QED
    BY <2>1, SendingAssumption DEF NothingSkipped, Behind, Steadily
<1>19. CASE removeDuplicates
  <2>1. at'.worker = at.worker /\ steps' = steps
    BY <1>19 DEF removeDuplicates, ProgramTypes
  <2> QED
    BY <2>1, SendingAssumption DEF NothingSkipped, Behind, Steadily
<1>20. CASE upsertTxtStyleRecord
  <2>1. at'.worker = at.worker /\ steps' = steps
    BY <1>20 DEF upsertTxtStyleRecord, ProgramTypes
  <2> QED
    BY <2>1, SendingAssumption DEF NothingSkipped, Behind, Steadily
<1>21. CASE providerRecords
  <2>1. at'.worker = at.worker /\ steps' = steps
    BY <1>21 DEF providerRecords, ProgramTypes
  <2> QED
    BY <2>1, SendingAssumption DEF NothingSkipped, Behind, Steadily
<1>22. CASE ensureEventSubscription
  <2>1. at'.worker = at.worker /\ steps' = steps
    BY <1>22 DEF ensureEventSubscription, ProgramTypes
  <2> QED
    BY <2>1, SendingAssumption DEF NothingSkipped, Behind, Steadily
<1>23. CASE converge
  <2>1. at'.worker = at.worker /\ steps' = steps
    BY <1>23 DEF converge, ProgramTypes
  <2> QED
    BY <2>1, SendingAssumption DEF NothingSkipped, Behind, Steadily
<1>24. CASE recheck
  <2>1. at'.worker = at.worker /\ steps' = steps
    BY <1>24 DEF recheck, ProgramTypes
  <2> QED
    BY <2>1, SendingAssumption DEF NothingSkipped, Behind, Steadily
<1>25. CASE exit
  <2>1. at'.worker = at.worker /\ steps' = steps
    BY <1>25 DEF exit, ProgramTypes
  <2> QED
    BY <2>1, SendingAssumption DEF NothingSkipped, Behind, Steadily
<1>26. CASE CommandDies
  <2>1. at'.worker = at.worker /\ steps' = steps
    BY <1>26 DEF CommandDies, ProgramTypes
  <2> QED
    BY <2>1, SendingAssumption DEF NothingSkipped, Behind, Steadily
<1>27. CASE setupMailbox
  <2>1. at'.worker = at.worker /\ steps' = steps
    BY <1>27 DEF setupMailbox, ProgramTypes
  <2> QED
    BY <2>1, SendingAssumption DEF NothingSkipped, Behind, Steadily
<1>28. CASE Remedy
  <2>1. at'.worker = at.worker /\ steps' = steps
    BY <1>28 DEF Remedy, ProgramTypes
  <2> QED
    BY <2>1, SendingAssumption DEF NothingSkipped, Behind, Steadily
<1>29. CASE UNCHANGED sendingVars
  BY <1>29 DEF sendingVars, NothingSkipped, Behind
<1> QED
  BY <1>1, <1>2, <1>3, <1>4, <1>5, <1>6, <1>7, <1>8, <1>9, <1>10, <1>11, <1>12, <1>13, <1>14, <1>15, <1>16, <1>17, <1>18, <1>19, <1>20, <1>21, <1>22, <1>23, <1>24, <1>25, <1>26, <1>27, <1>28, <1>29
     DEF SendingNext, WorkerStep, CommandStep

\* A command that stands still has come as far.
LEMMA CommandStays ==
  ASSUME WorldTypes, ProgramTypes, CommandHolds, Steadily,
         at'.command = "idle" \/ (at'.command = at.command /\ read'.command = read.command)
  PROVE  CommandHolds'
<1>1. dmarc = Ours /\ Improves(dmarc, dmarc') => dmarc' = Ours
  BY ImprovedIsDescribed DEF WorldTypes
<1> QED
  BY <1>1 DEF CommandHolds, Steadily, Reached

\* What the command has passed stays behind it.
LEMMA CommandHoldsStep ==
  ASSUME ProgramTypes, WorldTypes, RecordsRead, CommandHolds, WorldTypes', Steadily,
         [SendingNext]_sendingVars
  PROVE  CommandHolds'
<1>1. CASE provision
  <2>1. at'.command = "idle" \/ (at'.command = at.command /\ read'.command = read.command)
    BY <1>1 DEF provision, ProgramTypes
  <2> QED
    BY <2>1, CommandStays
<1>2. CASE stepRegisterDomain
  <2>1. at'.command = "idle" \/ (at'.command = at.command /\ read'.command = read.command)
    BY <1>2 DEF stepRegisterDomain, ProgramTypes
  <2> QED
    BY <2>1, CommandStays
<1>3. CASE insertDomain
  <2>1. at'.command = "idle" \/ (at'.command = at.command /\ read'.command = read.command)
    BY <1>3 DEF insertDomain, ProgramTypes
  <2> QED
    BY <2>1, CommandStays
<1>4. CASE stepEmailSending
  <2>1. at'.command = "idle" \/ (at'.command = at.command /\ read'.command = read.command)
    BY <1>4 DEF stepEmailSending, ProgramTypes
  <2> QED
    BY <2>1, CommandStays
<1>5. CASE createSendingSubdomain
  <2>1. at'.command = "idle" \/ (at'.command = at.command /\ read'.command = read.command)
    BY <1>5 DEF createSendingSubdomain, ProgramTypes
  <2> QED
    BY <2>1, CommandStays
<1>6. CASE ensureDmarcRecord
  <2>1. at'.command = "idle" \/ (at'.command = at.command /\ read'.command = read.command)
    BY <1>6 DEF ensureDmarcRecord, ProgramTypes
  <2> QED
    BY <2>1, CommandStays
<1>7. CASE deleteDuplicates
  <2>1. at'.command = "idle" \/ (at'.command = at.command /\ read'.command = read.command)
    BY <1>7 DEF deleteDuplicates, ProgramTypes
  <2> QED
    BY <2>1, CommandStays
<1>8. CASE stepDmarc
  <2>1. at'.command = "idle" \/ (at'.command = at.command /\ read'.command = read.command)
    BY <1>8 DEF stepDmarc, ProgramTypes
  <2> QED
    BY <2>1, CommandStays
<1>9. CASE stepEmailRouting
  <2>1. at'.command = "idle" \/ (at'.command = at.command /\ read'.command = read.command)
    BY <1>9 DEF stepEmailRouting, ProgramTypes
  <2> QED
    BY <2>1, CommandStays
<1>10. CASE stepFeedbackSubscription
  <2>1. at'.command = "idle" \/ (at'.command = at.command /\ read'.command = read.command)
    BY <1>10 DEF stepFeedbackSubscription, ProgramTypes
  <2> QED
    BY <2>1, CommandStays
<1>11. CASE createFeedbackSubscription
  <2>1. at'.command = "idle" \/ (at'.command = at.command /\ read'.command = read.command)
    BY <1>11 DEF createFeedbackSubscription, ProgramTypes
  <2> QED
    BY <2>1, CommandStays
<1>12. CASE stepMailbox
  <2>1. at'.command = "idle" \/ (at'.command = at.command /\ read'.command = read.command)
    BY <1>12 DEF stepMailbox, ProgramTypes
  <2> QED
    BY <2>1, CommandStays
<1>13. CASE report
  <2>1. at'.command = "idle" \/ (at'.command = at.command /\ read'.command = read.command)
    BY <1>13 DEF report, ProgramTypes
  <2> QED
    BY <2>1, CommandStays
<1>14. CASE WorkerDies
  <2>1. at'.command = "idle" \/ (at'.command = at.command /\ read'.command = read.command)
    BY <1>14 DEF WorkerDies, ProgramTypes
  <2> QED
    BY <2>1, CommandStays
<1>15. CASE setupSending
  BY <1>15 DEF setupSending, ProgramTypes, CommandHolds
<1>16. CASE runIdempotent
  BY <1>16 DEF runIdempotent, ProgramTypes, CommandHolds, Enabling
<1>17. CASE upsertSpf
  BY <1>17 DEF upsertSpf, ProgramTypes, CommandHolds
<1>18. CASE listDmarc
  BY <1>18 DEF listDmarc, ProgramTypes, CommandHolds
<1>19. CASE removeDuplicates
  <2>1. /\ at'.command \in {"idle", "policy"} /\ at.command = "policy"
        /\ enabled' = enabled /\ spf' = spf
    BY <1>19 DEF removeDuplicates, ProgramTypes
  <2> QED
    BY <2>1 DEF CommandHolds
<1>20. CASE upsertTxtStyleRecord
  <2>1. /\ at'.command \in {"idle", "records"} /\ at.command = "policy"
        /\ enabled' = enabled /\ spf' = spf
        /\ at'.command = "records" =>
             /\ read.command = Ours => dmarc' = dmarc
             /\ read.command # Ours => ~PostRefused(read.command) /\ dmarc' = Published(read.command)
    BY <1>20 DEF upsertTxtStyleRecord, ProgramTypes, Ours
  <2>2. /\ read.command \in Seq(Policy) /\ Len(read.command) <= 1
        /\ dmarc \in Seq(Policy) /\ Describes(read.command, dmarc)
    BY <1>20 DEF upsertTxtStyleRecord, WorldTypes, ProgramTypes, RecordsRead
  <2>3. at'.command = "records" => dmarc' = Ours
    BY <2>1, <2>2, PublishingIsOurs, OursIsThere
  <2> QED
    BY <2>1, <2>3 DEF CommandHolds
<1>21. CASE providerRecords
  BY <1>21 DEF providerRecords, ProgramTypes, CommandHolds
<1>22. CASE ensureEventSubscription
  <2>1. /\ at.command = "feedback" /\ UNCHANGED <<enabled, dmarc, spf, subscriptions>>
        /\ read'.command = subscriptions /\ at'.command \in {"exit", "converge"}
        /\ at'.command = "converge" => evaluateFeedbackSubscription(subscriptions).state # "live"
    BY <1>22 DEF ensureEventSubscription, ProgramTypes
  <2>2. at'.command = "converge" => ~Reached(subscriptions)
    BY <2>1, LiveIsReached DEF WorldTypes
  <2>3. subscriptions \in Seq(Subscribable)
    BY DEF WorldTypes
  <2> QED
    BY <2>1, <2>2, <2>3 DEF CommandHolds
<1>23. CASE converge
  <2>1. /\ at.command = "converge" /\ at'.command \in {"recheck", "exit"}
        /\ UNCHANGED <<enabled, dmarc, spf>> /\ read' = read
    BY <1>23 DEF converge, ProgramTypes
  <2> QED
    BY <2>1 DEF CommandHolds
<1>24. CASE recheck
  <2>1. /\ at.command = "recheck" /\ UNCHANGED <<enabled, dmarc, spf, subscriptions>>
        /\ read'.command = subscriptions /\ at'.command = "exit"
    BY <1>24 DEF recheck, ProgramTypes
  <2>2. subscriptions \in Seq(Subscribable)
    BY DEF WorldTypes
  <2> QED
    BY <2>1, <2>2 DEF CommandHolds
<1>25. CASE exit
  <2>1. at'.command = "idle" \/ (at'.command = at.command /\ read'.command = read.command)
    BY <1>25 DEF exit, ProgramTypes
  <2> QED
    BY <2>1, CommandStays
<1>26. CASE CommandDies
  <2>1. at'.command = "idle" \/ (at'.command = at.command /\ read'.command = read.command)
    BY <1>26 DEF CommandDies, ProgramTypes
  <2> QED
    BY <2>1, CommandStays
<1>27. CASE setupMailbox
  <2>1. at'.command = "idle" \/ (at'.command = at.command /\ read'.command = read.command)
    BY <1>27 DEF setupMailbox, ProgramTypes
  <2> QED
    BY <2>1, CommandStays
<1>28. CASE Remedy
  <2>1. at'.command = "idle" \/ (at'.command = at.command /\ read'.command = read.command)
    BY <1>28 DEF Remedy, ProgramTypes
  <2> QED
    BY <2>1, CommandStays
<1>29. CASE UNCHANGED sendingVars
  BY <1>29 DEF sendingVars, CommandHolds, Reached
<1> QED
  BY <1>1, <1>2, <1>3, <1>4, <1>5, <1>6, <1>7, <1>8, <1>9, <1>10, <1>11, <1>12, <1>13, <1>14, <1>15, <1>16, <1>17, <1>18, <1>19, <1>20, <1>21, <1>22, <1>23, <1>24, <1>25, <1>26, <1>27, <1>28, <1>29
     DEF SendingNext, WorkerStep, CommandStep

\* An answer that was given stays true.
LEMMA AnswersStay ==
  ASSUME WorldTypes, AnswersHold, Steadily,
         claim'.worker = "complete" => claim.worker = "complete",
         claim'.command = "verified" => claim.command = "verified"
  PROVE  AnswersHold'
<1>1. dmarc = Ours /\ Improves(dmarc, dmarc') => dmarc' = Ours
  BY ImprovedIsDescribed DEF WorldTypes
<1> QED
  BY <1>1, SendingAssumption DEF AnswersHold, Steadily

\* An answer is true when it is given.
LEMMA AnswersStep ==
  ASSUME ProgramTypes, WorldTypes, StepsHold, NothingSkipped, CommandHolds, AnswersHold,
         WorldTypes', Steadily,
         [SendingNext]_sendingVars
  PROVE  AnswersHold'
<1>1. CASE provision
  <2>1. /\ claim'.worker = "complete" => claim.worker = "complete"
        /\ claim'.command = "verified" => claim.command = "verified"
    BY <1>1 DEF provision, ProgramTypes
  <2> QED
    BY <2>1, AnswersStay
<1>2. CASE stepRegisterDomain
  <2>1. /\ claim'.worker = "complete" => claim.worker = "complete"
        /\ claim'.command = "verified" => claim.command = "verified"
    BY <1>2 DEF stepRegisterDomain, ProgramTypes
  <2> QED
    BY <2>1, AnswersStay
<1>3. CASE insertDomain
  <2>1. /\ claim'.worker = "complete" => claim.worker = "complete"
        /\ claim'.command = "verified" => claim.command = "verified"
    BY <1>3 DEF insertDomain, ProgramTypes
  <2> QED
    BY <2>1, AnswersStay
<1>4. CASE stepEmailSending
  <2>1. /\ claim'.worker = "complete" => claim.worker = "complete"
        /\ claim'.command = "verified" => claim.command = "verified"
    BY <1>4 DEF stepEmailSending, ProgramTypes
  <2> QED
    BY <2>1, AnswersStay
<1>5. CASE createSendingSubdomain
  <2>1. /\ claim'.worker = "complete" => claim.worker = "complete"
        /\ claim'.command = "verified" => claim.command = "verified"
    BY <1>5 DEF createSendingSubdomain, ProgramTypes
  <2> QED
    BY <2>1, AnswersStay
<1>6. CASE ensureDmarcRecord
  <2>1. /\ claim'.worker = "complete" => claim.worker = "complete"
        /\ claim'.command = "verified" => claim.command = "verified"
    BY <1>6 DEF ensureDmarcRecord, ProgramTypes
  <2> QED
    BY <2>1, AnswersStay
<1>7. CASE deleteDuplicates
  <2>1. /\ claim'.worker = "complete" => claim.worker = "complete"
        /\ claim'.command = "verified" => claim.command = "verified"
    BY <1>7 DEF deleteDuplicates, ProgramTypes
  <2> QED
    BY <2>1, AnswersStay
<1>8. CASE stepDmarc
  <2>1. /\ claim'.worker = "complete" => claim.worker = "complete"
        /\ claim'.command = "verified" => claim.command = "verified"
    BY <1>8 DEF stepDmarc, ProgramTypes
  <2> QED
    BY <2>1, AnswersStay
<1>9. CASE stepEmailRouting
  <2>1. /\ claim'.worker = "complete" => claim.worker = "complete"
        /\ claim'.command = "verified" => claim.command = "verified"
    BY <1>9 DEF stepEmailRouting, ProgramTypes
  <2> QED
    BY <2>1, AnswersStay
<1>10. CASE stepFeedbackSubscription
  <2>1. /\ claim'.worker = "complete" => claim.worker = "complete"
        /\ claim'.command = "verified" => claim.command = "verified"
    BY <1>10 DEF stepFeedbackSubscription, ProgramTypes
  <2> QED
    BY <2>1, AnswersStay
<1>11. CASE createFeedbackSubscription
  <2>1. /\ claim'.worker = "complete" => claim.worker = "complete"
        /\ claim'.command = "verified" => claim.command = "verified"
    BY <1>11 DEF createFeedbackSubscription, ProgramTypes
  <2> QED
    BY <2>1, AnswersStay
<1>12. CASE stepMailbox
  <2>1. /\ claim'.worker = "complete" => claim.worker = "complete"
        /\ claim'.command = "verified" => claim.command = "verified"
    BY <1>12 DEF stepMailbox, ProgramTypes
  <2> QED
    BY <2>1, AnswersStay
<1>13. CASE report
  <2>1. /\ at.worker = "report" /\ UNCHANGED remote /\ UNCHANGED database
        /\ claim'.worker = "complete" => steps.failed = {}
        /\ claim'.command = claim.command
    BY <1>13 DEF report, ProgramTypes, Complete
  <2>2. steps.failed = {} =>
          enabled /\ dmarc = Ours /\ routing /\ Reached(subscriptions) /\ zone = ZoneId /\ mailbox
    BY <2>1 DEF NothingSkipped, StepsHold, Proved
  <2> QED
    BY <2>1, <2>2 DEF AnswersHold, Reached
<1>14. CASE WorkerDies
  <2>1. /\ claim'.worker = "complete" => claim.worker = "complete"
        /\ claim'.command = "verified" => claim.command = "verified"
    BY <1>14 DEF WorkerDies, ProgramTypes
  <2> QED
    BY <2>1, AnswersStay
<1>15. CASE setupSending
  <2>1. /\ claim'.worker = "complete" => claim.worker = "complete"
        /\ claim'.command = "verified" => claim.command = "verified"
    BY <1>15 DEF setupSending, ProgramTypes
  <2> QED
    BY <2>1, AnswersStay
<1>16. CASE runIdempotent
  <2>1. /\ claim'.worker = "complete" => claim.worker = "complete"
        /\ claim'.command = "verified" => claim.command = "verified"
    BY <1>16 DEF runIdempotent, ProgramTypes
  <2> QED
    BY <2>1, AnswersStay
<1>17. CASE upsertSpf
  <2>1. /\ claim'.worker = "complete" => claim.worker = "complete"
        /\ claim'.command = "verified" => claim.command = "verified"
    BY <1>17 DEF upsertSpf, ProgramTypes
  <2> QED
    BY <2>1, AnswersStay
<1>18. CASE listDmarc
  <2>1. /\ claim'.worker = "complete" => claim.worker = "complete"
        /\ claim'.command = "verified" => claim.command = "verified"
    BY <1>18 DEF listDmarc, ProgramTypes
  <2> QED
    BY <2>1, AnswersStay
<1>19. CASE removeDuplicates
  <2>1. /\ claim'.worker = "complete" => claim.worker = "complete"
        /\ claim'.command = "verified" => claim.command = "verified"
    BY <1>19 DEF removeDuplicates, ProgramTypes
  <2> QED
    BY <2>1, AnswersStay
<1>20. CASE upsertTxtStyleRecord
  <2>1. /\ claim'.worker = "complete" => claim.worker = "complete"
        /\ claim'.command = "verified" => claim.command = "verified"
    BY <1>20 DEF upsertTxtStyleRecord, ProgramTypes
  <2> QED
    BY <2>1, AnswersStay
<1>21. CASE providerRecords
  <2>1. /\ claim'.worker = "complete" => claim.worker = "complete"
        /\ claim'.command = "verified" => claim.command = "verified"
    BY <1>21 DEF providerRecords, ProgramTypes
  <2> QED
    BY <2>1, AnswersStay
<1>22. CASE ensureEventSubscription
  <2>1. /\ claim'.worker = "complete" => claim.worker = "complete"
        /\ claim'.command = "verified" => claim.command = "verified"
    BY <1>22 DEF ensureEventSubscription, ProgramTypes
  <2> QED
    BY <2>1, AnswersStay
<1>23. CASE converge
  <2>1. /\ claim'.worker = "complete" => claim.worker = "complete"
        /\ claim'.command = "verified" => claim.command = "verified"
    BY <1>23 DEF converge, ProgramTypes
  <2> QED
    BY <2>1, AnswersStay
<1>24. CASE recheck
  <2>1. /\ claim'.worker = "complete" => claim.worker = "complete"
        /\ claim'.command = "verified" => claim.command = "verified"
    BY <1>24 DEF recheck, ProgramTypes
  <2> QED
    BY <2>1, AnswersStay
<1>25. CASE exit
  <2>1. /\ at.command = "exit" /\ UNCHANGED remote /\ UNCHANGED database
        /\ claim'.command = "verified" => Verified(read.command)
        /\ claim'.worker = claim.worker
    BY <1>25 DEF exit, ProgramTypes
  <2>2. read.command \in Seq(Subscribable)
    BY <2>1 DEF CommandHolds
  <2>3. Verified(read.command) => Reached(subscriptions)
    BY <2>1, <2>2, LiveIsReached DEF CommandHolds, Verified
  <2> QED
    BY <2>1, <2>3 DEF AnswersHold, CommandHolds, Reached
<1>26. CASE CommandDies
  <2>1. /\ claim'.worker = "complete" => claim.worker = "complete"
        /\ claim'.command = "verified" => claim.command = "verified"
    BY <1>26 DEF CommandDies, ProgramTypes
  <2> QED
    BY <2>1, AnswersStay
<1>27. CASE setupMailbox
  <2>1. /\ claim'.worker = "complete" => claim.worker = "complete"
        /\ claim'.command = "verified" => claim.command = "verified"
    BY <1>27 DEF setupMailbox, ProgramTypes
  <2> QED
    BY <2>1, AnswersStay
<1>28. CASE Remedy
  <2>1. /\ claim'.worker = "complete" => claim.worker = "complete"
        /\ claim'.command = "verified" => claim.command = "verified"
    BY <1>28 DEF Remedy, ProgramTypes
  <2> QED
    BY <2>1, AnswersStay
<1>29. CASE UNCHANGED sendingVars
  BY <1>29 DEF sendingVars, AnswersHold, Reached
<1> QED
  BY <1>1, <1>2, <1>3, <1>4, <1>5, <1>6, <1>7, <1>8, <1>9, <1>10, <1>11, <1>12, <1>13, <1>14, <1>15, <1>16, <1>17, <1>18, <1>19, <1>20, <1>21, <1>22, <1>23, <1>24, <1>25, <1>26, <1>27, <1>28, <1>29
     DEF SendingNext, WorkerStep, CommandStep

LEMMA SendingStarts == SendingInit => SendingInductive
<1> SUFFICES ASSUME SendingInit PROVE SendingInductive
  OBVIOUS
<1>1. << >> \in Seq(Policy) /\ <<"provider">> \in Seq(Policy)
      /\ <<"other", "provider">> \in Seq(Policy) /\ <<"other">> \in Seq(Policy)
  BY DEF Policy
<1>2. dmarc \in Seq(Policy)
  BY <1>1 DEF SendingInit
<1>3. subscriptions \in Seq(Subscribable)
  BY SendingAssumption DEF SendingInit
<1>4. WorldTypes /\ ProgramTypes
  BY <1>1, <1>2, <1>3 DEF SendingInit, WorldTypes, ProgramTypes, WorkerPoints, CommandPoints
<1>5. RecordsRead /\ StepsHold /\ NothingSkipped /\ CommandHolds /\ AnswersHold
  BY DEF SendingInit, RecordsRead, StepsHold, NothingSkipped, CommandHolds, AnswersHold
<1> QED
  BY <1>4, <1>5 DEF SendingInductive

LEMMA SendingStep == SendingInductive /\ [SendingNext]_sendingVars => SendingInductive'
<1> SUFFICES ASSUME SendingInductive, [SendingNext]_sendingVars PROVE SendingInductive'
  OBVIOUS
<1>1. /\ WorldTypes /\ ProgramTypes /\ RecordsRead /\ StepsHold /\ NothingSkipped
      /\ CommandHolds /\ AnswersHold
  BY DEF SendingInductive
<1>2. WorldTypes' /\ Steadily
  BY <1>1, SteadyStep
<1>3. ProgramTypes'
  BY <1>1, TypesStep
<1>4. StepsHold'
  BY <1>1, <1>2, StepsHoldStep
<1>5. RecordsRead'
  BY <1>1, <1>2, RecordsStep
<1>6. NothingSkipped'
  BY <1>1, <1>2, NothingSkippedStep
<1>7. CommandHolds'
  BY <1>1, <1>2, CommandHoldsStep
<1>8. AnswersHold'
  BY <1>1, <1>2, AnswersStep
<1> QED
  BY <1>2, <1>3, <1>4, <1>5, <1>6, <1>7, <1>8 DEF SendingInductive

LEMMA AnswersAreClaims == SendingInductive => ClaimsAreTrue
<1> SUFFICES ASSUME SendingInductive PROVE ClaimsAreTrue
  OBVIOUS
<1>1. Live <=> Reached(subscriptions)
  BY LiveIsReached DEF Live, SendingInductive, WorldTypes
<1> QED
  BY <1>1 DEF ClaimsAreTrue, SendingInductive, AnswersHold, Ours

\* ClaimsAreTrue: a provisioning request that answers complete, and a
\* setup:sending that exits with 0, told the truth, whatever the other program,
\* a seeded registry, a lost answer or a death did meanwhile, and it stays true.
THEOREM AnswersAreTrue ==
  SendingInit /\ [][SendingNext]_sendingVars => []ClaimsAreTrue
BY SendingStarts, SendingStep, AnswersAreClaims, PTL
--------------------------------------------------------------------------------
(* What a deploy ships, from any number of terminals.                      *)

Block == [domains : SUBSET Domains, from : Domains \cup {NoSender}, bounded : BOOLEAN,
          senders : SUBSET Domains, d1 : {"placeholder", "real"}, route : BOOLEAN,
          workersDev : BOOLEAN, structure : Nat]

DeploySteps == {"build", "patch", "ship"}
Reading == [file : SUBSET Block, declared : SUBSET Domains]
Planned == [name : {"sending"}, step : {"enable"}, env : Envs, domain : Domains,
            asked : SUBSET {"default", "restrict"}, plan : Block, listed : BOOLEAN, seen : Reading]
Finding ==
  [name : {"cloud"}, step : {"render"} \cup DeploySteps, env : Envs]
  \cup [name : {"domain"}, step : {"render"} \cup DeploySteps, env : Envs,
        source : {"tracked", "generated"}]
  \cup [name : {"deploy"}, step : DeploySteps, env : Envs]
Command == {AtPrompt} \cup Planned \cup Finding

SetUpRow == [domains : SUBSET Domains, from : Domains \cup {NoSender}, senders : SUBSET Domains,
             restricted : BOOLEAN, d1 : BOOLEAN, route : BOOLEAN]

File == {f \in SUBSET Block : \A g, h \in f : g = h}

DeployTypes ==
  /\ tracked \in [Envs -> Block]
  /\ generated \in [Envs -> File]
  /\ built \subseteq [env : Envs, block : Block, overlaid : BOOLEAN]
  /\ \A b, c \in built : b = c
  /\ deployed \in [Envs -> File]
  /\ setUp \in [Envs -> SetUpRow]
  /\ commands \in [Terminals -> Command]

\* What a block takes over from an older one.
Adds(old, new) ==
  /\ old.domains \subseteq new.domains
  /\ old.route => new.route
  /\ old.d1 = "real" => new.d1 = "real"
  /\ old.structure <= new.structure
  /\ new.workersDev => old.workersDev

\* A block that ships what was set up for an env, the default sender aside.
Ships(s, v) ==
  /\ s.domains \subseteq v.domains
  /\ s.d1 => v.d1 = "real"
  /\ s.route => v.route /\ ~v.workersDev

KeepsFrom(v, w) == v.from # NoSender => w.from = v.from

\* A block of wrangler.jsonc and a later one: what edits leave alone.
Older(base, after) ==
  /\ base.domains \subseteq after.domains
  /\ base.from = after.from /\ base.d1 = after.d1
  /\ base.route = after.route
  /\ base.bounded => after.bounded
  /\ base.structure <= after.structure
  /\ after.workersDev => base.workersDev

\* The generated file of an env, whatever happened to it.
FileKeeps(e) ==
  /\ ~tracked[e].route
  /\ generated[e] = {} => setUp[e].senders = {}

\* What a deploy of an env would ship, where nothing stale was used.
EnvKeeps(e) ==
  /\ Ships(setUp[e], deployedVars(e))
  /\ setUp[e].from # NoSender => deployedVars(e).from = setUp[e].from
  /\ \A g \in generated[e] : g.bounded =>
       setUp[e].senders \subseteq g.senders /\ (tracked[e].bounded \/ setUp[e].restricted)
  /\ \A old \in deployed[e] : Adds(old, deployedVars(e))

\* What is in dist/: the block of wrangler.jsonc at some time, or that with
\* the generated values, and in both cases after what the Worker runs with.
BuiltKeeps(b) ==
  LET e == b.env
  IN  IF b.overlaid
      THEN /\ \A old \in deployed[e] : Adds(old, b.block)
           /\ Adds(b.block, deployedVars(e))
      ELSE /\ \A old \in deployed[e] : Adds(old, Overlaid(b.block, generated[e]))
           /\ Older(b.block, tracked[e])

\* What a block p that is written in place of a file carries over, where base
\* is the block of wrangler.jsonc and `declared` the domains it then declared.
Carries(p, file, base, declared) ==
  /\ \A g \in file : /\ p.d1 \in {g.d1, "real"} /\ (g.route => p.route)
                     /\ p.route /\ p.workersDev => g.route /\ g.workersDev
                     /\ g.domains \subseteq p.domains
                     /\ g.domains = {} => p.domains = {} \/ declared \subseteq p.domains
  /\ file = {} => /\ p.d1 \in {base.d1, "real"} /\ ~(p.route /\ p.workersDev)
                  /\ declared \subseteq p.domains

CarriesFrom(p, file, base) ==
  /\ \A g \in file : /\ g.from # NoSender => p.from = g.from
                     /\ g.from = NoSender /\ base.from # NoSender => p.from \in {NoSender, base.from}
  /\ file = {} /\ base.from # NoSender => p.from = base.from

CarriesList(p, file, base) ==
  \A g \in file : g.bounded => p.bounded /\ g.senders \subseteq p.senders

\* A plan that is not yet written.
PlanKeeps(c) ==
  /\ c.seen.file \in File
  /\ c.seen.declared \subseteq tracked[c.env].domains
  /\ c.domain \in c.plan.domains /\ c.plan.from # NoSender
  /\ Carries(c.plan, c.seen.file, tracked[c.env], c.seen.declared)
  /\ "default" \in c.asked \/ CarriesFrom(c.plan, c.seen.file, tracked[c.env])
  /\ CarriesList(c.plan, c.seen.file, tracked[c.env])
  /\ c.plan.bounded => c.domain \in c.plan.senders /\ (c.listed \/ "restrict" \in c.asked)
  /\ c.listed => \/ \E g \in c.seen.file : g.bounded
                 \/ c.seen.file = {} /\ tracked[c.env].bounded
  /\ c.listed \/ "restrict" \in c.asked => c.plan.bounded
  /\ (\E g \in c.seen.file : g.bounded) => c.listed

\* A generated file that was chosen to start from is there.
SourceKeeps(c) == c.name = "domain" /\ c.source = "generated" => generated[c.env] # {}

FilesKeep == \A e \in Envs : FileKeeps(e)
EnvsKeep == \A e \in Envs \ overwritten : EnvKeeps(e)
DistKeeps == \A b \in built : b.env \notin overwritten => BuiltKeeps(b)
CommandKeeps(c) == (c \in Planned => PlanKeeps(c)) /\ SourceKeeps(c)
PlansKeep == \A t \in Terminals : CommandKeeps(commands[t])

DeployInductive == DeployTypes /\ FilesKeep /\ EnvsKeep /\ DistKeeps /\ PlansKeep

LEMMA AddsIsOrder ==
  ASSUME NEW u \in Block, NEW v \in Block, NEW w \in Block
  PROVE  Adds(u, u) /\ (Adds(u, v) /\ Adds(v, w) => Adds(u, w))
BY DEF Adds, Block

LEMMA AddsShips ==
  ASSUME NEW s \in SetUpRow, NEW v \in Block, NEW w \in Block, Adds(v, w), Ships(s, v)
  PROVE  Ships(s, w)
BY DEF Ships, Adds

\* The overlay, field by field.
OverlayOf(v, base, g) ==
  /\ v \in Block
  /\ v.domains = IF g.domains = {} THEN base.domains ELSE g.domains
  /\ v.from = IF g.from = NoSender THEN base.from ELSE g.from
  /\ v.d1 = g.d1
  /\ v.bounded = (base.bounded \/ g.bounded)
  /\ v.senders = IF g.bounded THEN g.senders ELSE base.senders
  /\ v.route = (base.route \/ g.route)
  /\ v.workersDev = IF g.route THEN g.workersDev ELSE base.workersDev
  /\ v.structure = base.structure

LEMMA OverlayFields ==
  ASSUME NEW base \in Block, NEW g \in Block
  PROVE  OverlayOf(applyGeneratedOverlay(base, g), base, g)
BY DEF OverlayOf, applyGeneratedOverlay, Block

\* A file of one block is that block.
LEMMA ReadOne ==
  ASSUME NEW file, NEW g \in file, \A h \in file : h = g
  PROVE  Read(file) = g
BY DEF Read

\* A file is empty or one block.
LEMMA FileIs ==
  ASSUME NEW file \in File
  PROVE  file = {} \/ \E g \in Block : file = {g} /\ Read(file) = g
<1>1. CASE file # {}
  <2>1. PICK g \in file : TRUE
    BY <1>1
  <2>2. g \in Block /\ file = {g} /\ \A h \in file : h = g
    BY <2>1 DEF File
  <2> QED
    BY <2>1, <2>2, ReadOne
<1> QED
  BY <1>1

LEMMA OneIsFile == ASSUME NEW g \in Block PROVE {g} \in File /\ Read({g}) = g
BY ReadOne DEF File

LEMMA OverlaidIs ==
  ASSUME NEW base \in Block, NEW file \in File
  PROVE  /\ Overlaid(base, file) \in Block
         /\ file = {} => Overlaid(base, file) = base
         /\ \A g \in file : file = {g} /\ Overlaid(base, file) = applyGeneratedOverlay(base, g)
<1>1. CASE file = {}
  BY <1>1 DEF Overlaid
<1>2. ASSUME NEW g \in Block, file = {g}, Read(file) = g
      PROVE  /\ Overlaid(base, file) \in Block
             /\ Overlaid(base, file) = applyGeneratedOverlay(base, g)
  <2>1. Overlaid(base, file) = applyGeneratedOverlay(base, g)
    BY <1>2 DEF Overlaid
  <2> QED
    BY <1>2, <2>1, OverlayFields DEF OverlayOf
<1> QED
  BY <1>1, <1>2, FileIs

\* An edit leaves an older block, whatever is edited.
LEMMA EditedFields ==
  ASSUME NEW base \in Block, NEW what
  PROVE  Edited(base, what) \in Block /\ Older(base, Edited(base, what))
<1>1. CASE what = "structure"
  BY <1>1 DEF Edited, Block, Older
<1>2. CASE what = "domain"
  BY <1>2 DEF Edited, Block, Older
<1>3. CASE what = "workers_dev"
  <2>1. PICK no \in BOOLEAN : no = FALSE
    OBVIOUS
  <2>2. PICK v : v = [base EXCEPT !.workersDev = no]
    OBVIOUS
  <2>3. Edited(base, what) = v
    BY <1>3, <2>1, <2>2 DEF Edited
  <2>4. /\ v \in Block /\ v.domains = base.domains /\ v.from = base.from /\ v.d1 = base.d1
        /\ v.bounded = base.bounded /\ v.senders = base.senders /\ v.route = base.route
        /\ v.structure = base.structure /\ v.workersDev = no
    BY <2>2 DEF Block
  <2>5. base.structure <= v.structure
    BY <2>4 DEF Block
  <2> QED
    BY <2>1, <2>3, <2>4, <2>5 DEF Older
<1>4. CASE what \notin {"structure", "domain", "workers_dev"}
  <2>1. PICK yes \in BOOLEAN : yes = TRUE
    OBVIOUS
  <2>a. PICK list : list = IF base.bounded THEN base.senders ELSE base.domains
    OBVIOUS
  <2>2. PICK v : v = [base EXCEPT !.bounded = yes, !.senders = list]
    OBVIOUS
  <2>3. Edited(base, what) = v
    BY <1>4, <2>1, <2>a, <2>2 DEF Edited
  <2>4. list \in SUBSET Domains
    BY <2>a DEF Block
  <2>5. /\ v \in Block /\ v.domains = base.domains /\ v.from = base.from /\ v.d1 = base.d1
        /\ v.bounded = yes /\ v.route = base.route
        /\ v.structure = base.structure /\ v.workersDev = base.workersDev
    BY <2>2, <2>4 DEF Block
  <2>6. base.structure <= v.structure
    BY <2>5 DEF Block
  <2> QED
    BY <2>1, <2>3, <2>5, <2>6 DEF Older
<1> QED
  BY <1>1, <1>2, <1>3, <1>4

LEMMA OlderIsOrder ==
  ASSUME NEW u \in Block, NEW v \in Block, NEW w \in Block
  PROVE  Older(u, u) /\ (Older(u, v) /\ Older(v, w) => Older(u, w))
BY DEF Older, Block

\* Under the same generated file an older block ships less.
LEMMA OlderShips ==
  ASSUME NEW base \in Block, NEW after \in Block, Older(base, after), NEW file \in File
  PROVE  /\ Adds(Overlaid(base, file), Overlaid(after, file))
         /\ KeepsFrom(Overlaid(base, file), Overlaid(after, file))
<1>1. CASE file = {}
  BY <1>1, OverlaidIs DEF Older, Adds, KeepsFrom
<1>2. CASE file # {}
  <2>1. PICK g \in file : TRUE
    BY <1>2
  <2>2. g \in Block
    BY <2>1 DEF File
  <2>3. PICK v, w : v = applyGeneratedOverlay(base, g) /\ w = applyGeneratedOverlay(after, g)
    OBVIOUS
  <2>4. Overlaid(base, file) = v /\ Overlaid(after, file) = w
    BY <2>1, <2>3, OverlaidIs
  <2>5. OverlayOf(v, base, g) /\ OverlayOf(w, after, g)
    BY <2>2, <2>3, OverlayFields
  <2>6. Adds(v, w)
    BY <2>5 DEF OverlayOf, Older, Adds
  <2>7. KeepsFrom(v, w)
    BY <2>5 DEF OverlayOf, Older, KeepsFrom
  <2> QED
    BY <2>4, <2>6, <2>7
<1> QED
  BY <1>1, <1>2

\* What carries a file over adds to it, over any older block.
LEMMA CarryAdds ==
  ASSUME NEW old \in Block, NEW base \in Block, Older(old, base), ~base.route,
         NEW p \in Block, NEW file \in File, Carries(p, file, base, base.domains)
  PROVE  Adds(Overlaid(old, file), applyGeneratedOverlay(old, p))
<1>1. PICK w : w = applyGeneratedOverlay(old, p)
  OBVIOUS
<1>2. OverlayOf(w, old, p)
  BY <1>1, OverlayFields
<1>3. CASE file = {}
  <2>1. Overlaid(old, file) = old
    BY <1>3, OverlaidIs
  <2>2. Adds(old, w)
    BY <1>2, <1>3 DEF OverlayOf, Older, Adds, Carries, Block
  <2> QED
    BY <1>1, <2>1, <2>2
<1>4. CASE file # {}
  <2>1. PICK g \in file : TRUE
    BY <1>4
  <2>2. g \in Block
    BY <2>1 DEF File
  <2>3. PICK v : v = applyGeneratedOverlay(old, g)
    OBVIOUS
  <2>4. Overlaid(old, file) = v
    BY <2>1, <2>3, OverlaidIs
  <2>5. OverlayOf(v, old, g)
    BY <2>2, <2>3, OverlayFields
  <2>6. /\ p.d1 \in {g.d1, "real"} /\ (g.route => p.route)
        /\ (p.route /\ p.workersDev => g.route /\ g.workersDev)
        /\ g.domains \subseteq p.domains
        /\ (g.domains = {} => p.domains = {} \/ base.domains \subseteq p.domains)
    BY <2>1 DEF Carries
  <2>7. v.domains \subseteq w.domains
    BY <1>2, <2>5, <2>6 DEF OverlayOf, Older
  <2>8. /\ v.route => w.route
        /\ v.d1 = "real" => w.d1 = "real"
        /\ v.structure <= w.structure
    BY <1>2, <2>5, <2>6 DEF OverlayOf, Block
  <2>9. w.workersDev => v.workersDev
    BY <1>2, <2>5, <2>6 DEF OverlayOf, Block
  <2> QED
    BY <1>1, <2>4, <2>7, <2>8, <2>9 DEF Adds
<1> QED
  BY <1>3, <1>4

LEMMA CarryFrom ==
  ASSUME NEW base \in Block, NEW p \in Block, NEW file \in File, CarriesFrom(p, file, base)
  PROVE  KeepsFrom(Overlaid(base, file), applyGeneratedOverlay(base, p))
<1>1. PICK w : w = applyGeneratedOverlay(base, p)
  OBVIOUS
<1>2. OverlayOf(w, base, p)
  BY <1>1, OverlayFields
<1>3. CASE file = {}
  <2>1. Overlaid(base, file) = base
    BY <1>3, OverlaidIs
  <2>2. KeepsFrom(base, w)
    BY <1>2, <1>3 DEF OverlayOf, KeepsFrom, CarriesFrom
  <2> QED
    BY <1>1, <2>1, <2>2
<1>4. CASE file # {}
  <2>1. PICK g \in file : TRUE
    BY <1>4
  <2>2. g \in Block
    BY <2>1 DEF File
  <2>3. PICK v : v = applyGeneratedOverlay(base, g)
    OBVIOUS
  <2>4. Overlaid(base, file) = v
    BY <2>1, <2>3, OverlaidIs
  <2>5. OverlayOf(v, base, g)
    BY <2>2, <2>3, OverlayFields
  <2>6. /\ g.from # NoSender => p.from = g.from
        /\ g.from = NoSender /\ base.from # NoSender => p.from \in {NoSender, base.from}
    BY <2>1 DEF CarriesFrom
  <2>7. KeepsFrom(v, w)
    BY <1>2, <2>5, <2>6 DEF OverlayOf, KeepsFrom
  <2> QED
    BY <1>1, <2>4, <2>7
<1> QED
  BY <1>3, <1>4

\* The generated values laid over a block that has them change nothing that
\* is shipped after it.
LEMMA TwiceOverlaid ==
  ASSUME NEW x \in Block, NEW base \in Block, NEW file \in File, Adds(x, Overlaid(base, file))
  PROVE  Adds(x, Overlaid(x, file)) /\ Adds(Overlaid(x, file), Overlaid(base, file))
<1>1. CASE file = {}
  <2>1. Overlaid(x, file) = x
    BY <1>1, OverlaidIs
  <2> QED
    BY <2>1, AddsIsOrder
<1>2. CASE file # {}
  <2>1. PICK g \in file : TRUE
    BY <1>2
  <2>2. g \in Block
    BY <2>1 DEF File
  <2>3. PICK v, w : v = applyGeneratedOverlay(x, g) /\ w = applyGeneratedOverlay(base, g)
    OBVIOUS
  <2>4. Overlaid(x, file) = v /\ Overlaid(base, file) = w
    BY <2>1, <2>3, OverlaidIs
  <2>5. OverlayOf(v, x, g) /\ OverlayOf(w, base, g)
    BY <2>2, <2>3, OverlayFields
  <2>6. Adds(x, w)
    BY <2>4
  <2>7. x.structure <= x.structure
    BY DEF Block
  <2>8. Adds(x, v)
    BY <2>5, <2>6, <2>7 DEF OverlayOf, Adds
  <2>9. Adds(v, w)
    BY <2>5, <2>6 DEF OverlayOf, Adds
  <2> QED
    BY <2>4, <2>8, <2>9
<1> QED
  BY <1>1, <1>2

--------------------------------------------------------------------------------
(* The steps.                                                              *)

Shelf == <<tracked, generated, built, deployed, setUp, overwritten>>
ShelfKeeps == FilesKeep /\ EnvsKeep /\ DistKeeps

LEMMA ShelfStays ==
  ASSUME ShelfKeeps, UNCHANGED Shelf
  PROVE  ShelfKeeps'
BY DEF ShelfKeeps, FilesKeep, FileKeeps, EnvsKeep, EnvKeeps, DistKeeps, BuiltKeeps, deployedVars, Shelf

LEMMA DeployedIs ==
  ASSUME DeployTypes, NEW e \in Envs
  PROVE  /\ tracked[e] \in Block /\ generated[e] \in File /\ deployed[e] \in File
         /\ setUp[e] \in SetUpRow /\ deployedVars(e) \in Block
         /\ deployedVars(e) = Overlaid(tracked[e], generated[e])
BY OverlaidIs DEF DeployTypes, deployedVars

LEMMA AtPromptIs == AtPrompt \in Command /\ AtPrompt \notin Planned /\ AtPrompt.name # "domain"
BY DEF AtPrompt, Command, Planned

LEMMA PlannedIs == \A c \in Planned : c \in Command /\ c.name # "domain"
BY DEF Command, Planned

LEMMA FindingIs == \A c \in Finding : c \in Command /\ c \notin Planned /\ c # AtPrompt /\ c.env \in Envs
BY DEF Finding, Command, Planned, AtPrompt

LEMMA CommandIs ==
  ASSUME NEW c \in Command
  PROVE  /\ c.name = "sending" => c \in Planned
         /\ c.name \in {"cloud", "domain", "deploy"} => c \in Finding
         /\ c # AtPrompt /\ c.step \in {"render"} \cup DeploySteps => c \in Finding
BY DEF Command, Planned, Finding, AtPrompt, DeploySteps

\* A plan depends on nothing but wrangler.jsonc, and edits leave it good; a
\* generated file is never removed.
FilesStay == \A e \in Envs : generated[e] # {} => generated'[e] # {}

LEMMA PlansStay ==
  ASSUME DeployTypes, PlansKeep, tracked' \in [Envs -> Block],
         \A e \in Envs : Older(tracked[e], tracked'[e]),
         FilesStay,
         \A t \in Terminals : commands'[t] = commands[t] \/ CommandKeeps(commands[t])'
  PROVE  PlansKeep'
<1> SUFFICES ASSUME NEW t \in Terminals, commands'[t] = commands[t]
             PROVE  CommandKeeps(commands[t])'
  BY DEF PlansKeep
<1>1. PICK c : c = commands[t]
  OBVIOUS
<1>12. c \in Command /\ CommandKeeps(c) /\ commands'[t] = c
  BY <1>1 DEF PlansKeep, DeployTypes
<1>13. SourceKeeps(c)'
  <2>1. c.name = "domain" => c.env \in Envs
    BY <1>12, CommandIs, FindingIs
  <2> QED
    BY <1>12, <2>1 DEF CommandKeeps, SourceKeeps, FilesStay
<1> SUFFICES ASSUME c \in Planned
             PROVE  PlanKeeps(c)'
  BY <1>1, <1>12, <1>13 DEF CommandKeeps
<1>2. c \in Planned /\ PlanKeeps(c) /\ commands'[t] = c
  BY <1>12 DEF CommandKeeps
<1>3. PICK e, base, after : e = c.env /\ base = tracked[e] /\ after = tracked'[e]
  OBVIOUS
<1>4. e \in Envs /\ c.plan \in Block
  BY <1>2, <1>3 DEF Planned
<1>5. base \in Block /\ after \in Block /\ Older(base, after)
  BY <1>3, <1>4 DEF DeployTypes
<1>6. Carries(c.plan, c.seen.file, after, c.seen.declared)
  <2>1. Carries(c.plan, c.seen.file, base, c.seen.declared)
    BY <1>2, <1>3 DEF PlanKeeps
  <2> QED
    BY <1>5, <2>1 DEF Carries, Older
<1>7. "default" \in c.asked \/ CarriesFrom(c.plan, c.seen.file, after)
  <2>1. "default" \in c.asked \/ CarriesFrom(c.plan, c.seen.file, base)
    BY <1>2, <1>3 DEF PlanKeeps
  <2> QED
    BY <1>5, <2>1 DEF CarriesFrom, Older
<1>8. CarriesList(c.plan, c.seen.file, after)
  BY <1>2 DEF PlanKeeps, CarriesList
<1>9. c.seen.declared \subseteq after.domains
  BY <1>2, <1>3, <1>5 DEF PlanKeeps, Older
<1>10. c.listed => (\E g \in c.seen.file : g.bounded) \/ (c.seen.file = {} /\ after.bounded)
  BY <1>2, <1>3, <1>5 DEF PlanKeeps, Older
<1> QED
  BY <1>2, <1>3, <1>6, <1>7, <1>8, <1>9, <1>10 DEF PlanKeeps

\* The generated file of an env is written.
WellWritten(e, p, r) ==
  /\ Carries(p, generated[e], tracked[e], tracked[e].domains)
  /\ Ships(r, applyGeneratedOverlay(tracked[e], p))
  /\ r.from # NoSender => applyGeneratedOverlay(tracked[e], p).from = r.from
  /\ p.bounded => r.senders \subseteq p.senders /\ (tracked[e].bounded \/ r.restricted)

LEMMA FileWritten ==
  ASSUME DeployTypes, ShelfKeeps, NEW e \in Envs, NEW p \in Block, NEW r \in SetUpRow,
         e \notin overwritten' => WellWritten(e, p, r),
         generated' = [generated EXCEPT ![e] = {p}], setUp' = [setUp EXCEPT ![e] = r],
         UNCHANGED <<tracked, built, deployed>>, overwritten \subseteq overwritten',
         commands' \in [Terminals -> Command]
  PROVE  DeployTypes' /\ ShelfKeeps'
<1>1. /\ generated'[e] = {p} /\ setUp'[e] = r
      /\ \A f \in Envs : f # e => generated'[f] = generated[f] /\ setUp'[f] = setUp[f]
  BY DEF DeployTypes
<1>2. DeployTypes'
  <2>1. {p} \in File
    BY OneIsFile
  <2>2. generated' \in [Envs -> File] /\ setUp' \in [Envs -> SetUpRow]
    BY <2>1 DEF DeployTypes
  <2> QED
    BY <2>2 DEF DeployTypes
<1>3. \A f \in Envs : f # e => deployedVars(f)' = deployedVars(f)
  BY <1>1 DEF deployedVars
<1>4. PICK base, file, w : base = tracked[e] /\ file = generated[e] /\ w = applyGeneratedOverlay(base, p)
  OBVIOUS
<1>5. /\ base \in Block /\ file \in File /\ deployed[e] \in File /\ setUp[e] \in SetUpRow
      /\ deployedVars(e) \in Block /\ deployedVars(e) = Overlaid(base, file)
  BY <1>4, DeployedIs
<1>6. deployedVars(e)' = w /\ w \in Block
  <2>1. {p} \in File /\ p \in {p}
    BY OneIsFile
  <2>2. Overlaid(base, {p}) = w /\ Overlaid(base, {p}) \in Block
    BY <1>4, <1>5, <2>1, OverlaidIs
  <2> QED
    BY <1>1, <1>4, <2>2 DEF deployedVars
<1>7. ~base.route
  BY <1>4 DEF ShelfKeeps, FilesKeep, FileKeeps
<1>8. Older(base, base)
  BY <1>5, OlderIsOrder
<1>9. ASSUME e \notin overwritten', NEW old \in Block, Older(old, base)
      PROVE  Adds(Overlaid(old, file), applyGeneratedOverlay(old, p))
  <2>1. Carries(p, file, base, base.domains)
    BY <1>4, <1>9 DEF WellWritten
  <2> QED
    BY <1>5, <1>7, <1>9, <2>1, CarryAdds
<1>10. e \notin overwritten' => Adds(deployedVars(e), w)
  BY <1>4, <1>5, <1>8, <1>9
<1>11. FilesKeep'
  <2> SUFFICES ASSUME NEW f \in Envs PROVE FileKeeps(f)'
    BY DEF FilesKeep
  <2>1. CASE f # e
    BY <1>1, <2>1 DEF ShelfKeeps, FilesKeep, FileKeeps
  <2>2. CASE f = e
    BY <1>1, <1>4, <1>7, <2>2 DEF FileKeeps
  <2> QED
    BY <2>1, <2>2
<1>12. EnvsKeep'
  <2> SUFFICES ASSUME NEW f \in Envs, f \notin overwritten' PROVE EnvKeeps(f)'
    BY DEF EnvsKeep
  <2>1. EnvKeeps(f)
    BY DEF ShelfKeeps, EnvsKeep
  <2>2. CASE f # e
    BY <1>1, <1>3, <2>1, <2>2 DEF EnvKeeps
  <2>3. CASE f = e
    <3>1. \A old \in deployed[e] : Adds(old, w)
      <4> SUFFICES ASSUME NEW old \in deployed[e] PROVE Adds(old, w)
        OBVIOUS
      <4>1. old \in Block /\ Adds(old, deployedVars(e))
        BY <1>5, <2>1, <2>3 DEF EnvKeeps, File
      <4> QED
        BY <1>5, <1>6, <1>10, <2>3, <4>1, AddsIsOrder
    <3>2. WellWritten(e, p, r)
      BY <2>3
    <3> QED
      BY <1>1, <1>4, <1>6, <2>3, <3>1, <3>2 DEF EnvKeeps, WellWritten
  <2> QED
    BY <2>2, <2>3
<1>13. DistKeeps'
  <2> SUFFICES ASSUME NEW b \in built, b.env \notin overwritten' PROVE BuiltKeeps(b)'
    BY DEF DistKeeps
  <2>1. b \in [env : Envs, block : Block, overlaid : BOOLEAN] /\ BuiltKeeps(b)
    BY DEF DeployTypes, ShelfKeeps, DistKeeps
  <2>2. CASE b.env # e
    BY <1>1, <1>3, <2>1, <2>2 DEF BuiltKeeps
  <2>3. CASE b.env = e
    <3>1. PICK x : x = b.block
      OBVIOUS
    <3>2. x \in Block
      BY <2>1, <3>1
    <3>3. CASE b.overlaid
      <4>1. Adds(x, deployedVars(e)) /\ \A old \in deployed[e] : Adds(old, x)
        BY <2>1, <2>3, <3>1, <3>3 DEF BuiltKeeps
      <4>2. Adds(x, w)
        BY <1>5, <1>6, <1>10, <2>3, <3>2, <4>1, AddsIsOrder
      <4> QED
        BY <1>6, <2>3, <3>1, <3>3, <4>1, <4>2 DEF BuiltKeeps
    <3>4. CASE ~b.overlaid
      <4>1. Older(x, base) /\ \A old \in deployed[e] : Adds(old, Overlaid(x, file))
        BY <1>4, <2>1, <2>3, <3>1, <3>4 DEF BuiltKeeps
      <4>2. PICK u, v : u = Overlaid(x, file) /\ v = applyGeneratedOverlay(x, p)
        OBVIOUS
      <4>3. u \in Block /\ v \in Block /\ Adds(u, v) /\ Overlaid(x, {p}) = v
        <5>1. {p} \in File /\ p \in {p}
          BY OneIsFile
        <5>2. Overlaid(x, {p}) = v /\ Overlaid(x, {p}) \in Block
          BY <3>2, <4>2, <5>1, OverlaidIs
        <5> QED
          BY <1>5, <1>9, <2>3, <3>2, <4>1, <4>2, <5>2, OverlaidIs
      <4>4. \A old \in deployed[e] : Adds(old, v)
        <5> SUFFICES ASSUME NEW old \in deployed[e] PROVE Adds(old, v)
          OBVIOUS
        <5>1. old \in Block /\ Adds(old, u)
          BY <1>5, <4>1, <4>2 DEF File
        <5> QED
          BY <4>3, <5>1, AddsIsOrder
      <4> QED
        BY <1>1, <1>4, <2>3, <3>1, <3>4, <4>1, <4>3, <4>4 DEF BuiltKeeps
    <3> QED
      BY <3>3, <3>4
  <2> QED
    BY <2>2, <2>3
<1> QED
  BY <1>2, <1>11, <1>12, <1>13 DEF ShelfKeeps

\* A command takes the place of another.
LEMMA CommandMoves ==
  ASSUME DeployTypes, PlansKeep, NEW t \in Terminals, NEW d \in Command,
         commands' = [commands EXCEPT ![t] = d], UNCHANGED tracked, FilesStay,
         d \in Planned => PlanKeeps(d), SourceKeeps(d)'
  PROVE  commands' \in [Terminals -> Command] /\ PlansKeep'
<1>1. commands' \in [Terminals -> Command] /\ commands'[t] = d
  BY DEF DeployTypes
<1>2. tracked' \in [Envs -> Block] /\ \A e \in Envs : Older(tracked[e], tracked'[e])
  BY OlderIsOrder DEF DeployTypes
<1>3. d \in Planned => PlanKeeps(d)'
  BY DEF PlanKeeps
<1>4. \A u \in Terminals : commands'[u] = commands[u] \/ CommandKeeps(commands[u])'
  <2> SUFFICES ASSUME NEW u \in Terminals, commands'[u] # commands[u]
               PROVE  CommandKeeps(commands[u])'
    OBVIOUS
  <2>1. commands'[u] = d
    BY DEF DeployTypes
  <2> QED
    BY <1>3, <2>1 DEF CommandKeeps
<1> QED
  BY <1>1, <1>2, <1>4, PlansStay

\* A command that starts, and one that ends.
LEMMA StartKeeps ==
  ASSUME DeployInductive, NEW t \in Terminals, NEW c \in Command, Starts(t, c), CommandKeeps(c)
  PROVE  DeployInductive'
<1>1. DeployTypes /\ PlansKeep /\ ShelfKeeps /\ UNCHANGED Shelf /\ UNCHANGED tracked
      /\ commands' = [commands EXCEPT ![t] = c]
  BY DEF DeployInductive, ShelfKeeps, Starts, Shelf
<1>2. commands' \in [Terminals -> Command] /\ PlansKeep'
  <2>1. FilesStay /\ SourceKeeps(c)'
    BY <1>1 DEF FilesStay, Shelf, SourceKeeps, CommandKeeps
  <2> QED
    BY <1>1, <2>1, CommandMoves DEF CommandKeeps
<1>3. DeployTypes'
  BY <1>1, <1>2 DEF DeployTypes, Shelf
<1> QED
  BY <1>1, <1>2, <1>3, ShelfStays DEF DeployInductive, ShelfKeeps

LEMMA EndKeeps ==
  ASSUME DeployInductive, NEW t \in Terminals, Ends(t), UNCHANGED Shelf
  PROVE  DeployInductive'
<1>1. DeployTypes /\ PlansKeep /\ ShelfKeeps /\ UNCHANGED tracked
      /\ commands' = [commands EXCEPT ![t] = AtPrompt]
  BY DEF DeployInductive, ShelfKeeps, Ends, Shelf
<1>2. commands' \in [Terminals -> Command] /\ PlansKeep'
  <2>1. FilesStay /\ SourceKeeps(AtPrompt)'
    BY AtPromptIs DEF FilesStay, Shelf, SourceKeeps
  <2> QED
    BY <1>1, <2>1, AtPromptIs, CommandMoves
<1>3. DeployTypes'
  BY <1>1, <1>2 DEF DeployTypes, Shelf
<1> QED
  BY <1>1, <1>2, <1>3, ShelfStays DEF DeployInductive, ShelfKeeps

\* A command that takes its next step.
LEMMA StepOn ==
  ASSUME NEW c \in Finding, NEW s \in DeploySteps, NEW d, d = [c EXCEPT !.step = s]
  PROVE  /\ d \in Finding /\ d.env = c.env
         /\ d.name = "domain" => c.name = "domain" /\ d.source = c.source
<1>1. CASE c \in [name : {"cloud"}, step : {"render"} \cup DeploySteps, env : Envs]
  <2>1. /\ d \in [name : {"cloud"}, step : {"render"} \cup DeploySteps, env : Envs]
        /\ d.env = c.env /\ d.name # "domain"
    BY <1>1
  <2> QED
    BY <2>1 DEF Finding
<1>2. CASE c \in [name : {"domain"}, step : {"render"} \cup DeploySteps, env : Envs,
                  source : {"tracked", "generated"}]
  <2>1. /\ d \in [name : {"domain"}, step : {"render"} \cup DeploySteps, env : Envs,
                  source : {"tracked", "generated"}]
        /\ d.env = c.env /\ c.name = "domain" /\ d.source = c.source
    BY <1>2
  <2> QED
    BY <2>1 DEF Finding
<1>3. CASE c \in [name : {"deploy"}, step : DeploySteps, env : Envs]
  <2>1. d \in [name : {"deploy"}, step : DeploySteps, env : Envs] /\ d.env = c.env /\ d.name # "domain"
    BY <1>3
  <2> QED
    BY <2>1 DEF Finding
<1> QED
  BY <1>1, <1>2, <1>3 DEF Finding

LEMMA GoesOn ==
  ASSUME DeployTypes, PlansKeep, NEW t \in Terminals, commands[t] \in Finding, UNCHANGED tracked,
         FilesStay, NEW s \in DeploySteps, GoesTo(t, s)
  PROVE  commands' \in [Terminals -> Command] /\ PlansKeep'
<1>1. PICK d : d = [commands[t] EXCEPT !.step = s]
  OBVIOUS
<1>2. d \in Finding /\ d \in Command /\ d \notin Planned
  BY <1>1, StepOn, FindingIs
<1>3. commands' = [commands EXCEPT ![t] = d]
  BY <1>1 DEF GoesTo, DeployTypes
<1>4. SourceKeeps(d)'
  <2>1. SourceKeeps(commands[t])
    BY DEF PlansKeep, CommandKeeps
  <2>2. commands[t].env \in Envs
    BY FindingIs
  <2> QED
    BY <1>1, <2>1, <2>2, StepOn DEF SourceKeeps, FilesStay
<1> QED
  BY <1>2, <1>3, <1>4, CommandMoves

\* The block a command starts from, and what a deploy would ship.
Source(e) == Contents(e, SourcePath(e))

LEMMA SourceIs ==
  ASSUME DeployTypes, NEW e \in Envs
  PROVE  /\ Source(e) \in Block
         /\ generated[e] = {} => Source(e) = tracked[e]
         /\ \A g \in generated[e] : generated[e] = {g} /\ Source(e) = g
<1>1. tracked[e] \in Block /\ generated[e] \in File
  BY DEF DeployTypes
<1>2. CASE generated[e] = {}
  BY <1>1, <1>2 DEF Source, Contents, SourcePath
<1>3. ASSUME NEW g \in Block, generated[e] = {g}, Read(generated[e]) = g
      PROVE  Source(e) = g
  BY <1>3 DEF Source, Contents, SourcePath
<1> QED
  BY <1>1, <1>2, <1>3, FileIs

\* Planning: what is planned carries the files over.
IsReplanned(p, block, from, domains, bounded, senders) ==
  p = [block EXCEPT !.from = from, !.domains = domains, !.bounded = bounded, !.senders = senders]

LEMMA Replanned ==
  ASSUME NEW block \in Block, NEW from \in Domains \cup {NoSender}, NEW domains \in SUBSET Domains,
         NEW bounded \in BOOLEAN, NEW senders \in SUBSET Domains, NEW p,
         IsReplanned(p, block, from, domains, bounded, senders)
  PROVE  /\ p \in Block /\ p.bounded = bounded /\ p.d1 = block.d1
         /\ p.route = block.route /\ p.workersDev = block.workersDev
         /\ p.domains = domains /\ p.from = from /\ p.senders = senders
BY DEF Block, IsReplanned

LEMMA PlanIs ==
  ASSUME DeployTypes, NEW e \in Envs, NEW d \in Domains, NEW asked \in SUBSET {"default", "restrict"},
         NEW p, p = planSendingConfigUpdate(e, d, asked), NEW src, src = Source(e),
         NEW v, v = deployedVars(e)
  PROVE  /\ p \in Block /\ p.d1 = src.d1 /\ p.route = src.route /\ p.workersDev = src.workersDev
         /\ p.domains = v.domains \cup {d}
         /\ p.from = IF v.from = NoSender \/ "default" \in asked THEN d ELSE v.from
         /\ p.bounded = (src.bounded \/ "restrict" \in asked)
         /\ p.senders = IF p.bounded THEN src.senders \cup {d} ELSE src.senders
<1>1. src \in Block /\ v \in Block
  BY SourceIs, DeployedIs
<1>2. PICK from, domains, bounded, senders :
        /\ from = IF v.from = NoSender \/ "default" \in asked THEN d ELSE v.from
        /\ domains = v.domains \union {d}
        /\ bounded = (src.bounded \/ "restrict" \in asked)
        /\ senders = IF bounded THEN src.senders \union {d} ELSE src.senders
  OBVIOUS
<1>3. /\ from \in Domains \cup {NoSender} /\ domains \in SUBSET Domains
      /\ bounded \in BOOLEAN /\ senders \in SUBSET Domains
  BY <1>1, <1>2 DEF Block
<1>4. IsReplanned(p, src, from, domains, bounded, senders)
  BY <1>2 DEF planSendingConfigUpdate, Source, IsReplanned
<1>5. /\ p \in Block /\ p.bounded = bounded /\ p.d1 = src.d1
      /\ p.route = src.route /\ p.workersDev = src.workersDev
      /\ p.domains = domains /\ p.from = from /\ p.senders = senders
  BY <1>1, <1>3, <1>4, Replanned
<1>6. p.senders = IF p.bounded THEN src.senders \cup {d} ELSE src.senders
  BY <1>2, <1>5
<1> QED
  BY <1>2, <1>5, <1>6

LEMMA PlanIsKept ==
  ASSUME DeployTypes, ShelfKeeps, NEW e \in Envs, NEW d \in Domains,
         NEW asked \in SUBSET {"default", "restrict"}, NEW c, c = PlannedCommand(e, d, asked)
  PROVE  c \in Planned /\ PlanKeeps(c) /\ c.seen = Seen(e) /\ c.env = e
<1>1. PICK p, src, v, base, file :
        /\ p = planSendingConfigUpdate(e, d, asked) /\ src = Source(e) /\ v = deployedVars(e)
        /\ base = tracked[e] /\ file = generated[e]
  OBVIOUS
<1>2. /\ p \in Block /\ p.d1 = src.d1 /\ p.route = src.route /\ p.workersDev = src.workersDev
      /\ p.domains = v.domains \cup {d}
      /\ p.from = IF v.from = NoSender \/ "default" \in asked THEN d ELSE v.from
      /\ p.bounded = (src.bounded \/ "restrict" \in asked)
      /\ p.senders = IF p.bounded THEN src.senders \cup {d} ELSE src.senders
  BY <1>1, PlanIs
<1>3. /\ base \in Block /\ file \in File /\ v \in Block /\ v = Overlaid(base, file)
      /\ ~base.route
  BY <1>1, DeployedIs DEF ShelfKeeps, FilesKeep, FileKeeps
<1>4. /\ src \in Block
      /\ file = {} => src = base
      /\ \A g \in file : file = {g} /\ src = g
  BY <1>1, SourceIs
<1>5. PICK seen, listed : seen = [file |-> file, declared |-> base.domains] /\ listed = src.bounded
  OBVIOUS
<1>6. seen \in Reading /\ seen = Seen(e) /\ listed \in BOOLEAN /\ seen.file = file /\ seen.declared = base.domains
  BY <1>1, <1>3, <1>4, <1>5 DEF Reading, Seen, Block, File
<1>7. /\ c \in Planned /\ c.seen = seen /\ c.env = e /\ c.plan = p /\ c.listed = listed /\ c.domain = d
      /\ c.asked = asked
  <2>1. c = [name |-> "sending", step |-> "enable", env |-> e, domain |-> d, asked |-> asked,
             plan |-> p, listed |-> listed, seen |-> seen]
    BY <1>1, <1>5, <1>6 DEF PlannedCommand, Source
  <2> QED
    BY <1>2, <1>6, <2>1 DEF Planned
<1>8. p.from # NoSender /\ d \in p.domains
  BY <1>2, DeployAssumption
<1>9. file = {} => v = base
  BY <1>3, OverlaidIs
<1>10. ASSUME NEW g \in file
       PROVE  g \in Block /\ src = g /\ OverlayOf(v, base, g)
  BY <1>3, <1>4, OverlaidIs, OverlayFields DEF File
<1>11. Carries(p, file, base, base.domains)
  <2>1. ASSUME NEW g \in file
        PROVE  /\ p.d1 \in {g.d1, "real"} /\ (g.route => p.route)
               /\ (p.route /\ p.workersDev => g.route /\ g.workersDev)
               /\ g.domains \subseteq p.domains
               /\ (g.domains = {} => p.domains = {} \/ base.domains \subseteq p.domains)
    BY <1>2, <1>10, <2>1 DEF OverlayOf
  <2>2. file = {} => /\ p.d1 \in {base.d1, "real"} /\ ~(p.route /\ p.workersDev)
                     /\ base.domains \subseteq p.domains
    BY <1>2, <1>3, <1>4, <1>9
  <2> QED
    BY <2>1, <2>2 DEF Carries
<1>12. "default" \in asked \/ CarriesFrom(p, file, base)
  <2> SUFFICES ASSUME "default" \notin asked
               PROVE  CarriesFrom(p, file, base)
    OBVIOUS
  <2>1. p.from = IF v.from = NoSender THEN d ELSE v.from
    BY <1>2
  <2>2. ASSUME NEW g \in file
        PROVE  /\ g.from # NoSender => p.from = g.from
               /\ g.from = NoSender /\ base.from # NoSender => p.from \in {NoSender, base.from}
    BY <1>10, <2>1, <2>2 DEF OverlayOf
  <2>3. file = {} /\ base.from # NoSender => p.from = base.from
    BY <1>9, <2>1
  <2> QED
    BY <2>2, <2>3 DEF CarriesFrom
<1>13. CarriesList(p, file, base)
  BY <1>2, <1>10 DEF CarriesList
<1>14. PlanKeeps(c)
  <2>1. p.bounded => d \in p.senders /\ (listed \/ "restrict" \in asked)
    BY <1>2, <1>5
  <2>2. /\ listed => (\E g \in file : g.bounded) \/ (file = {} /\ base.bounded)
        /\ (\E g \in file : g.bounded) => listed
    BY <1>4, <1>5
  <2>3. listed \/ "restrict" \in asked => p.bounded
    BY <1>2, <1>5
  <2> QED
    BY <1>1, <1>3, <1>6, <1>7, <1>8, <1>11, <1>12, <1>13, <2>1, <2>2, <2>3 DEF PlanKeeps
<1> QED
  BY <1>6, <1>7, <1>14

\* What writing a plan reports is shipped, unless something stale was used.
IsPromised(r, s, c) ==
  /\ r \in SetUpRow
  /\ r.domains = s.domains \cup {c.domain}
  /\ r.from = IF s.from = NoSender \/ "default" \in c.asked THEN c.plan.from ELSE s.from
  /\ r.senders = IF "restrict" \in c.asked /\ ~c.listed THEN {c.domain} ELSE s.senders \cup {c.domain}
  /\ r.restricted = (s.restricted \/ "restrict" \in c.asked)
  /\ r.d1 = s.d1 /\ r.route = s.route

LEMMA PromisedIs ==
  ASSUME NEW s \in SetUpRow, NEW c \in Planned, NEW r, r = Promised(s, c)
  PROVE  IsPromised(r, s, c)
<1>1. PICK domains, from, senders, restricted :
        /\ domains = s.domains \cup {c.domain}
        /\ from = IF s.from = NoSender \/ "default" \in c.asked THEN c.plan.from ELSE s.from
        /\ senders = IF "restrict" \in c.asked /\ ~c.listed THEN {c.domain} ELSE s.senders \cup {c.domain}
        /\ restricted = (s.restricted \/ "restrict" \in c.asked)
  OBVIOUS
<1>2. /\ c.domain \in Domains /\ c.plan.from \in Domains \cup {NoSender}
      /\ s.domains \in SUBSET Domains /\ s.senders \in SUBSET Domains
      /\ s.from \in Domains \cup {NoSender}
  BY DEF Planned, Block, SetUpRow
<1>3. /\ domains \in SUBSET Domains /\ from \in Domains \cup {NoSender} /\ senders \in SUBSET Domains
      /\ restricted \in BOOLEAN
  BY <1>1, <1>2
<1>4. r = [s EXCEPT !.domains = domains, !.from = from, !.senders = senders, !.restricted = restricted]
  BY <1>1 DEF Promised
<1>5. /\ r \in SetUpRow /\ r.domains = domains /\ r.from = from /\ r.senders = senders
      /\ r.restricted = restricted /\ r.d1 = s.d1 /\ r.route = s.route
  BY <1>3, <1>4 DEF SetUpRow
<1> QED
  BY <1>1, <1>5 DEF IsPromised

LEMMA PlanWritten ==
  ASSUME DeployInductive, NEW c \in Planned, PlanKeeps(c), writesPlan(c),
         commands' \in [Terminals -> Command], PlansKeep'
  PROVE  DeployInductive'
<1>1. DeployTypes /\ ShelfKeeps
  BY DEF DeployInductive, ShelfKeeps
<1>2. PICK e, p, s, r, d : e = c.env /\ p = c.plan /\ s = setUp[e] /\ r = Promised(s, c) /\ d = c.domain
  OBVIOUS
<1>3. e \in Envs /\ p \in Block /\ d \in Domains /\ c.listed \in BOOLEAN
  BY <1>2 DEF Planned
<1>4. PICK base, file, v, w : /\ base = tracked[e] /\ file = generated[e] /\ v = deployedVars(e)
                              /\ w = applyGeneratedOverlay(base, p)
  OBVIOUS
<1>5. /\ base \in Block /\ file \in File /\ v \in Block /\ v = Overlaid(base, file) /\ s \in SetUpRow
      /\ ~base.route /\ (file = {} => s.senders = {})
  BY <1>1, <1>2, <1>3, <1>4, DeployedIs DEF ShelfKeeps, FilesKeep, FileKeeps
<1>6. IsPromised(r, s, c) /\ r \in SetUpRow
  <2>1. IsPromised(r, s, c)
    BY <1>2, <1>5, PromisedIs
  <2> QED
    BY <2>1 DEF IsPromised
<1>7. OverlayOf(w, base, p) /\ w \in Block
  BY <1>3, <1>4, <1>5, OverlayFields DEF OverlayOf
<1>8. ASSUME e \notin overwritten'
      PROVE  WellWritten(e, p, r)
  <2>1. c.seen = Seen(e) /\ e \notin overwritten
    BY <1>2, <1>8 DEF writesPlan
  <2>2. c.seen.file = file /\ c.seen.declared = base.domains
    BY <1>4, <2>1 DEF Seen
  <2>3. /\ Carries(p, file, base, base.domains)
        /\ "default" \in c.asked \/ CarriesFrom(p, file, base)
        /\ CarriesList(p, file, base)
        /\ d \in p.domains /\ p.from # NoSender
        /\ p.bounded => d \in p.senders /\ (c.listed \/ "restrict" \in c.asked)
        /\ c.listed => (\E g \in file : g.bounded) \/ (file = {} /\ base.bounded)
        /\ (\E g \in file : g.bounded) => c.listed
    BY <1>2, <1>4, <2>2 DEF PlanKeeps
  <2>4. /\ Ships(s, v) /\ (s.from # NoSender => v.from = s.from)
        /\ \A g \in file : g.bounded => s.senders \subseteq g.senders /\ (base.bounded \/ s.restricted)
    <3>1. EnvKeeps(e)
      BY <1>1, <1>3, <2>1 DEF ShelfKeeps, EnvsKeep
    <3> QED
      BY <1>2, <1>4, <3>1 DEF EnvKeeps
  <2>5. Adds(v, w)
    BY <1>3, <1>4, <1>5, <2>3, OlderIsOrder, CarryAdds
  <2>6. Ships(s, w)
    BY <1>5, <1>7, <2>4, <2>5, AddsShips
  <2>7. Ships(r, w)
    BY <1>2, <1>6, <1>7, <2>3, <2>6 DEF IsPromised, Ships, OverlayOf
  <2>8. r.from # NoSender => w.from = r.from
    <3>1. w.from = p.from
      BY <1>7, <2>3 DEF OverlayOf
    <3>2. CASE s.from = NoSender \/ "default" \in c.asked
      BY <1>2, <1>6, <3>1, <3>2 DEF IsPromised
    <3>3. CASE s.from # NoSender /\ "default" \notin c.asked
      <4>1. KeepsFrom(v, w)
        BY <1>3, <1>4, <1>5, <2>3, <3>3, CarryFrom
      <4> QED
        BY <1>6, <2>4, <3>3, <4>1 DEF IsPromised, KeepsFrom
    <3> QED
      BY <3>2, <3>3
  <2>9. p.bounded => r.senders \subseteq p.senders
    <3> SUFFICES ASSUME p.bounded PROVE r.senders \subseteq p.senders
      OBVIOUS
    <3>1. CASE "restrict" \in c.asked /\ ~c.listed
      BY <1>2, <1>6, <2>3, <3>1 DEF IsPromised
    <3>2. CASE c.listed
      <4>1. r.senders = s.senders \cup {d}
        BY <1>2, <1>6, <3>2 DEF IsPromised
      <4>2. CASE file = {}
        BY <1>5, <2>3, <4>1, <4>2
      <4>3. CASE \E g \in file : g.bounded
        BY <2>3, <2>4, <4>1, <4>3 DEF CarriesList
      <4>4. CASE file # {} /\ ~ \E g \in file : g.bounded
        BY <2>3, <3>2, <4>4
      <4> QED
        BY <4>2, <4>3, <4>4
    <3> QED
      BY <2>3, <3>1, <3>2
  <2>10. p.bounded => base.bounded \/ r.restricted
    BY <1>6, <2>3, <2>4 DEF IsPromised
  <2> QED
    BY <1>4, <2>3, <2>7, <2>8, <2>9, <2>10 DEF WellWritten
<1>9. /\ generated' = [generated EXCEPT ![e] = {p}] /\ setUp' = [setUp EXCEPT ![e] = r]
      /\ UNCHANGED <<tracked, built, deployed>> /\ overwritten \subseteq overwritten'
  BY <1>2 DEF writesPlan
<1>10. DeployTypes' /\ ShelfKeeps'
  BY <1>1, <1>3, <1>6, <1>8, <1>9, FileWritten
<1> QED
  BY <1>10 DEF DeployInductive, ShelfKeeps

LEMMA WritingKeeps ==
  ASSUME DeployInductive, NEW t \in Terminals, writeSendingConfig(t)
  PROVE  DeployInductive'
<1>1. DeployTypes /\ PlansKeep
  BY DEF DeployInductive
<1>2. PICK c : c = commands[t]
  OBVIOUS
<1>3. c \in Planned /\ PlanKeeps(c) /\ writesPlan(c)
  <2>1. c \in Command /\ c.name = "sending"
    BY <1>1, <1>2 DEF DeployTypes, writeSendingConfig, InCommand
  <2> QED
    BY <1>1, <1>2, <2>1, CommandIs DEF PlansKeep, CommandKeeps, writeSendingConfig
<1>4. commands' = [commands EXCEPT ![t] = AtPrompt] /\ UNCHANGED tracked
  BY <1>3 DEF writeSendingConfig, Ends, writesPlan
<1>5. commands' \in [Terminals -> Command] /\ PlansKeep'
  <2>1. FilesStay
    BY <1>1, <1>3 DEF FilesStay, writesPlan, DeployTypes
  <2>2. SourceKeeps(AtPrompt)'
    BY AtPromptIs DEF SourceKeeps
  <2> QED
    BY <1>1, <1>4, <2>1, <2>2, AtPromptIs, CommandMoves
<1> QED
  BY <1>3, <1>5, PlanWritten

LEMMA PlanningKeeps ==
  ASSUME DeployInductive, NEW t \in Terminals, NEW e \in Envs, NEW d \in Domains,
         NEW asked \in SUBSET {"default", "restrict"}, setupSendingConfig(t, e, d, asked)
  PROVE  DeployInductive'
<1>1. DeployTypes /\ ShelfKeeps
  BY DEF DeployInductive, ShelfKeeps
<1>2. PICK c : c = PlannedCommand(e, d, asked)
  OBVIOUS
<1>3. c \in Command /\ CommandKeeps(c)
  BY <1>1, <1>2, PlanIsKept, PlannedIs DEF CommandKeeps, SourceKeeps
<1>4. Starts(t, c)
  BY <1>2 DEF setupSendingConfig
<1> QED
  BY <1>3, <1>4, StartKeeps

LEMMA OnboardingKeeps ==
  ASSUME DeployInductive, NEW t \in Terminals, NEW e \in Envs, NEW d \in Domains, onboardConfig(t, e, d)
  PROVE  DeployInductive'
<1>1. DeployTypes /\ ShelfKeeps /\ PlansKeep
  BY DEF DeployInductive, ShelfKeeps
<1>2. PICK c, asked : asked = {} /\ c = PlannedCommand(e, d, asked)
  OBVIOUS
<1>3. asked \in SUBSET {"default", "restrict"}
  BY <1>2
<1>4. c \in Planned /\ PlanKeeps(c)
  BY <1>1, <1>2, <1>3, PlanIsKept
<1>5. writesPlan(c) /\ UNCHANGED commands
  BY <1>2 DEF onboardConfig
<1>6. UNCHANGED tracked
  BY <1>5 DEF writesPlan
<1>7. tracked' \in [Envs -> Block] /\ \A f \in Envs : Older(tracked[f], tracked'[f])
  BY <1>1, <1>6, OlderIsOrder DEF DeployTypes
<1>8. PlansKeep' /\ commands' \in [Terminals -> Command]
  <2>1. \A u \in Terminals : commands'[u] = commands[u]
    BY <1>5
  <2>3. FilesStay
    BY <1>1, <1>5 DEF FilesStay, writesPlan, DeployTypes
  <2>2. PlansKeep'
    BY <1>1, <1>7, <2>1, <2>3, PlansStay
  <2> QED
    BY <1>1, <1>5, <2>2 DEF DeployTypes
<1> QED
  BY <1>4, <1>5, <1>8, PlanWritten

LEMMA StartingKeeps ==
  ASSUME DeployInductive, NEW t \in Terminals, NEW e \in Envs,
         setupCloud(t, e) \/ setupDomain(t, e) \/ deployCommand(t, e)
  PROVE  DeployInductive'
<1>1. CASE setupCloud(t, e)
  <2>1. PICK c : c = [name |-> "cloud", step |-> "render", env |-> e]
    OBVIOUS
  <2>2. c \in Finding
    BY <2>1 DEF Finding
  <2>3. CommandKeeps(c)
    BY <2>1, <2>2, FindingIs DEF CommandKeeps, SourceKeeps
  <2> QED
    BY <1>1, <2>1, <2>2, <2>3, FindingIs, StartKeeps DEF setupCloud
<1>2. CASE setupDomain(t, e)
  <2>1. PICK c : c = [name |-> "domain", step |-> "render", env |-> e, source |-> SourcePath(e)]
    OBVIOUS
  <2>2. c \in Finding
    BY <2>1 DEF Finding, SourcePath
  <2>3. CommandKeeps(c)
    <3>1. c.source = SourcePath(e) /\ c.env = e
      BY <2>1
    <3> QED
      BY <2>2, <3>1, FindingIs DEF CommandKeeps, SourceKeeps, SourcePath
  <2> QED
    BY <1>2, <2>1, <2>2, <2>3, FindingIs, StartKeeps DEF setupDomain
<1>3. CASE deployCommand(t, e)
  <2>1. PICK c : c = [name |-> "deploy", step |-> "build", env |-> e]
    OBVIOUS
  <2>2. c \in Finding
    BY <2>1 DEF Finding, DeploySteps
  <2>3. CommandKeeps(c)
    BY <2>1, <2>2, FindingIs DEF CommandKeeps, SourceKeeps
  <2> QED
    BY <1>3, <2>1, <2>2, <2>3, FindingIs, StartKeeps DEF deployCommand
<1> QED
  BY <1>1, <1>2, <1>3

\* A setup script writes down what it found, in a block of the file it read.
IsFound(p, block, route, workersDev) ==
  p = [block EXCEPT !.d1 = "real", !.route = route, !.workersDev = workersDev]

LEMMA Found ==
  ASSUME NEW block \in Block, NEW route \in BOOLEAN, NEW workersDev \in BOOLEAN, NEW p,
         IsFound(p, block, route, workersDev)
  PROVE  /\ p \in Block /\ p.bounded = block.bounded /\ p.d1 = "real"
         /\ p.domains = block.domains /\ p.from = block.from /\ p.senders = block.senders
         /\ p.route = route /\ p.workersDev = workersDev
BY DEF Block, IsFound

IsNoted(r, s, route) == r = [s EXCEPT !.d1 = TRUE, !.route = route]

LEMMA Noted ==
  ASSUME NEW s \in SetUpRow, NEW route \in BOOLEAN, NEW r, IsNoted(r, s, route)
  PROVE  /\ r \in SetUpRow /\ r.domains = s.domains /\ r.from = s.from /\ r.senders = s.senders
         /\ r.restricted = s.restricted /\ r.route = route
BY DEF SetUpRow, IsNoted

LEMMA FindingWritten ==
  ASSUME DeployInductive, NEW t \in Terminals, commands[t] \in Finding, NEW e \in Envs,
         NEW block \in Block, NEW route \in BOOLEAN, NEW workersDev \in BOOLEAN, NEW p, NEW r,
         IsFound(p, block, route, workersDev), NEW found \in BOOLEAN, IsNoted(r, setUp[e], found),
         e \notin overwritten' => block = Source(e),
         \/ route = block.route /\ workersDev = block.workersDev /\ found = setUp[e].route
         \/ route /\ ~workersDev,
         generated' = [generated EXCEPT ![e] = {p}], setUp' = [setUp EXCEPT ![e] = r],
         UNCHANGED <<tracked, built, deployed>>, overwritten \subseteq overwritten', GoesTo(t, "build")
  PROVE  DeployInductive'
<1>1. DeployTypes /\ ShelfKeeps /\ PlansKeep
  BY DEF DeployInductive, ShelfKeeps
<1>2. PICK base, file, v, w, s : /\ base = tracked[e] /\ file = generated[e] /\ v = deployedVars(e)
                                 /\ w = applyGeneratedOverlay(base, p) /\ s = setUp[e]
  OBVIOUS
<1>3. /\ base \in Block /\ file \in File /\ v \in Block /\ v = Overlaid(base, file) /\ s \in SetUpRow
      /\ ~base.route /\ (file = {} => s.senders = {})
  BY <1>1, <1>2, DeployedIs DEF ShelfKeeps, FilesKeep, FileKeeps
<1>4. /\ p \in Block /\ p.bounded = block.bounded /\ p.d1 = "real"
      /\ p.domains = block.domains /\ p.from = block.from /\ p.senders = block.senders
      /\ p.route = route /\ p.workersDev = workersDev
  BY Found
<1>5. /\ r \in SetUpRow /\ r.domains = s.domains /\ r.from = s.from /\ r.senders = s.senders
      /\ r.restricted = s.restricted /\ r.route = found
  BY <1>2, <1>3, Noted
<1>6. OverlayOf(w, base, p) /\ w \in Block
  <2>1. OverlayOf(w, base, p)
    BY <1>2, <1>3, <1>4, OverlayFields
  <2> QED
    BY <2>1 DEF OverlayOf
<1>7. ASSUME e \notin overwritten'
      PROVE  WellWritten(e, p, r)
  <2>1. /\ file = {} => block = base
        /\ \A g \in file : file = {g} /\ block = g
    BY <1>1, <1>2, <1>7, SourceIs
  <2>2. EnvKeeps(e)
    BY <1>1, <1>7 DEF ShelfKeeps, EnvsKeep
  <2>3. /\ Ships(s, v) /\ (s.from # NoSender => v.from = s.from)
        /\ \A g \in file : g.bounded => s.senders \subseteq g.senders /\ (base.bounded \/ s.restricted)
    BY <1>2, <2>2 DEF EnvKeeps
  <2>4. Carries(p, file, base, base.domains)
    BY <1>3, <1>4, <2>1 DEF Carries
  <2>5. CarriesFrom(p, file, base)
    BY <1>4, <2>1 DEF CarriesFrom
  <2>6. Adds(v, w)
    BY <1>2, <1>3, <1>4, <2>4, OlderIsOrder, CarryAdds
  <2>7. KeepsFrom(v, w)
    BY <1>2, <1>3, <1>4, <2>5, CarryFrom
  <2>8. Ships(s, w)
    BY <1>3, <1>6, <2>3, <2>6, AddsShips
  <2>9. Ships(r, w)
    BY <1>4, <1>5, <1>6, <2>8, <1>2 DEF Ships, OverlayOf
  <2>10. p.bounded => r.senders \subseteq p.senders /\ (base.bounded \/ r.restricted)
    BY <1>3, <1>4, <1>5, <2>1, <2>3
  <2>11. r.from # NoSender => w.from = r.from
    BY <1>5, <2>3, <2>7 DEF KeepsFrom
  <2> QED
    BY <1>2, <2>4, <2>9, <2>10, <2>11 DEF WellWritten
<1>8. commands' \in [Terminals -> Command] /\ PlansKeep'
  <2>1. "build" \in DeploySteps /\ UNCHANGED tracked /\ FilesStay
    BY <1>1 DEF DeploySteps, FilesStay, DeployTypes
  <2> QED
    BY <1>1, <2>1, GoesOn
<1>9. DeployTypes' /\ ShelfKeeps'
  BY <1>1, <1>4, <1>5, <1>7, <1>8, FileWritten
<1> QED
  BY <1>8, <1>9 DEF DeployInductive, ShelfKeeps

LEMMA RenderingKeeps ==
  ASSUME DeployInductive, NEW t \in Terminals, renderCloud(t) \/ renderDomain(t)
  PROVE  DeployInductive'
<1>1. DeployTypes
  BY DEF DeployInductive
<1>2. PICK c, e, s : c = commands[t] /\ e = c.env /\ s = setUp[e]
  OBVIOUS
<1>3. c \in Command /\ c.name \in {"cloud", "domain"}
  BY <1>1, <1>2 DEF DeployTypes, renderCloud, renderDomain, InCommand
<1>4. c \in Finding /\ e \in Envs
  BY <1>2, <1>3, CommandIs, FindingIs
<1>5. tracked[e] \in Block /\ generated[e] \in File /\ s \in SetUpRow /\ setUp \in [Envs -> SetUpRow]
  BY <1>1, <1>2, <1>4, DeployedIs DEF DeployTypes
<1>6. CASE renderCloud(t)
  <2>1. PICK block, route, workersDev, p, found, r :
          /\ block = Source(e) /\ route = block.route /\ workersDev = block.workersDev
          /\ p = [block EXCEPT !.d1 = "real"] /\ found = s.route /\ r = [s EXCEPT !.d1 = TRUE]
    OBVIOUS
  <2>2. block \in Block
    BY <1>1, <1>4, <2>1, SourceIs
  <2>3. route \in BOOLEAN /\ workersDev \in BOOLEAN /\ found \in BOOLEAN
    BY <1>5, <2>1, <2>2 DEF Block, SetUpRow
  <2>4. IsFound(p, block, route, workersDev)
    BY <2>1, <2>2 DEF IsFound, Block
  <2>5. IsNoted(r, s, found)
    BY <1>5, <2>1 DEF IsNoted, SetUpRow
  <2>6. generated' = [generated EXCEPT ![e] = {p}]
    BY <1>2, <1>6, <2>1 DEF renderCloud, Env, Source
  <2>7. setUp' = [setUp EXCEPT ![e] = r]
    BY <1>2, <1>5, <1>6, <2>1 DEF renderCloud, Env
  <2>8. UNCHANGED <<tracked, built, deployed>> /\ overwritten' = overwritten /\ GoesTo(t, "build")
    BY <1>6 DEF renderCloud
  <2>9. /\ e \notin overwritten' => block = Source(e)
        /\ overwritten \subseteq overwritten' /\ IsNoted(r, setUp[e], found)
        /\ route = block.route /\ workersDev = block.workersDev /\ found = setUp[e].route
    BY <1>2, <2>1, <2>5, <2>8
  <2>10. commands[t] \in Finding
    BY <1>2, <1>4
  <2> QED
    BY <1>4, <2>2, <2>3, <2>4, <2>6, <2>7, <2>8, <2>9, <2>10, FindingWritten
<1>7. CASE renderDomain(t)
  <2>1. PICK yes \in BOOLEAN, no \in BOOLEAN : yes = TRUE /\ no = FALSE
    OBVIOUS
  <2>2. PICK block, p, r :
          /\ block = Contents(e, c.source)
          /\ p = [block EXCEPT !.d1 = "real", !.route = yes, !.workersDev = no]
          /\ r = [s EXCEPT !.d1 = TRUE, !.route = yes]
    OBVIOUS
  <2>3. block \in Block
    <3>1. c.name = "domain" /\ SourceKeeps(c) /\ c.source \in {"tracked", "generated"}
      BY <1>2, <1>4, <1>7 DEF renderDomain, InCommand, DeployInductive, PlansKeep, CommandKeeps, Finding
    <3>2. CASE c.source = "tracked"
      BY <1>5, <2>2, <3>2 DEF Contents
    <3>3. CASE c.source = "generated"
      <4>1. generated[e] # {}
        BY <1>2, <3>1, <3>3 DEF SourceKeeps
      <4> QED
        BY <1>5, <2>2, <3>3, <4>1, FileIs DEF Contents
    <3> QED
      BY <3>1, <3>2, <3>3
  <2>4. IsFound(p, block, yes, no) /\ IsNoted(r, s, yes)
    BY <2>2 DEF IsFound, IsNoted
  <2>5. generated' = [generated EXCEPT ![e] = {p}]
    BY <1>2, <1>7, <2>1, <2>2 DEF renderDomain, Env
  <2>6. setUp' = [setUp EXCEPT ![e] = r]
    BY <1>2, <1>5, <1>7, <2>1, <2>2 DEF renderDomain, Env, SetUpRow
  <2>7. UNCHANGED <<tracked, built, deployed>> /\ overwritten \subseteq overwritten' /\ GoesTo(t, "build")
    BY <1>7 DEF renderDomain
  <2>8. e \notin overwritten' => block = Source(e)
    BY <1>2, <1>7, <2>2 DEF renderDomain, Env, Source
  <2> QED
    BY <1>2, <1>4, <2>1, <2>3, <2>4, <2>5, <2>6, <2>7, <2>8, FindingWritten
<1> QED
  BY <1>6, <1>7

\* The steps of a deploy leave the files alone.
LEMMA DeployMoves ==
  ASSUME DeployTypes, PlansKeep, NEW t \in Terminals, UNCHANGED <<tracked, generated>>,
         \/ Ends(t)
         \/ commands[t] \in Finding /\ \E s \in DeploySteps : GoesTo(t, s)
  PROVE  commands' \in [Terminals -> Command] /\ PlansKeep'
<1>1. FilesStay /\ UNCHANGED tracked
  BY DEF FilesStay
<1>2. CASE Ends(t)
  <2>1. SourceKeeps(AtPrompt)'
    BY AtPromptIs DEF SourceKeeps
  <2>2. commands' = [commands EXCEPT ![t] = AtPrompt]
    BY <1>2 DEF Ends
  <2> QED
    BY <1>1, <2>1, <2>2, AtPromptIs, CommandMoves
<1>3. CASE commands[t] \in Finding /\ \E s \in DeploySteps : GoesTo(t, s)
  BY <1>1, <1>3, GoesOn
<1> QED
  BY <1>2, <1>3

LEMMA AtStepIs ==
  ASSUME DeployTypes, NEW t \in Terminals, NEW s \in DeploySteps, InDeploy(t, s)
  PROVE  commands[t] \in Finding /\ Env(t) \in Envs
BY CommandIs, FindingIs DEF InDeploy, Env, DeployTypes

LEMMA BuildKeeps ==
  ASSUME DeployInductive, NEW t \in Terminals, buildAppForDeploy(t)
  PROVE  DeployInductive'
<1>1. DeployTypes /\ FilesKeep /\ EnvsKeep /\ PlansKeep
  BY DEF DeployInductive
<1>2. PICK e, no, b : e = Env(t) /\ no = FALSE /\ b = [env |-> e, block |-> tracked[e], overlaid |-> no]
  OBVIOUS
<1>3. "build" \in DeploySteps /\ "patch" \in DeploySteps
  BY DEF DeploySteps
<1>4. commands[t] \in Finding /\ e \in Envs
  BY <1>1, <1>2, <1>3, AtStepIs DEF buildAppForDeploy
<1>5. built' = {b} /\ UNCHANGED <<tracked, generated, deployed, setUp, overwritten>> /\ GoesTo(t, "patch")
  BY <1>2 DEF buildAppForDeploy
<1>6. tracked[e] \in Block /\ deployedVars(e) = Overlaid(tracked[e], generated[e])
  BY <1>1, <1>4, DeployedIs
<1>7. b \in [env : Envs, block : Block, overlaid : BOOLEAN] /\ b.env = e /\ b.block = tracked[e] /\ ~b.overlaid
  BY <1>2, <1>4, <1>6
<1>8. commands' \in [Terminals -> Command] /\ PlansKeep'
  BY <1>1, <1>3, <1>4, <1>5, DeployMoves
<1>9. DeployTypes'
  BY <1>1, <1>5, <1>7, <1>8 DEF DeployTypes
<1>10. FilesKeep' /\ EnvsKeep'
  BY <1>1, <1>5 DEF FilesKeep, FileKeeps, EnvsKeep, EnvKeeps, deployedVars
<1>11. DistKeeps'
  <2>1. e \notin overwritten => \A old \in deployed[e] : Adds(old, Overlaid(tracked[e], generated[e]))
    BY <1>1, <1>4, <1>6 DEF EnvsKeep, EnvKeeps
  <2>2. Older(tracked[e], tracked[e])
    BY <1>6, OlderIsOrder
  <2>3. e \notin overwritten => BuiltKeeps(b)'
    BY <1>5, <1>7, <2>1, <2>2 DEF BuiltKeeps
  <2> QED
    BY <1>5, <1>7, <2>3 DEF DistKeeps
<1> QED
  BY <1>8, <1>9, <1>10, <1>11 DEF DeployInductive

LEMMA PatchKeeps ==
  ASSUME DeployInductive, NEW t \in Terminals, patchBuiltConfig(t)
  PROVE  DeployInductive'
<1>1. DeployTypes /\ FilesKeep /\ EnvsKeep /\ DistKeeps /\ PlansKeep
  BY DEF DeployInductive
<1>2. "patch" \in DeploySteps /\ "ship" \in DeploySteps
  BY DEF DeploySteps
<1>3. commands[t] \in Finding /\ Env(t) \in Envs
  BY <1>1, <1>2, AtStepIs DEF patchBuiltConfig
<1>4. UNCHANGED <<tracked, generated, deployed, setUp, overwritten>>
  BY DEF patchBuiltConfig
<1>5. CASE ~\E b \in built : b.env = Env(t)
  <2>1. Ends(t) /\ UNCHANGED built
    BY <1>5 DEF patchBuiltConfig
  <2> QED
    BY <1>4, <2>1, EndKeeps DEF Shelf
<1>6. CASE \E b \in built : b.env = Env(t)
  <2>1. PICK b \in built : b.env = Env(t)
    BY <1>6
  <2>2. PICK e, v, yes : e = Env(t) /\ v = Overlaid(b.block, generated[e]) /\ yes = TRUE
    OBVIOUS
  <2>3. PICK c : c = [b EXCEPT !.block = v, !.overlaid = yes]
    OBVIOUS
  <2>4. built = {b} /\ b \in [env : Envs, block : Block, overlaid : BOOLEAN]
    BY <1>1 DEF DeployTypes
  <2>5. /\ tracked[e] \in Block /\ generated[e] \in File /\ deployed[e] \in File
        /\ deployedVars(e) = Overlaid(tracked[e], generated[e]) /\ deployedVars(e) \in Block
    BY <1>1, <1>3, <2>2, DeployedIs
  <2>6. b.block \in Block /\ v \in Block
    BY <2>2, <2>4, <2>5, OverlaidIs
  <2>7. c \in [env : Envs, block : Block, overlaid : BOOLEAN] /\ c.env = e /\ c.block = v /\ c.overlaid
    BY <2>1, <2>2, <2>3, <2>4, <2>6
  <2>8. built' = {c} /\ GoesTo(t, "ship")
    BY <1>6, <2>2, <2>3, <2>4 DEF patchBuiltConfig
  <2>9. commands' \in [Terminals -> Command] /\ PlansKeep'
    BY <1>1, <1>2, <1>3, <1>4, <2>8, DeployMoves
  <2>10. DeployTypes'
    BY <1>1, <1>4, <2>7, <2>8, <2>9 DEF DeployTypes
  <2>11. FilesKeep' /\ EnvsKeep'
    BY <1>1, <1>4 DEF FilesKeep, FileKeeps, EnvsKeep, EnvKeeps, deployedVars
  <2>12. ASSUME e \notin overwritten
         PROVE  (\A old \in deployed[e] : Adds(old, v)) /\ Adds(v, deployedVars(e))
    <3>1. BuiltKeeps(b) /\ b.env = e
      BY <1>1, <2>1, <2>2, <2>12 DEF DistKeeps
    <3>2. CASE b.overlaid
      <4>1. (\A old \in deployed[e] : Adds(old, b.block)) /\ Adds(b.block, Overlaid(tracked[e], generated[e]))
        BY <2>5, <3>1, <3>2 DEF BuiltKeeps
      <4>2. Adds(b.block, v) /\ Adds(v, Overlaid(tracked[e], generated[e]))
        BY <2>2, <2>5, <2>6, <4>1, TwiceOverlaid
      <4>3. \A old \in deployed[e] : old \in Block
        BY <2>5 DEF File
      <4> QED
        BY <2>5, <2>6, <4>1, <4>2, <4>3, AddsIsOrder
    <3>3. CASE ~b.overlaid
      <4>1. /\ \A old \in deployed[e] : Adds(old, Overlaid(b.block, generated[e]))
            /\ Older(b.block, tracked[e])
        BY <3>1, <3>3 DEF BuiltKeeps
      <4>2. Adds(Overlaid(b.block, generated[e]), Overlaid(tracked[e], generated[e]))
        BY <2>5, <2>6, <4>1, OlderShips
      <4> QED
        BY <2>2, <2>5, <4>1, <4>2
    <3> QED
      BY <3>2, <3>3
  <2>13. DistKeeps'
    <3>1. deployedVars(e)' = deployedVars(e)
      BY <1>4 DEF deployedVars
    <3>2. e \notin overwritten => BuiltKeeps(c)'
      BY <1>4, <2>7, <2>12, <3>1 DEF BuiltKeeps
    <3> QED
      BY <1>4, <2>7, <2>8, <3>2 DEF DistKeeps
  <2> QED
    BY <2>9, <2>10, <2>11, <2>13 DEF DeployInductive
<1> QED
  BY <1>5, <1>6

\* A deploy ships what is in dist/, and takes nothing away.
ShippedAdds ==
  \A e \in Envs \ overwritten' : \A old \in deployed[e], new \in deployed'[e] : Adds(old, new)

LEMMA ShipKeeps ==
  ASSUME DeployInductive, NEW t \in Terminals, wranglerDeploy(t)
  PROVE  DeployInductive' /\ ShippedAdds
<1>1. DeployTypes /\ FilesKeep /\ EnvsKeep /\ DistKeeps /\ PlansKeep
  BY DEF DeployInductive
<1>2. UNCHANGED <<tracked, generated, built, setUp>> /\ Ends(t)
  BY DEF wranglerDeploy
<1>3. PICK b \in built : /\ deployed' = [deployed EXCEPT ![b.env] = {b.block}]
                         /\ overwritten' = IF b.overlaid THEN overwritten ELSE overwritten \union {b.env}
  BY DEF wranglerDeploy
<1>4. PICK e, v : e = b.env /\ v = b.block
  OBVIOUS
<1>5. /\ built = {b} /\ b \in [env : Envs, block : Block, overlaid : BOOLEAN]
      /\ e \in Envs /\ v \in Block
  BY <1>1, <1>4 DEF DeployTypes
<1>6. /\ tracked[e] \in Block /\ generated[e] \in File /\ deployed[e] \in File
      /\ deployedVars(e) \in Block
  BY <1>1, <1>5, DeployedIs
<1>7. deployed' \in [Envs -> File] /\ deployed'[e] = {v} /\ \A f \in Envs : f # e => deployed'[f] = deployed[f]
  <2>1. {v} \in File
    BY <1>5, OneIsFile
  <2> QED
    BY <1>1, <1>3, <1>4, <1>5, <2>1 DEF DeployTypes
<1>8. overwritten \subseteq overwritten' /\ (e \notin overwritten' => b.overlaid)
  BY <1>3, <1>4
<1>9. ASSUME e \notin overwritten'
      PROVE  (\A old \in deployed[e] : Adds(old, v)) /\ Adds(v, deployedVars(e))
  <2>1. BuiltKeeps(b) /\ b.overlaid
    BY <1>1, <1>4, <1>8, <1>9 DEF DistKeeps
  <2> QED
    BY <1>4, <2>1 DEF BuiltKeeps
<1>10. commands' \in [Terminals -> Command] /\ PlansKeep'
  BY <1>1, <1>2, DeployMoves
<1>11. DeployTypes' /\ FilesKeep'
  BY <1>1, <1>2, <1>7, <1>10 DEF DeployTypes, FilesKeep, FileKeeps
<1>12. \A f \in Envs : deployedVars(f)' = deployedVars(f)
  BY <1>2 DEF deployedVars
<1>13. EnvsKeep'
  <2> SUFFICES ASSUME NEW f \in Envs, f \notin overwritten'
               PROVE  EnvKeeps(f)'
    BY DEF EnvsKeep
  <2>1. EnvKeeps(f)
    BY <1>1, <1>8 DEF EnvsKeep
  <2>2. \A old \in deployed'[f] : Adds(old, deployedVars(f))
    <3>1. CASE f = e
      BY <1>7, <1>9, <3>1
    <3>2. CASE f # e
      BY <1>7, <2>1, <3>2 DEF EnvKeeps
    <3> QED
      BY <3>1, <3>2
  <2> QED
    BY <1>2, <1>12, <2>1, <2>2 DEF EnvKeeps
<1>14. DistKeeps'
  <2>1. e \notin overwritten' => BuiltKeeps(b)'
    <3> SUFFICES ASSUME e \notin overwritten'
                 PROVE  BuiltKeeps(b)'
      OBVIOUS
    <3>1. b.overlaid /\ Adds(v, v) /\ Adds(v, deployedVars(e))
      BY <1>5, <1>8, <1>9, AddsIsOrder
    <3> QED
      BY <1>4, <1>5, <1>7, <1>12, <3>1 DEF BuiltKeeps
  <2> QED
    BY <1>2, <1>4, <1>5, <2>1 DEF DistKeeps
<1>15. ShippedAdds
  <2> SUFFICES ASSUME NEW f \in Envs, f \notin overwritten',
                      NEW old \in deployed[f], NEW new \in deployed'[f]
               PROVE  Adds(old, new)
    BY DEF ShippedAdds
  <2>1. CASE f = e
    BY <1>7, <1>9, <2>1
  <2>2. CASE f # e
    <3>1. new \in deployed[f] /\ deployed[f] \in File
      BY <1>1, <1>7, <2>2, DeployedIs
    <3>2. old = new /\ new \in Block
      BY <3>1 DEF File
    <3> QED
      BY <3>2, AddsIsOrder
  <2> QED
    BY <2>1, <2>2
<1> QED
  BY <1>10, <1>11, <1>13, <1>14, <1>15 DEF DeployInductive

LEMMA EditKeeps ==
  ASSUME DeployInductive, edit
  PROVE  DeployInductive'
<1>1. DeployTypes /\ FilesKeep /\ EnvsKeep /\ DistKeeps /\ PlansKeep
  BY DEF DeployInductive
<1>2. UNCHANGED <<generated, built, deployed, setUp, overwritten, commands>>
  BY DEF edit
<1>3. PICK what : tracked' = [e \in Envs |-> Edited(tracked[e], what)]
  BY DEF edit
<1>4. \A e \in Envs : tracked[e] \in Block /\ tracked'[e] \in Block /\ Older(tracked[e], tracked'[e])
  BY <1>1, <1>3, EditedFields DEF DeployTypes
<1>5. tracked' \in [Envs -> Block]
  BY <1>3, <1>4
<1>6. DeployTypes' /\ PlansKeep'
  <2>1. FilesStay
    BY <1>2 DEF FilesStay
  <2>2. DeployTypes'
    BY <1>1, <1>2, <1>5 DEF DeployTypes
  <2> QED
    BY <1>1, <1>2, <1>4, <1>5, <2>1, <2>2, PlansStay
<1>7. FilesKeep'
  BY <1>1, <1>2, <1>4 DEF FilesKeep, FileKeeps, Older
<1>8. ASSUME NEW e \in Envs
      PROVE  /\ Adds(deployedVars(e), deployedVars(e)') /\ KeepsFrom(deployedVars(e), deployedVars(e)')
             /\ deployedVars(e) \in Block /\ deployedVars(e)' \in Block
  <2>1. PICK base, after, file : base = tracked[e] /\ after = tracked'[e] /\ file = generated[e]
    OBVIOUS
  <2>2. base \in Block /\ after \in Block /\ Older(base, after) /\ file \in File
    BY <1>1, <1>4, <2>1 DEF DeployTypes
  <2>3. deployedVars(e) = Overlaid(base, file) /\ deployedVars(e)' = Overlaid(after, file)
    BY <1>2, <2>1 DEF deployedVars
  <2> QED
    BY <2>2, <2>3, OlderShips, OverlaidIs
<1>9. EnvsKeep'
  <2> SUFFICES ASSUME NEW e \in Envs, e \notin overwritten
               PROVE  EnvKeeps(e)'
    BY <1>2 DEF EnvsKeep
  <2>1. PICK v, w, s : v = deployedVars(e) /\ w = deployedVars(e)' /\ s = setUp[e]
    OBVIOUS
  <2>2. /\ v \in Block /\ w \in Block /\ Adds(v, w) /\ KeepsFrom(v, w) /\ s \in SetUpRow
        /\ deployed[e] \in File
    BY <1>1, <1>8, <2>1 DEF DeployTypes
  <2>3. /\ Ships(s, v) /\ (s.from # NoSender => v.from = s.from)
        /\ \A g \in generated[e] : g.bounded => s.senders \subseteq g.senders
                                                /\ (tracked[e].bounded \/ s.restricted)
        /\ \A old \in deployed[e] : Adds(old, v)
    BY <1>1, <2>1 DEF EnvsKeep, EnvKeeps
  <2>4. Ships(s, w) /\ (s.from # NoSender => w.from = s.from)
    BY <2>2, <2>3, AddsShips DEF KeepsFrom
  <2>5. \A old \in deployed[e] : Adds(old, w)
    BY <2>2, <2>3, AddsIsOrder DEF File
  <2>6. tracked[e].bounded => tracked'[e].bounded
    BY <1>4 DEF Older
  <2> QED
    BY <1>2, <2>1, <2>3, <2>4, <2>5, <2>6 DEF EnvKeeps
<1>10. DistKeeps'
  <2> SUFFICES ASSUME NEW b \in built, b.env \notin overwritten
               PROVE  BuiltKeeps(b)'
    BY <1>2 DEF DistKeeps
  <2>1. BuiltKeeps(b) /\ b.env \in Envs /\ b.block \in Block
    BY <1>1 DEF DistKeeps, DeployTypes
  <2>2. PICK e : e = b.env
    OBVIOUS
  <2>3. CASE b.overlaid
    <3>1. (\A old \in deployed[e] : Adds(old, b.block)) /\ Adds(b.block, deployedVars(e))
      BY <2>1, <2>2, <2>3 DEF BuiltKeeps
    <3>2. Adds(b.block, deployedVars(e)')
      BY <1>8, <2>1, <2>2, <3>1, AddsIsOrder
    <3> QED
      BY <1>2, <2>2, <2>3, <3>1, <3>2 DEF BuiltKeeps
  <2>4. CASE ~b.overlaid
    <3>1. /\ \A old \in deployed[e] : Adds(old, Overlaid(b.block, generated[e]))
          /\ Older(b.block, tracked[e])
      BY <2>1, <2>2, <2>4 DEF BuiltKeeps
    <3>2. Older(b.block, tracked'[e])
      BY <1>4, <2>1, <2>2, <3>1, OlderIsOrder
    <3> QED
      BY <1>2, <2>2, <2>4, <3>1, <3>2 DEF BuiltKeeps
  <2> QED
    BY <2>3, <2>4
<1> QED
  BY <1>6, <1>7, <1>9, <1>10 DEF DeployInductive

LEMMA DeployStarts ==
  ASSUME DeployInit
  PROVE  DeployInductive
<1>1. PICK wide \in BOOLEAN, d \in Domains :
        tracked = [e \in Envs |->
            [domains |-> IF wide THEN {} ELSE {d}, from |-> IF wide THEN NoSender ELSE d,
             bounded |-> ~wide, senders |-> IF wide THEN {} ELSE {d},
             d1 |-> "placeholder", route |-> FALSE, workersDev |-> wide, structure |-> 0]]
  BY DEF DeployInit
<1>2. /\ generated = [e \in Envs |-> {}] /\ built = {} /\ deployed = [e \in Envs |-> {}]
      /\ commands = [t \in Terminals |-> AtPrompt] /\ setUp = [e \in Envs |-> NothingSetUp]
  BY DEF DeployInit
<1>3. PICK s, no : s = NothingSetUp /\ no = FALSE
  OBVIOUS
<1>4. /\ s \in SetUpRow /\ s.domains = {} /\ s.from = NoSender /\ s.senders = {} /\ ~s.d1 /\ ~s.route
  BY <1>3 DEF NothingSetUp, SetUpRow
<1>5. tracked \in [Envs -> Block] /\ \A e \in Envs : ~tracked[e].route
  <2>1. PICK bounded, domains, from, block :
          /\ bounded = ~wide /\ bounded \in BOOLEAN /\ domains = IF wide THEN {} ELSE {d}
          /\ from = IF wide THEN NoSender ELSE d
          /\ block = [domains |-> domains, from |-> from, bounded |-> bounded, senders |-> domains,
                      d1 |-> "placeholder", route |-> no, workersDev |-> wide, structure |-> 0]
    OBVIOUS
  <2>2. domains \in SUBSET Domains /\ from \in Domains \cup {NoSender} /\ no \in BOOLEAN
    BY <1>3, <2>1
  <2>3. block \in Block /\ block.route = no
    BY <2>1, <2>2 DEF Block
  <2>4. tracked = [e \in Envs |-> block]
    BY <1>1, <1>3, <2>1
  <2> QED
    BY <1>3, <2>3, <2>4
<1>6. DeployTypes
  <2>1. {} \in File
    BY DEF File
  <2> QED
    BY <1>2, <1>3, <1>4, <1>5, <2>1, AtPromptIs DEF DeployTypes
<1>7. FilesKeep
  BY <1>2, <1>3, <1>4, <1>5 DEF FilesKeep, FileKeeps
<1>8. EnvsKeep
  BY <1>2, <1>3, <1>4 DEF EnvsKeep, EnvKeeps, Ships
<1>9. DistKeeps /\ PlansKeep
  BY <1>2, AtPromptIs DEF DistKeeps, PlansKeep, CommandKeeps, SourceKeeps
<1> QED
  BY <1>6, <1>7, <1>8, <1>9 DEF DeployInductive

LEMMA DeployStep ==
  ASSUME DeployInductive, [DeployNext]_deployVars
  PROVE  DeployInductive'
<1>1. CASE UNCHANGED deployVars
  <2>1. UNCHANGED Shelf /\ UNCHANGED commands /\ UNCHANGED generated
    BY <1>1 DEF deployVars, Shelf
  <2>2. ShelfKeeps' /\ DeployTypes'
    BY <1>1, <2>1, ShelfStays DEF DeployInductive, ShelfKeeps, DeployTypes, deployVars
  <2>3. PlansKeep'
    BY <1>1 DEF DeployInductive, PlansKeep, CommandKeeps, PlanKeeps, SourceKeeps, deployVars
  <2> QED
    BY <2>2, <2>3 DEF DeployInductive, ShelfKeeps
<1>2. CASE edit
  BY <1>2, EditKeeps
<1>3. ASSUME NEW t \in Terminals, NEW e \in Envs, NEW d \in Domains,
             \/ \E asked \in SUBSET {"default", "restrict"} : setupSendingConfig(t, e, d, asked)
             \/ onboardConfig(t, e, d)
      PROVE  DeployInductive'
  BY <1>3, PlanningKeeps, OnboardingKeeps
<1>4. ASSUME NEW t \in Terminals, NEW e \in Envs, setupCloud(t, e) \/ setupDomain(t, e) \/ deployCommand(t, e)
      PROVE  DeployInductive'
  BY <1>4, StartingKeeps
<1>5. ASSUME NEW t \in Terminals,
             \/ writeSendingConfig(t) \/ renderCloud(t) \/ renderDomain(t)
             \/ buildAppForDeploy(t) \/ patchBuiltConfig(t) \/ wranglerDeploy(t) \/ CommandStops(t)
      PROVE  DeployInductive'
  <2>1. CASE CommandStops(t)
    BY <2>1, EndKeeps DEF CommandStops, Shelf
  <2> QED
    BY <1>5, <2>1, WritingKeeps, RenderingKeeps, BuildKeeps, PatchKeeps, ShipKeeps
<1> QED
  BY <1>1, <1>2, <1>3, <1>4, <1>5 DEF DeployNext

LEMMA SetUpHolds ==
  ASSUME DeployInductive
  PROVE  SetUpIsShipped
<1> SUFFICES ASSUME NEW e \in Envs, e \notin overwritten
             PROVE  /\ setUp[e].domains \subseteq deployedVars(e).domains
                    /\ setUp[e].from # NoSender => deployedVars(e).from = setUp[e].from
                    /\ setUp[e].d1 => deployedVars(e).d1 = "real"
                    /\ setUp[e].route => deployedVars(e).route /\ ~deployedVars(e).workersDev
                    /\ \A g \in generated[e] : g.bounded => setUp[e].senders \subseteq deployedVars(e).senders
                    /\ deployedVars(e).bounded => tracked[e].bounded \/ setUp[e].restricted
  BY DEF SetUpIsShipped
<1>1. EnvKeeps(e) /\ DeployTypes
  BY DEF DeployInductive, EnvsKeep
<1>2. PICK base, file, v, s : base = tracked[e] /\ file = generated[e] /\ v = deployedVars(e) /\ s = setUp[e]
  OBVIOUS
<1>3. base \in Block /\ file \in File /\ v = Overlaid(base, file)
  BY <1>1, <1>2, DeployedIs
<1>4. /\ Ships(s, v) /\ (s.from # NoSender => v.from = s.from)
      /\ \A g \in file : g.bounded => s.senders \subseteq g.senders /\ (base.bounded \/ s.restricted)
  BY <1>1, <1>2 DEF EnvKeeps
<1>5. /\ file = {} => v = base
      /\ \A g \in file : v.bounded = (base.bounded \/ g.bounded)
                         /\ v.senders = IF g.bounded THEN g.senders ELSE base.senders
  <2>1. file = {} => v = base
    BY <1>3, OverlaidIs
  <2>2. ASSUME NEW g \in file
        PROVE  v.bounded = (base.bounded \/ g.bounded) /\ v.senders = IF g.bounded THEN g.senders ELSE base.senders
    <3>1. g \in Block /\ v = applyGeneratedOverlay(base, g)
      BY <1>3, OverlaidIs DEF File
    <3> QED
      BY <1>3, <3>1, OverlayFields DEF OverlayOf
  <2> QED
    BY <2>1, <2>2
<1>6. \A g \in file : g.bounded => s.senders \subseteq v.senders
  BY <1>4, <1>5
<1>7. v.bounded => base.bounded \/ s.restricted
  BY <1>4, <1>5
<1> QED
  BY <1>2, <1>4, <1>6, <1>7 DEF Ships

\* Whatever commands are run, from any number of terminals and to whatever
\* step each gets, and whatever is edited in between, the next deploy of an
\* env ships what was set up for it, unless a stale plan or source was used.
THEOREM SetUpIsKept == DeployInit /\ [][DeployNext]_deployVars => []SetUpIsShipped
<1>1. DeployInit => DeployInductive
  BY DeployStarts
<1>2. DeployInductive /\ [DeployNext]_deployVars => DeployInductive'
  BY DeployStep
<1>3. DeployInductive => SetUpIsShipped
  BY SetUpHolds
<1> QED
  BY <1>1, <1>2, <1>3, PTL

\* And a deploy takes nothing away from the Worker it replaces, short of a
\* stale plan or source and of a build that another terminal put in dist/.
THEOREM DeploysAdd == DeployInit /\ [][DeployNext]_deployVars => DeploysOnlyAdd
<1> DEFINE Act == \A e \in Envs \ overwritten' : \A old \in deployed[e], new \in deployed'[e] :
                     /\ old.domains \subseteq new.domains
                     /\ old.route => new.route
                     /\ old.d1 = "real" => new.d1 = "real"
                     /\ old.structure <= new.structure
                     /\ new.workersDev => old.workersDev
<1>1. DeployInit => DeployInductive
  BY DeployStarts
<1>2. DeployInductive /\ [DeployNext]_deployVars => DeployInductive'
  BY DeployStep
<1>3. DeployInductive /\ [DeployNext]_deployVars => [Act]_deployVars
  <2> SUFFICES ASSUME DeployInductive, [DeployNext]_deployVars
               PROVE  Act
    OBVIOUS
  <2>1. CASE \E t \in Terminals : wranglerDeploy(t)
    BY <2>1, ShipKeeps DEF ShippedAdds, Adds
  <2>2. CASE UNCHANGED deployed
    <3>1. ASSUME NEW e \in Envs, NEW old \in deployed[e], NEW new \in deployed'[e]
          PROVE  old = new /\ old \in Block
      <4>1. deployed[e] \in File
        BY DEF DeployInductive, DeployTypes
      <4> QED
        BY <2>2, <4>1 DEF File
    <3> QED
      BY <3>1, AddsIsOrder DEF Adds
  <2>3. UNCHANGED deployed \/ \E t \in Terminals : wranglerDeploy(t)
    BY DEF DeployNext, edit, setupCloud, setupDomain, deployCommand, Starts, setupSendingConfig,
           onboardConfig, writesPlan, writeSendingConfig, renderCloud, renderDomain,
           buildAppForDeploy, patchBuiltConfig, CommandStops, deployVars
  <2> QED
    BY <2>1, <2>2, <2>3
<1> QED
  BY <1>1, <1>2, <1>3, PTL DEF DeploysOnlyAdd

--------------------------------------------------------------------------------
(* What is in place of a world.                                            *)

\* What step s of the manifest asks for, the key aside, which is in the store.
InPlace(s, w) ==
  /\ s = "sending" => w.enabled /\ w.records = "right" /\ w.feedback = "live"
  /\ s = "config" => w.generated
  /\ s = "deployed" => w.shipped
  /\ s = "routing" => w.routing # "off"
  /\ s = "rule" => w.rule = "worker"
  /\ s = "domain" => w.zone = "active"
  /\ s = "mailbox" => w.mailbox = "mine" /\ w.primary = "mine"
  /\ s = "alias" => w.alias = "mine"
  /\ s = "templates" => w.templates = "synced"
  /\ s = "topic" => w.topic = "ours"

\* Resolvers show nothing that the zone does not hold.
SeenLags(w) == w.seen \in {"none", w.records}

\* A world after another that takes nothing back.
Grows(w, v) ==
  /\ v \in World /\ SeenLags(v)
  /\ \A s \in StepNames : InPlace(s, w) => InPlace(s, v)
  /\ w.zone \in {"none", "active"} => v.zone \in {"none", "active"}

LEMMA StepsAre ==
  /\ DOMAIN Steps = 1 .. 11 /\ Len(Steps) = 11
  /\ Steps[11] = "key" /\ \A i \in 1 .. 11 : Steps[i] = "key" => i = 11
BY DEF Steps

LEMMA NamesAre ==
  StepNames = {"sending", "config", "deployed", "routing", "rule", "domain", "mailbox",
               "alias", "templates", "topic", "key"}
<1>1. \A i \in 1 .. 11 : Steps[i] \in {"sending", "config", "deployed", "routing", "rule",
        "domain", "mailbox", "alias", "templates", "topic", "key"}
  BY DEF Steps
<1>2. /\ Steps[1] = "sending" /\ Steps[2] = "config" /\ Steps[3] = "deployed"
      /\ Steps[4] = "routing" /\ Steps[5] = "rule" /\ Steps[6] = "domain"
      /\ Steps[7] = "mailbox" /\ Steps[8] = "alias" /\ Steps[9] = "templates"
      /\ Steps[10] = "topic" /\ Steps[11] = "key"
  BY DEF Steps
<1> QED
  BY <1>1, <1>2, StepsAre DEF StepNames

\* A world in place is set up.
LEMMA InPlaceIsSetUp ==
  ASSUME \A s \in StepNames : InPlace(s, world)
  PROVE  SetUpInPlace
<1>1. /\ InPlace("sending", world) /\ InPlace("config", world) /\ InPlace("deployed", world)
      /\ InPlace("routing", world) /\ InPlace("rule", world) /\ InPlace("domain", world)
      /\ InPlace("mailbox", world) /\ InPlace("alias", world)
      /\ InPlace("templates", world) /\ InPlace("topic", world)
  BY NamesAre
<1> QED
  BY <1>1 DEF InPlace, SetUpInPlace

\* A step found already right is in place.
LEMMA AlreadyIsInPlace ==
  ASSUME SeenLags(world), NEW s \in StepNames, Decision(s) = "already"
  PROVE  InPlace(s, world)
<1>1. s \in {"sending", "config", "deployed", "routing", "rule", "domain", "mailbox",
             "alias", "templates", "topic", "key"}
  BY NamesAre
<1>2. CASE s = "sending"
  <2>1. decideSendingTarget = "already"
    BY <1>2 DEF Decision
  <2> QED
    BY <1>2, <2>1 DEF decideSendingTarget, observeSending, Choose, SeenLags, InPlace
<1>3. CASE s = "config"
  BY <1>3 DEF Decision, decideSendingConfig, Choose, InPlace
<1>4. CASE s = "deployed"
  BY <1>4 DEF Decision, decideDeployedDomains, shipped, Choose, InPlace
<1>5. CASE s = "routing"
  BY <1>5 DEF Decision, decideRoutingEnabled, Choose, InPlace
<1>6. CASE s = "rule"
  BY <1>6 DEF Decision, decideRoutingRule, Choose, InPlace
<1>7. CASE s = "domain"
  BY <1>7 DEF Decision, decideDomain, Choose, InPlace
<1>8. CASE s = "mailbox"
  BY <1>8 DEF Decision, decideMailbox, Choose, InPlace
<1>9. CASE s = "alias"
  BY <1>9 DEF Decision, decideAlias, Choose, InPlace
<1>10. CASE s = "templates"
  BY <1>10 DEF Decision, decideTemplates, diffTemplates, Choose, InPlace
<1>11. CASE s = "topic"
  BY <1>11 DEF Decision, decideTelegramTopic, Choose, InPlace
<1>12. CASE s = "key"
  BY <1>12 DEF InPlace
<1> QED
  BY <1>1, <1>2, <1>3, <1>4, <1>5, <1>6, <1>7, <1>8, <1>9, <1>10, <1>11, <1>12

--------------------------------------------------------------------------------
(* What a step does to the world.                                          *)

LEMMA StandingGrows ==
  ASSUME NEW w \in World, SeenLags(w)
  PROVE  Grows(w, w)
BY DEF Grows

\* A world that is at least as far in every field is one that takes nothing back.
LEMMA GrowsBy ==
  ASSUME NEW w, NEW v \in World, SeenLags(v),
         w.enabled /\ w.records = "right" /\ w.feedback = "live" =>
           v.enabled /\ v.records = "right" /\ v.feedback = "live",
         w.generated => v.generated, w.shipped => v.shipped,
         w.routing # "off" => v.routing # "off",
         w.rule = "worker" => v.rule = "worker",
         w.zone = "active" => v.zone = "active",
         w.mailbox = "mine" /\ w.primary = "mine" => v.mailbox = "mine" /\ v.primary = "mine",
         w.alias = "mine" => v.alias = "mine",
         w.templates = "synced" => v.templates = "synced",
         w.topic = "ours" => v.topic = "ours",
         w.zone \in {"none", "active"} => v.zone \in {"none", "active"}
  PROVE  Grows(w, v)
BY DEF Grows, InPlace

LEMMA EnablingGrows ==
  ASSUME NEW w \in World, SeenLags(w)
  PROVE  LET v == [w EXCEPT !.enabled = TRUE] IN Grows(w, v)
<1>1. PICK b \in BOOLEAN : b = TRUE
  OBVIOUS
<1> DEFINE v == [w EXCEPT !.enabled = b]
<1>2. v \in World
  BY DEF World
<1>3. /\ v.enabled = b /\ v.records = w.records /\ v.seen = w.seen /\ v.feedback = w.feedback
      /\ v.generated = w.generated /\ v.shipped = w.shipped /\ v.routing = w.routing /\ v.rule = w.rule
      /\ v.zone = w.zone /\ v.mailbox = w.mailbox /\ v.primary = w.primary /\ v.alias = w.alias
      /\ v.templates = w.templates /\ v.topic = w.topic
  BY DEF World
<1>4. [w EXCEPT !.enabled = TRUE] = v
  BY <1>1
<1> HIDE DEF v
<1>5. Grows(w, v)
  BY <1>1, <1>2, <1>3, GrowsBy DEF SeenLags, InPlace
<1> QED
  BY <1>4, <1>5 DEF v

LEMMA GeneratingGrows ==
  ASSUME NEW w \in World, SeenLags(w)
  PROVE  LET v == [w EXCEPT !.generated = TRUE] IN Grows(w, v) /\ InPlace("config", v)
<1>1. PICK b \in BOOLEAN : b = TRUE
  OBVIOUS
<1> DEFINE v == [w EXCEPT !.generated = b]
<1>2. v \in World
  BY DEF World
<1>3. /\ v.enabled = w.enabled /\ v.records = w.records /\ v.seen = w.seen /\ v.feedback = w.feedback
      /\ v.generated = b /\ v.shipped = w.shipped /\ v.routing = w.routing /\ v.rule = w.rule
      /\ v.zone = w.zone /\ v.mailbox = w.mailbox /\ v.primary = w.primary /\ v.alias = w.alias
      /\ v.templates = w.templates /\ v.topic = w.topic
  BY DEF World
<1>4. [w EXCEPT !.generated = TRUE] = v
  BY <1>1
<1> HIDE DEF v
<1>5. Grows(w, v) /\ InPlace("config", v)
  BY <1>1, <1>2, <1>3, GrowsBy DEF SeenLags, InPlace
<1> QED
  BY <1>4, <1>5 DEF v

LEMMA RulingGrows ==
  ASSUME NEW w \in World, SeenLags(w)
  PROVE  LET v == [w EXCEPT !.rule = "worker"] IN Grows(w, v) /\ InPlace("rule", v)
<1>1. PICK x \in Destinations : x = "worker"
  BY DEF Destinations
<1> DEFINE v == [w EXCEPT !.rule = x]
<1>2. v \in World
  BY DEF World
<1>3. /\ v.enabled = w.enabled /\ v.records = w.records /\ v.seen = w.seen /\ v.feedback = w.feedback
      /\ v.generated = w.generated /\ v.shipped = w.shipped /\ v.routing = w.routing /\ v.rule = x
      /\ v.zone = w.zone /\ v.mailbox = w.mailbox /\ v.primary = w.primary /\ v.alias = w.alias
      /\ v.templates = w.templates /\ v.topic = w.topic
  BY DEF World
<1>4. [w EXCEPT !.rule = "worker"] = v
  BY <1>1
<1> HIDE DEF v
<1>5. Grows(w, v) /\ InPlace("rule", v)
  BY <1>1, <1>2, <1>3, GrowsBy DEF SeenLags, InPlace
<1> QED
  BY <1>4, <1>5 DEF v

LEMMA HousingGrows ==
  ASSUME NEW w \in World, SeenLags(w)
  PROVE  LET v == [w EXCEPT !.mailbox = "mine", !.primary = "mine"] IN Grows(w, v) /\ InPlace("mailbox", v)
<1>1. PICK x \in Mailboxes : x = "mine"
  BY DEF Mailboxes
<1>2. PICK y \in Aliases : y = "mine"
  BY DEF Aliases
<1> DEFINE v == [w EXCEPT !.mailbox = x, !.primary = y]
<1>3. v \in World
  BY DEF World
<1>4. /\ v.enabled = w.enabled /\ v.records = w.records /\ v.seen = w.seen /\ v.feedback = w.feedback
      /\ v.generated = w.generated /\ v.shipped = w.shipped /\ v.routing = w.routing /\ v.rule = w.rule
      /\ v.zone = w.zone /\ v.mailbox = x /\ v.primary = y /\ v.alias = w.alias
      /\ v.templates = w.templates /\ v.topic = w.topic
  BY DEF World
<1>5. [w EXCEPT !.mailbox = "mine", !.primary = "mine"] = v
  BY <1>1, <1>2
<1> HIDE DEF v
<1>6. Grows(w, v) /\ InPlace("mailbox", v)
  BY <1>1, <1>2, <1>3, <1>4, GrowsBy DEF SeenLags, InPlace
<1> QED
  BY <1>5, <1>6 DEF v

LEMMA HalfHousingGrows ==
  ASSUME NEW w \in World, SeenLags(w)
  PROVE  LET v == [w EXCEPT !.mailbox = "mine"] IN Grows(w, v)
<1>1. PICK x \in Mailboxes : x = "mine"
  BY DEF Mailboxes
<1> DEFINE v == [w EXCEPT !.mailbox = x]
<1>2. v \in World
  BY DEF World
<1>3. /\ v.enabled = w.enabled /\ v.records = w.records /\ v.seen = w.seen /\ v.feedback = w.feedback
      /\ v.generated = w.generated /\ v.shipped = w.shipped /\ v.routing = w.routing /\ v.rule = w.rule
      /\ v.zone = w.zone /\ v.mailbox = x /\ v.primary = w.primary /\ v.alias = w.alias
      /\ v.templates = w.templates /\ v.topic = w.topic
  BY DEF World
<1>4. [w EXCEPT !.mailbox = "mine"] = v
  BY <1>1
<1> HIDE DEF v
<1>5. Grows(w, v)
  BY <1>1, <1>2, <1>3, GrowsBy DEF SeenLags, InPlace
<1> QED
  BY <1>4, <1>5 DEF v

LEMMA AliasingGrows ==
  ASSUME NEW w \in World, SeenLags(w)
  PROVE  LET v == [w EXCEPT !.alias = "mine"] IN Grows(w, v) /\ InPlace("alias", v)
<1>1. PICK x \in Aliases : x = "mine"
  BY DEF Aliases
<1> DEFINE v == [w EXCEPT !.alias = x]
<1>2. v \in World
  BY DEF World
<1>3. /\ v.enabled = w.enabled /\ v.records = w.records /\ v.seen = w.seen /\ v.feedback = w.feedback
      /\ v.generated = w.generated /\ v.shipped = w.shipped /\ v.routing = w.routing /\ v.rule = w.rule
      /\ v.zone = w.zone /\ v.mailbox = w.mailbox /\ v.primary = w.primary /\ v.alias = x
      /\ v.templates = w.templates /\ v.topic = w.topic
  BY DEF World
<1>4. [w EXCEPT !.alias = "mine"] = v
  BY <1>1
<1> HIDE DEF v
<1>5. Grows(w, v) /\ InPlace("alias", v)
  BY <1>1, <1>2, <1>3, GrowsBy DEF SeenLags, InPlace
<1> QED
  BY <1>4, <1>5 DEF v

LEMMA TopicGrows ==
  ASSUME NEW w \in World, SeenLags(w)
  PROVE  LET v == [w EXCEPT !.topic = "ours"] IN Grows(w, v) /\ InPlace("topic", v)
<1>1. PICK x \in Topics : x = "ours"
  BY DEF Topics
<1> DEFINE v == [w EXCEPT !.topic = x]
<1>2. v \in World
  BY DEF World
<1>3. /\ v.enabled = w.enabled /\ v.records = w.records /\ v.seen = w.seen /\ v.feedback = w.feedback
      /\ v.generated = w.generated /\ v.shipped = w.shipped /\ v.routing = w.routing /\ v.rule = w.rule
      /\ v.zone = w.zone /\ v.mailbox = w.mailbox /\ v.primary = w.primary /\ v.alias = w.alias
      /\ v.templates = w.templates /\ v.topic = x
  BY DEF World
<1>4. [w EXCEPT !.topic = "ours"] = v
  BY <1>1
<1> HIDE DEF v
<1>5. Grows(w, v) /\ InPlace("topic", v)
  BY <1>1, <1>2, <1>3, GrowsBy DEF SeenLags, InPlace
<1> QED
  BY <1>4, <1>5 DEF v

LEMMA ShippingGrows ==
  ASSUME NEW w \in World, SeenLags(w)
  PROVE  LET v == [w EXCEPT !.shipped = TRUE] IN Grows(w, v)
<1>1. PICK b \in BOOLEAN : b = TRUE
  OBVIOUS
<1> DEFINE v == [w EXCEPT !.shipped = b]
<1>2. v \in World
  BY DEF World
<1>3. /\ v.enabled = w.enabled /\ v.records = w.records /\ v.seen = w.seen /\ v.feedback = w.feedback
      /\ v.generated = w.generated /\ v.shipped = b /\ v.routing = w.routing /\ v.rule = w.rule
      /\ v.zone = w.zone /\ v.mailbox = w.mailbox /\ v.primary = w.primary /\ v.alias = w.alias
      /\ v.templates = w.templates /\ v.topic = w.topic
  BY DEF World
<1>4. [w EXCEPT !.shipped = TRUE] = v
  BY <1>1
<1> HIDE DEF v
<1>5. Grows(w, v)
  BY <1>1, <1>2, <1>3, GrowsBy DEF SeenLags, InPlace
<1> QED
  BY <1>4, <1>5 DEF v

LEMMA LockingGrows ==
  ASSUME NEW w \in World, SeenLags(w)
  PROVE  LET v == [w EXCEPT !.session = "locked"] IN Grows(w, v)
<1>1. PICK x \in Sessions : x = "locked"
  BY DEF Sessions
<1> DEFINE v == [w EXCEPT !.session = x]
<1>2. v \in World
  BY DEF World
<1>3. /\ v.enabled = w.enabled /\ v.records = w.records /\ v.seen = w.seen /\ v.feedback = w.feedback
      /\ v.generated = w.generated /\ v.shipped = w.shipped /\ v.routing = w.routing /\ v.rule = w.rule
      /\ v.zone = w.zone /\ v.mailbox = w.mailbox /\ v.primary = w.primary /\ v.alias = w.alias
      /\ v.templates = w.templates /\ v.topic = w.topic
  BY DEF World
<1>4. [w EXCEPT !.session = "locked"] = v
  BY <1>1
<1> HIDE DEF v
<1>5. Grows(w, v)
  BY <1>1, <1>2, <1>3, GrowsBy DEF SeenLags, InPlace
<1> QED
  BY <1>4, <1>5 DEF v

LEMMA PropagatingGrows ==
  ASSUME NEW w \in World, SeenLags(w)
  PROVE  LET v == [w EXCEPT !.seen = w.records] IN Grows(w, v)
<1>1. PICK x \in DnsRecords : x = w.records
  BY DEF World
<1> DEFINE v == [w EXCEPT !.seen = x]
<1>2. v \in World
  BY DEF World
<1>3. /\ v.enabled = w.enabled /\ v.records = w.records /\ v.seen = x /\ v.feedback = w.feedback
      /\ v.generated = w.generated /\ v.shipped = w.shipped /\ v.routing = w.routing /\ v.rule = w.rule
      /\ v.zone = w.zone /\ v.mailbox = w.mailbox /\ v.primary = w.primary /\ v.alias = w.alias
      /\ v.templates = w.templates /\ v.topic = w.topic
  BY DEF World
<1>4. [w EXCEPT !.seen = w.records] = v
  BY <1>1
<1> HIDE DEF v
<1>5. Grows(w, v)
  BY <1>1, <1>2, <1>3, GrowsBy DEF SeenLags, InPlace
<1> QED
  BY <1>4, <1>5 DEF v

LEMMA SyncingGrows ==
  ASSUME NEW w \in World, SeenLags(w), NEW s \in TemplateLists, s # "none",
         s = "archived" => w.templates = "archived"
  PROVE  LET v == [w EXCEPT !.templates = s] IN Grows(w, v) /\ (s = "synced" => InPlace("templates", v))
<1> DEFINE v == [w EXCEPT !.templates = s]
<1>1. v \in World
  BY DEF World
<1>2. /\ v.enabled = w.enabled /\ v.records = w.records /\ v.seen = w.seen /\ v.feedback = w.feedback
      /\ v.generated = w.generated /\ v.shipped = w.shipped /\ v.routing = w.routing /\ v.rule = w.rule
      /\ v.zone = w.zone /\ v.mailbox = w.mailbox /\ v.primary = w.primary /\ v.alias = w.alias
      /\ v.templates = s /\ v.topic = w.topic
  BY DEF World
<1> HIDE DEF v
<1>3. Grows(w, v) /\ (s = "synced" => InPlace("templates", v))
  BY <1>1, <1>2, GrowsBy DEF SeenLags, InPlace, TemplateLists
<1> QED
  BY <1>3 DEF v

LEMMA RoutedGrows ==
  ASSUME NEW w \in World, SeenLags(w), NEW s \in Routings,
         s # "off"
  PROVE  LET v == [w EXCEPT !.routing = s] IN Grows(w, v) /\ InPlace("routing", v)
<1> DEFINE v == [w EXCEPT !.routing = s]
<1>1. v \in World
  BY DEF World
<1>2. /\ v.enabled = w.enabled /\ v.records = w.records /\ v.seen = w.seen /\ v.feedback = w.feedback
      /\ v.generated = w.generated /\ v.shipped = w.shipped /\ v.routing = s /\ v.rule = w.rule
      /\ v.zone = w.zone /\ v.mailbox = w.mailbox /\ v.primary = w.primary /\ v.alias = w.alias
      /\ v.templates = w.templates /\ v.topic = w.topic
  BY DEF World
<1> HIDE DEF v
<1>3. Grows(w, v) /\ InPlace("routing", v)
  BY <1>1, <1>2, GrowsBy DEF SeenLags, InPlace
<1> QED
  BY <1>3 DEF v

LEMMA ZonedGrows ==
  ASSUME NEW w \in World, SeenLags(w), NEW s \in Registrations,
         s = (IF w.zone = "none" THEN "active" ELSE w.zone)
  PROVE  LET v == [w EXCEPT !.zone = s] IN Grows(w, v) /\ (w.zone \in {"none", "active"} => InPlace("domain", v))
<1> DEFINE v == [w EXCEPT !.zone = s]
<1>1. v \in World
  BY DEF World
<1>2. /\ v.enabled = w.enabled /\ v.records = w.records /\ v.seen = w.seen /\ v.feedback = w.feedback
      /\ v.generated = w.generated /\ v.shipped = w.shipped /\ v.routing = w.routing /\ v.rule = w.rule
      /\ v.zone = s /\ v.mailbox = w.mailbox /\ v.primary = w.primary /\ v.alias = w.alias
      /\ v.templates = w.templates /\ v.topic = w.topic
  BY DEF World
<1> HIDE DEF v
<1>3. Grows(w, v) /\ (w.zone \in {"none", "active"} => InPlace("domain", v))
  BY <1>1, <1>2, GrowsBy DEF SeenLags, InPlace
<1> QED
  BY <1>3 DEF v

LEMMA PublishedGrows ==
  ASSUME NEW w \in World, SeenLags(w), w.records # "twice"
  PROVE  LET v == [w EXCEPT !.enabled = TRUE, !.records = "right"] IN Grows(w, v)
<1>0. w.records \in DnsRecords
  BY DEF World
<1>1. PICK b \in BOOLEAN : b = TRUE
  OBVIOUS
<1>2. PICK x \in DnsRecords : x = "right"
  BY DEF DnsRecords
<1> DEFINE v == [w EXCEPT !.enabled = b, !.records = x]
<1>3. v \in World
  BY DEF World
<1>4. /\ v.enabled = b /\ v.records = x /\ v.seen = w.seen /\ v.feedback = w.feedback
      /\ v.generated = w.generated /\ v.shipped = w.shipped /\ v.routing = w.routing /\ v.rule = w.rule
      /\ v.zone = w.zone /\ v.mailbox = w.mailbox /\ v.primary = w.primary /\ v.alias = w.alias
      /\ v.templates = w.templates /\ v.topic = w.topic
  BY DEF World
<1>5. [w EXCEPT !.enabled = TRUE, !.records = "right"] = v
  BY <1>1, <1>2
<1> HIDE DEF v
<1>6. Grows(w, v)
  BY <1>1, <1>2, <1>3, <1>4, <1>0, GrowsBy DEF SeenLags, InPlace, DnsRecords
<1> QED
  BY <1>5, <1>6 DEF v

LEMMA HeardGrows ==
  ASSUME NEW w \in World, SeenLags(w), w.records # "twice",
         NEW f \in Channels, w.feedback = "live" => f = "live"
  PROVE  LET v == [w EXCEPT !.enabled = TRUE, !.records = "right", !.feedback = f] IN Grows(w, v)
           /\ v.records = "right" /\ (v.feedback = "live" => InPlace("sending", v))
<1>0. w.records \in DnsRecords
  BY DEF World
<1>1. PICK b \in BOOLEAN : b = TRUE
  OBVIOUS
<1>2. PICK x \in DnsRecords : x = "right"
  BY DEF DnsRecords
<1> DEFINE v == [w EXCEPT !.enabled = b, !.records = x, !.feedback = f]
<1>3. v \in World
  BY DEF World
<1>4. /\ v.enabled = b /\ v.records = x /\ v.seen = w.seen /\ v.feedback = f
      /\ v.generated = w.generated /\ v.shipped = w.shipped /\ v.routing = w.routing /\ v.rule = w.rule
      /\ v.zone = w.zone /\ v.mailbox = w.mailbox /\ v.primary = w.primary /\ v.alias = w.alias
      /\ v.templates = w.templates /\ v.topic = w.topic
  BY DEF World
<1>5. [w EXCEPT !.enabled = TRUE, !.records = "right", !.feedback = f] = v
  BY <1>1, <1>2
<1> HIDE DEF v
<1>6. Grows(w, v)
           /\ v.records = "right" /\ (v.feedback = "live" => InPlace("sending", v))
  BY <1>1, <1>2, <1>3, <1>4, <1>0, GrowsBy DEF SeenLags, InPlace, DnsRecords
<1> QED
  BY <1>5, <1>6 DEF v

\* The command of the sending step.
LEMMA PublishingGrows ==
  ASSUME NEW w \in World, SeenLags(w)
  PROVE  /\ Grows(w, sendingCommand(w))
         /\ Grows(w, [w EXCEPT !.enabled = TRUE, !.records = sendingCommand(w).records])
         /\ sendingCommand(w).records = "right" /\ sendingCommand(w).feedback = "live" =>
              InPlace("sending", sendingCommand(w))
<1>1. CASE w.records = "twice"
  <2> DEFINE c == [w EXCEPT !.enabled = TRUE]
  <2>1. sendingCommand(w) = c
    BY <1>1 DEF sendingCommand
  <2>2. c.records = w.records
    BY DEF World
  <2>3. [w EXCEPT !.enabled = TRUE, !.records = w.records] = c
    BY DEF World
  <2> QED
    BY <1>1, <2>1, <2>2, <2>3, EnablingGrows
<1>2. CASE w.records # "twice"
  <2>1. PICK f \in Channels :
          f = IF w.feedback = "wrong_queue" THEN w.feedback ELSE "live"
    BY DEF Channels
  <2> DEFINE c == [w EXCEPT !.enabled = TRUE, !.records = "right", !.feedback = f]
  <2>2. sendingCommand(w) = c
    BY <1>2, <2>1 DEF sendingCommand
  <2>3. Grows(w, c) /\ c.records = "right" /\ (c.feedback = "live" => InPlace("sending", c))
    BY <1>2, <2>1, HeardGrows
  <2>4. Grows(w, [w EXCEPT !.enabled = TRUE, !.records = "right"])
    BY <1>2, PublishedGrows
  <2> QED
    BY <2>2, <2>3, <2>4
<1> QED
  BY <1>1, <1>2

\* The remedies change nothing that is in place.
LEMMA RemedyGrows ==
  ASSUME world \in World, SeenLags(world)
  PROVE  Grows(world, Remedied)
<1>1. /\ world.records \in DnsRecords /\ world.seen \in DnsRecords
      /\ world.feedback \in Channels
      /\ world.routing \in Routings
      /\ world.rule \in Destinations
      /\ world.primary \in Aliases
      /\ world.alias \in Aliases
      /\ world.templates \in TemplateLists
      /\ world.topic \in Topics
  BY DEF World
<1>2. PICK rec \in DnsRecords :
        rec = IF world.seen = "twice" THEN "none" ELSE world.records
  BY <1>1 DEF DnsRecords
<1>3. PICK sn \in DnsRecords :
        sn = IF world.seen = "twice" THEN "none" ELSE world.seen
  BY <1>1 DEF DnsRecords
<1>4. PICK fb \in Channels :
        fb = IF world.feedback = "wrong_queue" THEN "absent" ELSE world.feedback
  BY <1>1 DEF Channels
<1>5. PICK rt \in Routings :
        rt = IF world.routing = "unready" THEN "ready" ELSE world.routing
  BY <1>1 DEF Routings
<1>6. PICK rl \in Destinations :
        rl = IF world.rule = "elsewhere" THEN "none" ELSE world.rule
  BY <1>1 DEF Destinations
<1>7. PICK zn \in Registrations :
        zn = IF world.zone = "none" THEN "none" ELSE "active"
  BY <1>1 DEF Registrations
<1>8. PICK mb \in Mailboxes :
        mb = IF world.mailbox = "none" THEN "none" ELSE "mine"
  BY <1>1 DEF Mailboxes
<1>9. PICK pr \in Aliases :
        pr = IF world.primary = "elsewhere" THEN "none" ELSE world.primary
  BY <1>1 DEF Aliases
<1>10. PICK al \in Aliases :
        al = IF world.alias \in {"elsewhere", "disabled"} THEN "none" ELSE world.alias
  BY <1>1 DEF Aliases
<1>11. PICK tm \in TemplateLists :
        tm = IF world.templates = "archived" THEN "none" ELSE world.templates
  BY <1>1 DEF TemplateLists
<1>12. PICK tp \in Topics :
        tp = IF world.topic \in {"no forum", "other"} THEN "none" ELSE world.topic
  BY <1>1 DEF Topics
<1>13. PICK b \in BOOLEAN, o \in Sessions : b = TRUE /\ o = "open"
  BY DEF Sessions
<1> DEFINE v == [enabled |-> world.enabled, records |-> rec, seen |-> sn, feedback |-> fb,
                 token |-> b, generated |-> world.generated, shipped |-> world.shipped,
                 routing |-> rt, rule |-> rl, zone |-> zn, mailbox |-> mb, primary |-> pr,
                 alias |-> al, templates |-> tm, topic |-> tp, session |-> o]
<1>14. Remedied = v
  BY <1>2, <1>3, <1>4, <1>5, <1>6, <1>7, <1>8, <1>9, <1>10, <1>11, <1>12, <1>13 DEF Remedied
<1>15. v \in World
  BY DEF World
<1>16. SeenLags(v)
  BY <1>2, <1>3, <1>1 DEF SeenLags, DnsRecords
<1>17. Grows(world, v)
  <2>1. /\ v.enabled = world.enabled /\ v.records = rec /\ v.feedback = fb
        /\ v.generated = world.generated /\ v.shipped = world.shipped /\ v.routing = rt
        /\ v.rule = rl /\ v.zone = zn /\ v.mailbox = mb /\ v.primary = pr
        /\ v.alias = al /\ v.templates = tm /\ v.topic = tp
    OBVIOUS
  <2>2. world.records = "right" => rec = "right"
    BY <1>2 DEF SeenLags
  <2>3. /\ world.feedback = "live" => fb = "live"
        /\ world.routing # "off" => rt # "off"
        /\ world.rule = "worker" => rl = "worker"
        /\ world.zone = "active" => zn = "active"
        /\ world.zone \in {"none", "active"} => zn \in {"none", "active"}
    BY <1>4, <1>5, <1>6, <1>7
  <2>4. /\ world.mailbox = "mine" => mb = "mine"
        /\ world.primary = "mine" => pr = "mine"
        /\ world.alias = "mine" => al = "mine"
        /\ world.templates = "synced" => tm = "synced"
        /\ world.topic = "ours" => tp = "ours"
    BY <1>8, <1>9, <1>10, <1>11, <1>12
  <2> HIDE DEF v
  <2> QED
    BY <1>15, <1>16, <2>1, <2>2, <2>3, <2>4, GrowsBy
<1> QED
  BY <1>14, <1>17
--------------------------------------------------------------------------------
(* What holds of a run.                                                    *)

Place == [step : 0 .. 12, phase : Phases]
RunTypes ==
  /\ place \in [Runs -> Place] /\ mode \in [Runs -> {"dry-run", "apply"}]
  /\ unmet \in [Runs -> SUBSET StepNames] /\ minted \in [Runs -> Keys \union {NoKey}]
  /\ verdict \in [Runs -> {"none", "zero", "one"}]

StoreTypes == keys \in [Keys -> KeyStatus] /\ items \subseteq StoreItem
BudgetTypes == onboardFaults \in 0 .. MaxOnboardFaults /\ accidents \in Nat

\* A run holds a plaintext while it stores it, and only then.
Holding == {"store", "back", "revoke"}
HoldsKey(r) ==
  /\ place[r].phase \in Holding \cup {"post"} => place[r].step = 11
  /\ place[r].phase \in Holding => minted[r] \in Keys
  /\ place[r].phase \notin Holding => minted[r] = NoKey

\* What it reads back it has stored.
HasStored(r) == place[r].phase = "back" => \E i \in items : i.key = minted[r]

\* A zone it is about to create was nobody's.
ZoneIsFree(r) ==
  In(r, "domain", "apply") => world.zone \in {"none", "active"}

\* What it did not count as unmet is in place, and was when it ended with 0.
PassedIsInPlace(r) ==
  mode[r] = "apply" =>
    \A i \in 1 .. 11 : i < place[r].step /\ Steps[i] \notin unmet[r] => InPlace(Steps[i], world)

ZeroIsInPlace(r) == verdict[r] = "zero" => \A s \in StepNames : InPlace(s, world)

RunHolds(r) ==
  HoldsKey(r) /\ HasStored(r) /\ ZoneIsFree(r) /\ PassedIsInPlace(r) /\ ZeroIsInPlace(r)

OnboardInductive ==
  /\ world \in World /\ SeenLags(world) /\ RunTypes /\ StoreTypes /\ BudgetTypes
  /\ \A r \in Runs : RunHolds(r)
  /\ LostKeysAreCounted

\* No run is disturbed by a world that grows and a store that keeps its items.
LEMMA OthersHold ==
  ASSUME NEW q \in Runs, RunHolds(q), Grows(world, world'),
         place'[q] = place[q], mode'[q] = mode[q], unmet'[q] = unmet[q],
         minted'[q] = minted[q], verdict'[q] = verdict[q],
         place[q].phase = "back" => \E i \in items' : i.key = minted[q]
  PROVE  RunHolds(q)'
<1>1. HoldsKey(q)'
  BY DEF RunHolds, HoldsKey
<1>2. HasStored(q)'
  BY DEF HasStored
<1>3. ZoneIsFree(q)'
  BY DEF RunHolds, ZoneIsFree, In, StepOf, Grows
<1>4. PassedIsInPlace(q)'
  <2> SUFFICES ASSUME mode[q] = "apply", NEW i \in 1 .. 11, i < place[q].step,
                      Steps[i] \notin unmet[q]
               PROVE  InPlace(Steps[i], world')
    BY DEF PassedIsInPlace
  <2>1. InPlace(Steps[i], world)
    BY DEF RunHolds, PassedIsInPlace
  <2>2. Steps[i] \in StepNames
    BY StepsAre DEF StepNames
  <2> QED
    BY <2>1, <2>2 DEF Grows
<1>5. ZeroIsInPlace(q)'
  BY DEF RunHolds, ZeroIsInPlace, Grows
<1> QED
  BY <1>1, <1>2, <1>3, <1>4, <1>5 DEF RunHolds

\* A step is over: met, and then in place, or not.
Onward(r) ==
  \/ Advance(r, TRUE) /\ (mode[r] = "apply" => InPlace(StepOf(r), world'))
  \/ Advance(r, FALSE)

LEMMA AdvanceMoves ==
  ASSUME RunTypes, NEW r \in Runs, place[r].step \in 1 .. 11, Advance(r, TRUE) \/ Advance(r, FALSE)
  PROVE  /\ RunTypes'
         /\ mode' = mode /\ verdict' = verdict
         /\ place'[r] = [step |-> place[r].step + 1, phase |-> "decide"]
         /\ minted'[r] = NoKey /\ unmet[r] \subseteq unmet'[r]
         /\ \A q \in Runs : q # r =>
              place'[q] = place[q] /\ unmet'[q] = unmet[q] /\ minted'[q] = minted[q]
<1>1. place[r].step + 1 \in 0 .. 12
  OBVIOUS
<1>2. [step |-> place[r].step + 1, phase |-> "decide"] \in Place
  BY <1>1 DEF Place, Phases
<1>3. place' = [place EXCEPT ![r] = [step |-> place[r].step + 1, phase |-> "decide"]]
  BY DEF Advance
<1>4. minted' = [minted EXCEPT ![r] = NoKey] /\ mode' = mode /\ verdict' = verdict
  BY DEF Advance
<1>5. StepOf(r) \in StepNames
  BY StepsAre DEF StepOf, StepNames
<1>6. PICK u \in SUBSET StepNames : unmet' = [unmet EXCEPT ![r] = u] /\ unmet[r] \subseteq u
  <2>1. CASE Advance(r, TRUE)
    <3>1. unmet' = unmet
      BY <2>1 DEF Advance
    <3>2. unmet[r] \in SUBSET StepNames /\ unmet' = [unmet EXCEPT ![r] = unmet[r]]
      BY <3>1 DEF RunTypes
    <3> QED
      BY <3>2
  <2>2. CASE Advance(r, FALSE)
    <3>1. unmet' = [unmet EXCEPT ![r] = unmet[r] \union {StepOf(r)}]
      BY <2>2 DEF Advance
    <3>2. unmet[r] \union {StepOf(r)} \in SUBSET StepNames
      BY <1>5 DEF RunTypes
    <3> QED
      BY <3>1, <3>2
  <2> QED
    BY <2>1, <2>2
<1> QED
  BY <1>2, <1>3, <1>4, <1>6 DEF RunTypes

LEMMA AdvanceHolds ==
  ASSUME RunTypes, NEW r \in Runs, place[r].step \in 1 .. 11, Onward(r),
         \A q \in Runs : RunHolds(q), Grows(world, world'),
         \A q \in Runs : place[q].phase = "back" => \E i \in items' : i.key = minted[q]
  PROVE  RunTypes' /\ \A q \in Runs : RunHolds(q)'
<1> DEFINE p == [step |-> place[r].step + 1, phase |-> "decide"]
<1>1. /\ RunTypes' /\ mode' = mode /\ verdict' = verdict
      /\ place'[r] = p /\ minted'[r] = NoKey /\ unmet[r] \subseteq unmet'[r]
      /\ \A q \in Runs : q # r =>
           place'[q] = place[q] /\ unmet'[q] = unmet[q] /\ minted'[q] = minted[q]
  BY AdvanceMoves DEF Onward
<1>2. \A q \in Runs : q # r => RunHolds(q)'
  BY <1>1, OthersHold
<1>3. p.phase = "decide" /\ p.step = place[r].step + 1
  OBVIOUS
<1>4. HoldsKey(r)' /\ HasStored(r)' /\ ZoneIsFree(r)'
  BY <1>1, <1>3 DEF HoldsKey, HasStored, ZoneIsFree, In, Holding
<1>5. PassedIsInPlace(r)'
  <2> SUFFICES ASSUME mode[r] = "apply", NEW i \in 1 .. 11, i < place[r].step + 1,
                      Steps[i] \notin unmet'[r]
               PROVE  InPlace(Steps[i], world')
    BY <1>1, <1>3 DEF PassedIsInPlace
  <2>1. CASE i = place[r].step
    <3>1. Steps[i] = StepOf(r)
      BY <2>1 DEF StepOf
    <3>2. CASE Advance(r, FALSE)
      <4>1. StepOf(r) \in unmet'[r]
        BY <3>2 DEF Advance, RunTypes
      <4> QED
        BY <4>1, <3>1
    <3> QED
      BY <3>1, <3>2 DEF Onward
  <2>2. CASE i # place[r].step
    <3>1. i < place[r].step
      BY <2>2
    <3>2. InPlace(Steps[i], world)
      BY <3>1, <1>1 DEF RunHolds, PassedIsInPlace
    <3>3. Steps[i] \in StepNames
      BY StepsAre DEF StepNames
    <3> QED
      BY <3>2, <3>3 DEF Grows
  <2> QED
    BY <2>1, <2>2
<1>6. ZeroIsInPlace(r)'
  BY <1>1 DEF RunHolds, ZeroIsInPlace, Grows
<1> QED
  BY <1>1, <1>2, <1>4, <1>5, <1>6 DEF RunHolds

LEMMA EnterHolds ==
  ASSUME RunTypes, NEW r \in Runs, place[r].step \in 1 .. 11,
         NEW ph \in Phases, Enter(r, ph),
         NEW x \in Keys \union {NoKey}, minted' = [minted EXCEPT ![r] = x],
         ph \in Holding \cup {"post"} => place[r].step = 11,
         ph \in Holding => x \in Keys, ph \notin Holding => x = NoKey,
         ph = "back" => \E i \in items' : i.key = x,
         ph = "apply" /\ StepOf(r) = "domain" => world.zone \in {"none", "active"},
         \A q \in Runs : RunHolds(q), Grows(world, world'),
         \A q \in Runs : place[q].phase = "back" => \E i \in items' : i.key = minted[q]
  PROVE  RunTypes' /\ \A q \in Runs : RunHolds(q)'
<1>1. PICK p \in Place : p = [place[r] EXCEPT !.phase = ph] /\ p.step = place[r].step /\ p.phase = ph
  <2>1. place[r] \in Place
    BY DEF RunTypes
  <2>2. PICK n \in 0 .. 12, old \in Phases : place[r] = [step |-> n, phase |-> old]
    BY <2>1 DEF Place
  <2>3. [step |-> n, phase |-> ph] \in Place
    BY DEF Place
  <2>4. [place[r] EXCEPT !.phase = ph] = [step |-> n, phase |-> ph] /\ place[r].step = n
    BY <2>2
  <2> QED
    BY <2>3, <2>4
<1>2. place' = [place EXCEPT ![r] = p] /\ mode' = mode /\ unmet' = unmet /\ verdict' = verdict
  BY <1>1 DEF Enter
<1>3. RunTypes'
  BY <1>2 DEF RunTypes
<1>4. place'[r] = p /\ minted'[r] = x
  BY <1>2 DEF RunTypes
<1>5. \A q \in Runs : q # r => place'[q] = place[q] /\ minted'[q] = minted[q]
  BY <1>2 DEF RunTypes
<1>6. \A q \in Runs : q # r => RunHolds(q)'
  BY <1>2, <1>5, OthersHold
<1>7. HoldsKey(r)' /\ HasStored(r)'
  BY <1>1, <1>4 DEF HoldsKey, HasStored
<1>8. ZoneIsFree(r)'
  <2>1. world.zone \in {"none", "active"} => world'.zone \in {"none", "active"}
    BY DEF Grows
  <2>2. In(r, "domain", "apply")' => ph = "apply" /\ StepOf(r) = "domain"
    BY <1>1, <1>4 DEF In, StepOf
  <2> QED
    BY <2>1, <2>2 DEF ZoneIsFree
<1>9. PassedIsInPlace(r)'
  <2> SUFFICES ASSUME mode[r] = "apply", NEW i \in 1 .. 11, i < place[r].step, Steps[i] \notin unmet[r]
               PROVE  InPlace(Steps[i], world')
    BY <1>1, <1>2, <1>4 DEF PassedIsInPlace
  <2>1. InPlace(Steps[i], world) /\ Steps[i] \in StepNames
    BY StepsAre DEF RunHolds, PassedIsInPlace, StepNames
  <2> QED
    BY <2>1 DEF Grows
<1>10. ZeroIsInPlace(r)'
  BY <1>2 DEF RunHolds, ZeroIsInPlace, Grows
<1> QED
  BY <1>3, <1>6, <1>7, <1>8, <1>9, <1>10 DEF RunHolds

\* A run at rest has nothing to account for.
LEMMA RestHolds ==
  ASSUME RunTypes, NEW r \in Runs, place' = [place EXCEPT ![r] = Resting],
         minted' = [minted EXCEPT ![r] = NoKey], UNCHANGED <<mode, unmet, world, items>>,
         NEW v \in {"none", "zero", "one"}, verdict' = [verdict EXCEPT ![r] = v],
         v = "zero" => \A s \in StepNames : InPlace(s, world),
         world \in World, SeenLags(world), \A q \in Runs : RunHolds(q)
  PROVE  RunTypes' /\ \A q \in Runs : RunHolds(q)'
<1>1. Resting \in Place /\ Resting.step = 0 /\ Resting.phase = "idle"
  BY DEF Resting, Place, Phases
<1>2. RunTypes' /\ place'[r] = Resting /\ minted'[r] = NoKey /\ verdict'[r] = v
  BY <1>1 DEF RunTypes
<1>3. \A q \in Runs : q # r =>
        place'[q] = place[q] /\ minted'[q] = minted[q] /\ verdict'[q] = verdict[q]
  BY DEF RunTypes
<1>4. Grows(world, world')
  BY StandingGrows
<1>5. \A q \in Runs : q # r => RunHolds(q)'
  BY <1>3, <1>4, OthersHold DEF RunHolds, HasStored
<1>6. HoldsKey(r)' /\ HasStored(r)' /\ ZoneIsFree(r)' /\ PassedIsInPlace(r)'
  BY <1>1, <1>2 DEF HoldsKey, HasStored, ZoneIsFree, In, PassedIsInPlace, Holding
<1>7. ZeroIsInPlace(r)'
  BY <1>2 DEF ZeroIsInPlace
<1> QED
  BY <1>2, <1>5, <1>6, <1>7 DEF RunHolds

\* The world alone changes.
LEMMA WorldHolds ==
  ASSUME RunTypes, UNCHANGED runState, \A q \in Runs : RunHolds(q), Grows(world, world'),
         \A q \in Runs : place[q].phase = "back" => \E i \in items' : i.key = minted[q]
  PROVE  RunTypes' /\ \A q \in Runs : RunHolds(q)'
<1>1. /\ place' = place /\ mode' = mode /\ unmet' = unmet /\ minted' = minted
      /\ verdict' = verdict
  BY DEF runState
<1> QED
  BY <1>1, OthersHold DEF RunTypes

\* What was stored is still there to read back.
LEMMA StoredStays ==
  ASSUME \A q \in Runs : RunHolds(q), \A i \in items : \E j \in items' : j.key = i.key
  PROVE  \A q \in Runs : place[q].phase = "back" => \E i \in items' : i.key = minted[q]
BY DEF RunHolds, HasStored

--------------------------------------------------------------------------------
(* Keys whose secret is lost.                                              *)

LEMMA KeysAreFinite == IsFiniteSet(Orphans)
<1>1. Orphans \subseteq Keys
  BY DEF Orphans
<1> QED
  BY <1>1, OnboardingAssumption, FS_Subset

\* Nothing is lost that was not.
LEMMA NoMoreLost ==
  ASSUME LostKeysAreCounted, Orphans' \subseteq Orphans, accidents' = accidents, BudgetTypes
  PROVE  LostKeysAreCounted'
<1>1. Cardinality(Orphans') <= Cardinality(Orphans)
  BY KeysAreFinite, FS_Subset
<1>2. Cardinality(Orphans) \in Nat /\ Cardinality(Orphans') \in Nat
  BY KeysAreFinite, FS_Subset, FS_CardinalityType
<1> QED
  BY <1>1, <1>2 DEF LostKeysAreCounted, BudgetTypes

\* One key is lost, and counted.
LEMMA OneMoreLost ==
  ASSUME LostKeysAreCounted, NEW k, Orphans' \subseteq Orphans \cup {k},
         accidents' = accidents + 1, BudgetTypes
  PROVE  LostKeysAreCounted'
<1>1. /\ IsFiniteSet(Orphans \cup {k})
      /\ Cardinality(Orphans \cup {k}) = Cardinality(Orphans)
           \/ Cardinality(Orphans \cup {k}) = Cardinality(Orphans) + 1
  BY KeysAreFinite, FS_AddElement
<1>2. Cardinality(Orphans') <= Cardinality(Orphans \cup {k})
  BY <1>1, FS_Subset
<1>3. /\ Cardinality(Orphans) \in Nat /\ Cardinality(Orphans') \in Nat
      /\ Cardinality(Orphans \cup {k}) \in Nat
  BY <1>1, KeysAreFinite, FS_Subset, FS_CardinalityType
<1> QED
  BY <1>1, <1>2, <1>3 DEF LostKeysAreCounted, BudgetTypes

\* A run that holds no key advances without losing one.
LEMMA FreeHandsLoseNothing ==
  ASSUME RunTypes, NEW r \in Runs, minted[r] = NoKey,
         minted' = [minted EXCEPT ![r] = NoKey] \/ minted' = minted,
         \A k \in Keys : keys'[k] \in LiveStatus => keys[k] \in LiveStatus,
         \A i \in items : \E j \in items' : j.key = i.key
  PROVE  Orphans' \subseteq Orphans
<1>1. \A q \in Runs : minted'[q] = minted[q]
  BY DEF RunTypes
<1> QED
  BY <1>1 DEF Orphans

--------------------------------------------------------------------------------
(* The steps.                                                              *)

LEMMA BudgetsHold ==
  ASSUME BudgetTypes, UNCHANGED budgets \/ Fault(0)
  PROVE  BudgetTypes' /\ accidents' = accidents
BY OnboardingAssumption DEF BudgetTypes, budgets, Fault

LEMMA OneMoreFault ==
  ASSUME BudgetTypes, Fault(1)
  PROVE  BudgetTypes' /\ accidents' = accidents + 1
BY OnboardingAssumption DEF BudgetTypes, Fault

\* A step that makes no key live, and loses no item.
LEMMA MendingHolds ==
  ASSUME OnboardInductive, NEW r \in Runs, place[r].step \in 1 .. 11,
         place[r].phase \notin Holding, Onward(r), Grows(world, world'),
         keys' \in [Keys -> KeyStatus], items' \subseteq StoreItem,
         \A k \in Keys : keys'[k] \in LiveStatus => keys[k] \in LiveStatus,
         \A i \in items : \E j \in items' : j.key = i.key,
         UNCHANGED budgets \/ Fault(0)
  PROVE  OnboardInductive'
<1>1. /\ RunTypes /\ StoreTypes /\ BudgetTypes /\ LostKeysAreCounted
      /\ \A q \in Runs : RunHolds(q)
  BY DEF OnboardInductive
<1>2. RunTypes' /\ \A q \in Runs : RunHolds(q)'
  BY <1>1, StoredStays, AdvanceHolds
<1>3. minted[r] = NoKey /\ minted' = [minted EXCEPT ![r] = NoKey]
  BY <1>1 DEF Onward, Advance, RunHolds, HoldsKey
<1>4. LostKeysAreCounted'
  BY <1>1, <1>3, FreeHandsLoseNothing, BudgetsHold, NoMoreLost
<1>5. StoreTypes' /\ BudgetTypes'
  BY <1>1, BudgetsHold DEF StoreTypes
<1> QED
  BY <1>2, <1>4, <1>5 DEF OnboardInductive, Grows

\* A step that leaves the keys alone.
LEMMA OnwardHolds ==
  ASSUME OnboardInductive, NEW r \in Runs, place[r].step \in 1 .. 11,
         place[r].phase \notin Holding, Onward(r), Grows(world, world'),
         UNCHANGED keys, items' \subseteq StoreItem,
         \A i \in items : \E j \in items' : j.key = i.key,
         UNCHANGED budgets \/ Fault(0)
  PROVE  OnboardInductive'
<1>1. keys' \in [Keys -> KeyStatus]
  BY DEF OnboardInductive, StoreTypes
<1> QED
  BY <1>1, MendingHolds

LEMMA InIs ==
  ASSUME NEW r, NEW s, NEW ph, In(r, s, ph)
  PROVE  place[r].step \in 1 .. 11 /\ StepOf(r) = s /\ place[r].phase = ph
BY StepsAre DEF In

\* A step that does one thing.
LEMMA AppliedHolds ==
  ASSUME OnboardInductive, NEW r \in Runs, NEW s, NEW w, Applied(r, s, w, TRUE),
         Grows(world, w), InPlace(s, w)
  PROVE  OnboardInductive'
<1>1. In(r, s, "apply") /\ UNCHANGED <<keys, items>>
  BY DEF Applied
<1>2. place[r].step \in 1 .. 11 /\ StepOf(r) = s /\ place[r].phase \notin Holding
  BY <1>1, InIs DEF Holding
<1>3. Grows(world, world') /\ Onward(r) /\ (UNCHANGED budgets \/ Fault(0))
  <2>1. CASE world' = w /\ Advance(r, TRUE) /\ UNCHANGED budgets
    BY <2>1, <1>2 DEF Onward
  <2>2. CASE world' \in {world, w} /\ Fault(0) /\ Advance(r, FALSE)
    BY <2>2, StandingGrows DEF Onward, OnboardInductive
  <2> QED
    BY <2>1, <2>2 DEF Applied
<1> QED
  BY <1>1, <1>2, <1>3, OnwardHolds DEF OnboardInductive, StoreTypes

LEMMA SendingHolds ==
  ASSUME OnboardInductive, NEW r \in Runs, sendingStep(r)
  PROVE  OnboardInductive'
<1>1. In(r, "sending", "apply") /\ UNCHANGED <<keys, items>>
  BY DEF sendingStep
<1>2. place[r].step \in 1 .. 11 /\ StepOf(r) = "sending" /\ place[r].phase \notin Holding
  BY <1>1, InIs DEF Holding
<1>3. world \in World /\ SeenLags(world)
  BY DEF OnboardInductive
<1>4. Grows(world, world') /\ Onward(r) /\ (UNCHANGED budgets \/ Fault(0))
  <2>1. CASE /\ world' = sendingCommand(world) /\ UNCHANGED budgets
             /\ Advance(r, world'.records = "right" /\ world'.feedback = "live")
    <3>1. Grows(world, world')
      BY <2>1, <1>3, PublishingGrows
    <3>2. CASE world'.records = "right" /\ world'.feedback = "live"
      <4>1. Advance(r, TRUE)
        BY <2>1, <3>2 DEF Advance
      <4>2. InPlace("sending", world')
        BY <2>1, <3>2, <1>3, PublishingGrows
      <4> QED
        BY <2>1, <3>1, <4>1, <4>2, <1>2 DEF Onward
    <3>3. CASE ~(world'.records = "right" /\ world'.feedback = "live")
      <4>1. Advance(r, FALSE)
        BY <2>1, <3>3 DEF Advance
      <4> QED
        BY <2>1, <3>1, <4>1 DEF Onward
    <3> QED
      BY <3>2, <3>3
  <2>2. CASE /\ world' \in {[world EXCEPT !.enabled = TRUE],
                            [world EXCEPT !.enabled = TRUE, !.records = sendingCommand(world).records]}
             /\ Fault(0) /\ Advance(r, FALSE)
    BY <2>2, <1>3, EnablingGrows, PublishingGrows DEF Onward
  <2> QED
    BY <2>1, <2>2 DEF sendingStep
<1> QED
  BY <1>1, <1>2, <1>4, OnwardHolds DEF OnboardInductive, StoreTypes

LEMMA DoingHolds ==
  ASSUME OnboardInductive, NEW r \in Runs,
         \/ configStep(r) \/ routingEnableStep(r) \/ routingRuleStep(r) \/ domainStep(r)
         \/ aliasStep(r) \/ telegramTopicStep(r)
  PROVE  OnboardInductive'
<1>1. world \in World /\ SeenLags(world) /\ RunHolds(r)
  BY DEF OnboardInductive
<1>2. CASE configStep(r)
  BY <1>1, <1>2, AppliedHolds, GeneratingGrows DEF configStep
<1>3. CASE routingEnableStep(r)
  <2>1. PICK s \in {"ready", "unready"} :
          Applied(r, "routing", [world EXCEPT !.routing = IF @ = "off" THEN s ELSE @], TRUE)
    BY <1>3 DEF routingEnableStep
  <2>2. PICK x \in Routings : x = IF world.routing = "off" THEN s ELSE world.routing
    BY <1>1 DEF World, Routings
  <2>3. x # "off" /\ Applied(r, "routing", [world EXCEPT !.routing = x], TRUE)
    BY <2>1, <2>2
  <2> QED
    BY <1>1, <2>3, AppliedHolds, RoutedGrows
<1>4. CASE routingRuleStep(r)
  BY <1>1, <1>4, AppliedHolds, RulingGrows DEF routingRuleStep
<1>5. CASE domainStep(r)
  <2>1. PICK x \in Registrations : x = IF world.zone = "none" THEN "active" ELSE world.zone
    BY <1>1 DEF World, Registrations
  <2>2. Applied(r, "domain", [world EXCEPT !.zone = x], TRUE)
    BY <2>1, <1>5 DEF domainStep
  <2>3. world.zone \in {"none", "active"}
    BY <2>2, <1>1 DEF Applied, RunHolds, ZoneIsFree
  <2> QED
    BY <1>1, <2>1, <2>2, <2>3, AppliedHolds, ZonedGrows
<1>6. CASE aliasStep(r)
  BY <1>1, <1>6, AppliedHolds, AliasingGrows DEF aliasStep
<1>7. CASE telegramTopicStep(r)
  BY <1>1, <1>7, AppliedHolds, TopicGrows DEF telegramTopicStep
<1> QED
  BY <1>2, <1>3, <1>4, <1>5, <1>6, <1>7

LEMMA MailboxHolds ==
  ASSUME OnboardInductive, NEW r \in Runs, mailboxStep(r)
  PROVE  OnboardInductive'
<1>1. world \in World /\ SeenLags(world)
  BY DEF OnboardInductive
<1>2. CASE Applied(r, "mailbox", [world EXCEPT !.mailbox = "mine", !.primary = "mine"], TRUE)
  BY <1>1, <1>2, AppliedHolds, HousingGrows
<1>3. CASE /\ In(r, "mailbox", "apply") /\ Fault(0) /\ Advance(r, FALSE)
           /\ world' = [world EXCEPT !.mailbox = "mine"] /\ UNCHANGED <<keys, items>>
  <2>1. place[r].step \in 1 .. 11 /\ place[r].phase \notin Holding
    BY <1>3, InIs DEF Holding
  <2>2. Grows(world, world')
    BY <1>1, <1>3, HalfHousingGrows
  <2> QED
    BY <1>3, <2>1, <2>2, OnwardHolds DEF OnboardInductive, StoreTypes, Onward
<1> QED
  BY <1>2, <1>3 DEF mailboxStep

LEMMA TemplatesHold ==
  ASSUME OnboardInductive, NEW r \in Runs, templatesStep(r)
  PROVE  OnboardInductive'
<1>1. world \in World /\ SeenLags(world)
  BY DEF OnboardInductive
<1>2. PICK x \in TemplateLists :
        /\ x = IF world.templates = "archived" THEN "archived" ELSE "synced"
        /\ x # "none"
  BY DEF TemplateLists
<1> DEFINE w == [world EXCEPT !.templates = x]
<1>3. Applied(r, "templates", w, x = "synced")
  BY <1>2 DEF templatesStep, interpretTemplateSync
<1>4. Grows(world, w) /\ (x = "synced" => InPlace("templates", w))
  BY <1>1, <1>2, SyncingGrows
<1> HIDE DEF w
<1>5. CASE x = "synced"
  <2>1. Applied(r, "templates", w, TRUE)
    BY <1>3, <1>5 DEF Applied, Advance
  <2> QED
    BY <1>4, <1>5, <2>1, AppliedHolds
<1>6. CASE x # "synced"
  <2>1. In(r, "templates", "apply") /\ UNCHANGED <<keys, items>>
    BY <1>3 DEF Applied
  <2>2. place[r].step \in 1 .. 11 /\ place[r].phase \notin Holding
    BY <2>1, InIs DEF Holding
  <2>3. Advance(r, FALSE) /\ world' \in {world, w} /\ (UNCHANGED budgets \/ Fault(0))
    BY <1>3, <1>6 DEF Applied, Advance
  <2>4. Grows(world, world')
    BY <2>3, <1>4, <1>1, StandingGrows
  <2> QED
    BY <2>1, <2>2, <2>3, <2>4, OnwardHolds DEF OnboardInductive, StoreTypes, Onward
<1> QED
  BY <1>5, <1>6

LEMMA InductiveGives ==
  ASSUME OnboardInductive
  PROVE  /\ world \in World /\ SeenLags(world) /\ RunTypes /\ StoreTypes /\ BudgetTypes
         /\ LostKeysAreCounted /\ \A q \in Runs : RunHolds(q)
         /\ Grows(world, world)
BY StandingGrows DEF OnboardInductive

LEMMA SettleHolds ==
  ASSUME OnboardInductive, NEW r \in Runs, settle(r)
  PROVE  OnboardInductive'
<1>1. /\ place[r].step \in 1 .. 11 /\ place[r].phase = "decide"
      /\ UNCHANGED <<world, keys, items>>
  BY StepsAre DEF settle
<1>2. place[r].phase \notin Holding /\ minted[r] = NoKey /\ StepOf(r) \in StepNames
  BY <1>1, InductiveGives, StepsAre DEF RunHolds, HoldsKey, Holding, StepOf, StepNames
<1>3. Grows(world, world') /\ StoreTypes'
  BY <1>1, InductiveGives DEF StoreTypes
<1>4. CASE Onward(r) /\ (UNCHANGED budgets \/ Fault(0))
  BY <1>1, <1>2, <1>3, <1>4, OnwardHolds DEF StoreTypes
<1>5. CASE /\ Decision(StepOf(r)) = "todo" /\ Enter(r, "apply") /\ UNCHANGED <<minted, budgets>>
  <2>1. minted' = [minted EXCEPT ![r] = NoKey] /\ "apply" \in Phases
    BY <1>2, <1>5, InductiveGives DEF RunTypes, Phases
  <2>2. StepOf(r) = "domain" => world.zone \in {"none", "active"}
    <3> SUFFICES ASSUME StepOf(r) = "domain" PROVE world.zone \in {"none", "active"}
      OBVIOUS
    <3>1. decideDomain = "todo"
      BY <1>5 DEF Decision
    <3>2. world.zone \in Registrations
      BY InductiveGives DEF World
    <3> QED
      BY <3>1, <3>2 DEF decideDomain, Choose, Registrations
  <2>3. RunTypes' /\ \A q \in Runs : RunHolds(q)'
    <3>1. \A i \in items : \E j \in items' : j.key = i.key
      BY <1>1
    <3>2. \A q \in Runs : place[q].phase = "back" => \E i \in items' : i.key = minted[q]
      BY <3>1, InductiveGives, StoredStays
    <3>3. "apply" \notin Holding \cup {"post"} /\ "apply" # "back"
      BY DEF Holding
    <3> QED
      BY <1>1, <1>3, <1>5, <2>1, <2>2, <3>2, <3>3, InductiveGives, EnterHolds
  <2>4. LostKeysAreCounted' /\ BudgetTypes'
    <3>1. Orphans' \subseteq Orphans
      BY <1>1, <1>5 DEF Orphans
    <3>2. BudgetTypes' /\ accidents' = accidents
      BY <1>5, InductiveGives, BudgetsHold
    <3> QED
      BY <3>1, <3>2, InductiveGives, NoMoreLost
  <2> QED
    BY <1>3, <2>3, <2>4 DEF OnboardInductive, Grows
<1>6. CASE /\ Decision(StepOf(r)) # "todo" \/ mode[r] = "dry-run"
           /\ Advance(r, Decision(StepOf(r)) # "blocked") /\ UNCHANGED budgets
  <2>1. CASE Decision(StepOf(r)) = "blocked"
    <3>1. Advance(r, FALSE)
      BY <1>6, <2>1 DEF Advance
    <3> QED
      BY <3>1, <1>4, <1>6 DEF Onward
  <2>2. CASE Decision(StepOf(r)) # "blocked"
    <3>1. Advance(r, TRUE)
      BY <1>6, <2>2 DEF Advance
    <3>2. mode[r] = "apply" => Decision(StepOf(r)) = "already"
      BY <1>6, <2>2 DEF Decision, Choose, decideSendingTarget, decideSendingConfig,
         decideDeployedDomains, decideRoutingEnabled, decideRoutingRule, decideDomain,
         decideMailbox, decideAlias, decideTemplates, decideTelegramTopic, decideKey
    <3>3. mode[r] = "apply" => InPlace(StepOf(r), world')
      BY <3>2, <1>1, <1>2, InductiveGives, AlreadyIsInPlace
    <3> QED
      BY <3>1, <3>3, <1>4, <1>6 DEF Onward
  <2> QED
    BY <2>1, <2>2
<1>7. CASE Advance(r, FALSE) /\ (UNCHANGED budgets \/ Fault(0))
  BY <1>4, <1>7 DEF Onward
<1> QED
  BY <1>5, <1>6, <1>7 DEF settle

LEMMA StartHolds ==
  ASSUME OnboardInductive, NEW r \in Runs, NEW m \in {"dry-run", "apply"}, start(r, m)
  PROVE  OnboardInductive'
<1> DEFINE p == [step |-> 1, phase |-> "decide"]
<1>1. /\ place[r] = Resting /\ place' = [place EXCEPT ![r] = p]
      /\ mode' = [mode EXCEPT ![r] = m] /\ unmet' = [unmet EXCEPT ![r] = {}]
      /\ UNCHANGED <<world, keys, items, minted, verdict, budgets>>
      /\ verdict[r] # "zero"
  BY DEF start
<1>2. p \in Place /\ p.step = 1 /\ p.phase = "decide"
  BY DEF Place, Phases
<1> HIDE DEF p
<1>3. RunTypes' /\ place'[r] = p /\ mode'[r] = m /\ unmet'[r] = {}
  BY <1>1, <1>2, InductiveGives DEF RunTypes
<1>4. \A q \in Runs : q # r =>
        place'[q] = place[q] /\ mode'[q] = mode[q] /\ unmet'[q] = unmet[q]
  BY <1>1, InductiveGives DEF RunTypes
<1>5. \A q \in Runs : q # r => RunHolds(q)'
  BY <1>1, <1>4, InductiveGives, OthersHold DEF RunHolds, HasStored
<1>6. minted[r] = NoKey
  BY <1>1, InductiveGives DEF RunHolds, HoldsKey, Holding, Resting
<1>7. HoldsKey(r)' /\ HasStored(r)' /\ ZoneIsFree(r)'
  BY <1>1, <1>2, <1>3, <1>6 DEF HoldsKey, HasStored, ZoneIsFree, In, Holding
<1>8. PassedIsInPlace(r)' /\ ZeroIsInPlace(r)'
  BY <1>1, <1>2, <1>3 DEF PassedIsInPlace, ZeroIsInPlace
<1>9. LostKeysAreCounted' /\ BudgetTypes' /\ StoreTypes'
  BY <1>1, InductiveGives DEF LostKeysAreCounted, BudgetTypes, StoreTypes, Orphans, budgets
<1> QED
  BY <1>1, <1>3, <1>5, <1>7, <1>8, <1>9, InductiveGives DEF OnboardInductive, RunHolds

\* A sender name is corrected: what was live stays so, and nothing else is.
LEMMA RenamingKeepsLive ==
  ASSUME keys \in [Keys -> KeyStatus]
  PROVE  /\ renamed \in [Keys -> KeyStatus]
         /\ \A k \in Keys : renamed[k] \in LiveStatus <=> keys[k] \in LiveStatus
<1>1. ASSUME NEW k \in Keys
      PROVE  /\ (IF keys[k] = "misnamed" /\ \E i \in items : i.key = k
                 THEN "active" ELSE keys[k]) \in KeyStatus
             /\ renamed[k] = IF keys[k] = "misnamed" /\ \E i \in items : i.key = k
                             THEN "active" ELSE keys[k]
  BY DEF renamed, KeyStatus, LiveStatus
<1>2. renamed \in [Keys -> KeyStatus]
  BY <1>1 DEF renamed
<1>3. ASSUME NEW k \in Keys PROVE renamed[k] \in LiveStatus <=> keys[k] \in LiveStatus
  BY <1>1, <1>3 DEF LiveStatus
<1> QED
  BY <1>2, <1>3

LEMMA FixHolds ==
  ASSUME OnboardInductive, NEW r \in Runs, fixItem(r)
  PROVE  OnboardInductive'
<1>1. In(r, "key", "apply") /\ UNCHANGED world /\ keys' \in {keys, renamed}
  BY DEF fixItem
<1>2. place[r].step \in 1 .. 11 /\ StepOf(r) = "key" /\ place[r].phase \notin Holding
  BY <1>1, InIs DEF Holding
<1>3. Onward(r) /\ (UNCHANGED budgets \/ Fault(0))
  BY <1>1, <1>2 DEF fixItem, Onward, InPlace
<1>4. items' \subseteq StoreItem /\ \A i \in items : \E j \in items' : j.key = i.key
  <2>1. CASE UNCHANGED items
    BY <2>1, InductiveGives DEF StoreTypes
  <2>2. CASE items' = {[i EXCEPT !.endpoint = "right"] : i \in items}
    <3>1. \A i \in items : /\ [i EXCEPT !.endpoint = "right"] \in StoreItem
                           /\ [i EXCEPT !.endpoint = "right"].key = i.key
      BY InductiveGives DEF StoreTypes, StoreItem
    <3> QED
      BY <2>2, <3>1
  <2> QED
    BY <2>1, <2>2 DEF fixItem
<1>5. Grows(world, world')
  BY <1>1, InductiveGives
<1>6. keys \in [Keys -> KeyStatus]
  BY InductiveGives DEF StoreTypes
<1>7. /\ keys' \in [Keys -> KeyStatus]
      /\ \A k \in Keys : keys'[k] \in LiveStatus => keys[k] \in LiveStatus
  BY <1>1, <1>6, RenamingKeepsLive
<1> QED
  BY <1>2, <1>3, <1>4, <1>5, <1>7, MendingHolds

LEMMA MintHolds ==
  ASSUME OnboardInductive, NEW r \in Runs, mintKey(r)
  PROVE  OnboardInductive'
<1>1. In(r, "key", "apply") /\ UNCHANGED <<keys, budgets, world, items>>
  BY DEF mintKey, StoreUnchanged
<1>2. /\ place[r].step = 11 /\ place[r].step \in 1 .. 11
      /\ StepOf(r) = "key" /\ place[r].phase \notin Holding
  BY <1>1, InIs, StepsAre DEF Holding, StepOf
<1>3. CASE Enter(r, "post") /\ UNCHANGED minted
  <2>1. minted[r] = NoKey
    BY <1>2, InductiveGives DEF RunHolds, HoldsKey
  <2>2. minted' = [minted EXCEPT ![r] = NoKey] /\ "post" \in Phases
    BY <1>3, <2>1, InductiveGives DEF RunTypes, Phases
  <2>3. RunTypes' /\ \A q \in Runs : RunHolds(q)'
    <3>1. \A q \in Runs : place[q].phase = "back" => \E i \in items' : i.key = minted[q]
      BY <1>1, InductiveGives, StoredStays
    <3>2. "post" \notin Holding /\ "post" # "back" /\ "post" # "apply"
      BY DEF Holding
    <3>3. Grows(world, world')
      BY <1>1, InductiveGives
    <3> QED
      BY <1>2, <1>3, <2>2, <3>1, <3>2, <3>3, InductiveGives, EnterHolds
  <2>4. LostKeysAreCounted' /\ BudgetTypes' /\ StoreTypes'
    BY <1>1, <1>3, InductiveGives DEF LostKeysAreCounted, BudgetTypes, StoreTypes, Orphans, budgets
  <2> QED
    BY <1>1, <2>3, <2>4, InductiveGives DEF OnboardInductive
<1>4. CASE Advance(r, FALSE)
  <2>1. Grows(world, world') /\ items' \subseteq StoreItem
    BY <1>1, InductiveGives DEF StoreTypes
  <2> QED
    BY <1>1, <1>2, <1>4, <2>1, OnwardHolds DEF Onward
<1> QED
  BY <1>3, <1>4 DEF mintKey

\* A run in the middle of making its key: it goes on, or drops it.
LEMMA HandlingHolds ==
  ASSUME OnboardInductive, NEW r \in Runs, place[r].step = 11,
         UNCHANGED world, StoreTypes', BudgetTypes', LostKeysAreCounted',
         items \subseteq items',
         \/ Onward(r)
         \/ \E ph \in Holding, x \in Keys : /\ Enter(r, ph) /\ minted' = [minted EXCEPT ![r] = x]
                                            /\ ph = "back" => \E i \in items' : i.key = x
  PROVE  OnboardInductive'
<1>1. \A q \in Runs : place[q].phase = "back" => \E i \in items' : i.key = minted[q]
  BY InductiveGives, StoredStays
<1>2. Grows(world, world')
  BY InductiveGives
<1>3. CASE Onward(r)
  BY <1>1, <1>2, <1>3, InductiveGives, AdvanceHolds DEF OnboardInductive
<1>4. CASE \E ph \in Holding, x \in Keys : /\ Enter(r, ph) /\ minted' = [minted EXCEPT ![r] = x]
                                           /\ ph = "back" => \E i \in items' : i.key = x
  <2>1. PICK ph \in Holding, x \in Keys : /\ Enter(r, ph) /\ minted' = [minted EXCEPT ![r] = x]
                                          /\ ph = "back" => \E i \in items' : i.key = x
    BY <1>4
  <2>2. /\ ph \in Phases /\ ph # "apply" /\ x \in Keys \union {NoKey}
        /\ place[r].step \in 1 .. 11
    BY DEF Holding, Phases
  <2>3. RunTypes' /\ \A q \in Runs : RunHolds(q)'
    BY <1>1, <1>2, <2>1, <2>2, InductiveGives, EnterHolds
  <2> QED
    BY <1>2, <2>3 DEF OnboardInductive, Grows
<1> QED
  BY <1>3, <1>4

LEMMA CreateHolds ==
  ASSUME OnboardInductive, NEW r \in Runs, createKey(r)
  PROVE  OnboardInductive'
<1>1. In(r, "key", "post") /\ UNCHANGED <<world, items>>
  BY DEF createKey, StoreUnchanged
<1>2. /\ place[r].step = 11 /\ place[r].step \in 1 .. 11
      /\ StepOf(r) = "key" /\ place[r].phase = "post"
  BY <1>1, InIs, StepsAre DEF StepOf
<1>3. minted[r] = NoKey
  BY <1>2, InductiveGives DEF RunHolds, HoldsKey, Holding
<1>4. CASE \E k \in Keys :
            /\ keys[k] = "unborn"
            /\ keys' = [keys EXCEPT ![k] = "active"]
            /\ \/ minted' = [minted EXCEPT ![r] = k] /\ Enter(r, "store") /\ UNCHANGED budgets
               \/ Fault(1) /\ Advance(r, FALSE)
  <2>1. PICK k \in Keys :
            /\ keys' = [keys EXCEPT ![k] = "active"]
            /\ \/ minted' = [minted EXCEPT ![r] = k] /\ Enter(r, "store") /\ UNCHANGED budgets
               \/ Fault(1) /\ Advance(r, FALSE)
    BY <1>4
  <2>2. /\ StoreTypes' /\ \A x \in Keys : x # k => keys'[x] = keys[x]
    BY <1>1, <2>1, InductiveGives DEF StoreTypes, KeyStatus, LiveStatus
  <2>3. CASE minted' = [minted EXCEPT ![r] = k] /\ Enter(r, "store") /\ UNCHANGED budgets
    <3>1. minted'[r] = k /\ \A q \in Runs : q # r => minted'[q] = minted[q]
      BY <2>3, InductiveGives DEF RunTypes
    <3>2. Orphans' \subseteq Orphans
      BY <1>1, <1>3, <2>2, <3>1, OnboardingAssumption DEF Orphans
    <3>3. LostKeysAreCounted' /\ BudgetTypes'
      BY <2>3, <3>2, InductiveGives, BudgetsHold, NoMoreLost
    <3>4. "store" \in Holding /\ "store" # "back"
      BY DEF Holding
    <3> QED
      BY <1>1, <1>2, <2>2, <2>3, <3>3, <3>4, HandlingHolds
  <2>4. CASE Fault(1) /\ Advance(r, FALSE)
    <3>1. \A q \in Runs : minted'[q] = minted[q]
      BY <1>3, <2>4, InductiveGives DEF Advance, RunTypes
    <3>2. Orphans' \subseteq Orphans \cup {k}
      BY <1>1, <2>2, <3>1 DEF Orphans
    <3>3. LostKeysAreCounted' /\ BudgetTypes'
      BY <2>4, <3>2, InductiveGives, OneMoreFault, OneMoreLost
    <3> QED
      BY <1>1, <1>2, <2>2, <2>4, <3>3, HandlingHolds DEF Onward
  <2> QED
    BY <2>1, <2>3, <2>4
<1>5. CASE UNCHANGED keys /\ Fault(0) /\ Advance(r, FALSE)
  <2>1. Grows(world, world') /\ items' \subseteq StoreItem /\ place[r].phase \notin Holding
    BY <1>1, <1>2, InductiveGives DEF StoreTypes, Holding
  <2> QED
    BY <1>1, <1>2, <1>5, <2>1, OnwardHolds DEF Onward
<1> QED
  BY <1>4, <1>5 DEF createKey

LEMMA StoreHolds ==
  ASSUME OnboardInductive, NEW r \in Runs, opCreateFromTemplate(r)
  PROVE  OnboardInductive'
<1>1. In(r, "key", "store") /\ UNCHANGED <<world, keys, minted>>
  BY DEF opCreateFromTemplate
<1>2. place[r].step = 11 /\ place[r].phase = "store"
  BY <1>1, InIs, StepsAre DEF StepOf
<1>3. minted[r] \in Keys
  BY <1>2, InductiveGives DEF RunHolds, HoldsKey, Holding
<1>4. PICK it : it = buildOnePasswordItem(minted[r]) /\ it \in StoreItem /\ it.key = minted[r]
  <2>1. PICK e \in {"right", "stale"} : e = "right"
    OBVIOUS
  <2>2. buildOnePasswordItem(minted[r]) = [key |-> minted[r], endpoint |-> e]
    BY <2>1 DEF buildOnePasswordItem
  <2>3. /\ [key |-> minted[r], endpoint |-> e] \in StoreItem
        /\ [key |-> minted[r], endpoint |-> e].key = minted[r]
    BY <1>3 DEF StoreItem
  <2> QED
    BY <2>2, <2>3
<1>5. /\ items' \in {items, items \union {it}}
      /\ UNCHANGED budgets \/ Fault(0)
      /\ Enter(r, "revoke") \/ (Enter(r, "back") /\ it \in items')
  BY <1>4 DEF opCreateFromTemplate
<1>6. StoreTypes' /\ items \subseteq items'
  BY <1>1, <1>4, <1>5, InductiveGives DEF StoreTypes
<1>7. Orphans' \subseteq Orphans
  BY <1>1, <1>6 DEF Orphans
<1>8. LostKeysAreCounted' /\ BudgetTypes'
  BY <1>5, <1>7, InductiveGives, BudgetsHold, NoMoreLost
<1>9. minted' = [minted EXCEPT ![r] = minted[r]]
  BY <1>1, InductiveGives DEF RunTypes
<1>10. "back" \in Holding /\ "revoke" \in Holding /\ "revoke" # "back"
  BY DEF Holding
<1> QED
  BY <1>1, <1>2, <1>3, <1>4, <1>5, <1>6, <1>8, <1>9, <1>10, HandlingHolds

LEMMA RevokeHolds ==
  ASSUME OnboardInductive, NEW r \in Runs, revokeUnstored(r)
  PROVE  OnboardInductive'
<1>1. In(r, "key", "revoke") /\ UNCHANGED <<world, items>> /\ Advance(r, FALSE)
  BY DEF revokeUnstored, StoreUnchanged
<1>2. place[r].step = 11 /\ place[r].phase = "revoke"
  BY <1>1, InIs, StepsAre DEF StepOf
<1>3. minted[r] \in Keys
  BY <1>2, InductiveGives DEF RunHolds, HoldsKey, Holding
<1>4. \A q \in Runs : q # r => minted'[q] = minted[q]
  BY <1>1, InductiveGives DEF RunTypes, Advance
<1>5. CASE keys' = [keys EXCEPT ![minted[r]] = "revoked"] /\ UNCHANGED budgets
  <2>1. /\ StoreTypes' /\ keys'[minted[r]] \notin LiveStatus
        /\ \A k \in Keys : k # minted[r] => keys'[k] = keys[k]
    BY <1>1, <1>3, <1>5, InductiveGives DEF StoreTypes, KeyStatus, LiveStatus
  <2>2. Orphans' \subseteq Orphans
    BY <1>1, <1>4, <2>1 DEF Orphans
  <2>3. LostKeysAreCounted' /\ BudgetTypes'
    BY <1>5, <2>2, InductiveGives, BudgetsHold, NoMoreLost
  <2> QED
    BY <1>1, <1>2, <2>1, <2>3, HandlingHolds DEF Onward
<1>6. CASE UNCHANGED keys /\ Fault(1)
  <2>1. Orphans' \subseteq Orphans \cup {minted[r]}
    BY <1>1, <1>4, <1>6 DEF Orphans
  <2>2. LostKeysAreCounted' /\ BudgetTypes'
    BY <1>6, <2>1, InductiveGives, OneMoreFault, OneMoreLost
  <2>3. StoreTypes'
    BY <1>1, <1>6, InductiveGives DEF StoreTypes
  <2> QED
    BY <1>1, <1>2, <2>2, <2>3, HandlingHolds DEF Onward
<1> QED
  BY <1>5, <1>6 DEF revokeUnstored

LEMMA ReadBackHolds ==
  ASSUME OnboardInductive, NEW r \in Runs, readBack(r)
  PROVE  OnboardInductive'
<1>1. /\ In(r, "key", "back") /\ UNCHANGED <<world, items, keys, budgets>>
      /\ Advance(r, TRUE) \/ Advance(r, FALSE)
  BY DEF readBack, StoreUnchanged, Advance
<1>2. place[r].step = 11 /\ place[r].phase = "back" /\ StepOf(r) = "key"
  BY <1>1, InIs, StepsAre DEF StepOf
<1>3. \E i \in items : i.key = minted[r]
  BY <1>2, InductiveGives DEF RunHolds, HasStored
<1>4. \A q \in Runs : q # r => minted'[q] = minted[q]
  BY <1>1, InductiveGives DEF RunTypes, Advance
<1>5. Orphans' \subseteq Orphans
  BY <1>1, <1>3, <1>4 DEF Orphans
<1>6. LostKeysAreCounted' /\ BudgetTypes' /\ StoreTypes'
  BY <1>1, <1>5, InductiveGives, BudgetsHold, NoMoreLost DEF StoreTypes
<1>7. Onward(r)
  BY <1>1, <1>2 DEF Onward, InPlace
<1> QED
  BY <1>1, <1>2, <1>6, <1>7, HandlingHolds

LEMMA ExitHolds ==
  ASSUME OnboardInductive, NEW r \in Runs, exitCodeFor(r)
  PROVE  OnboardInductive'
<1> DEFINE v == IF unmet[r] = {} /\ mode[r] = "apply" THEN "zero" ELSE "one"
<1>1. /\ place[r].step = 12 /\ place' = [place EXCEPT ![r] = Resting]
      /\ verdict' = [verdict EXCEPT ![r] = v]
      /\ UNCHANGED <<world, keys, items, mode, unmet, minted, budgets>>
  BY StepsAre DEF exitCodeFor
<1>2. minted[r] = NoKey
  BY <1>1, InductiveGives DEF RunHolds, HoldsKey
<1>3. minted' = [minted EXCEPT ![r] = NoKey]
  BY <1>1, <1>2, InductiveGives DEF RunTypes
<1>4. v = "zero" => \A s \in StepNames : InPlace(s, world)
  <2> SUFFICES ASSUME unmet[r] = {}, mode[r] = "apply", NEW s \in StepNames
               PROVE  InPlace(s, world)
    OBVIOUS
  <2>1. PICK i \in 1 .. 11 : s = Steps[i]
    BY StepsAre DEF StepNames
  <2>2. i < place[r].step
    BY <1>1
  <2> QED
    BY <2>1, <2>2, InductiveGives DEF RunHolds, PassedIsInPlace
<1>5. v \in {"none", "zero", "one"}
  OBVIOUS
<1> HIDE DEF v
<1>6. RunTypes' /\ \A q \in Runs : RunHolds(q)'
  BY <1>1, <1>3, <1>4, <1>5, InductiveGives, RestHolds
<1>7. LostKeysAreCounted' /\ BudgetTypes' /\ StoreTypes'
  BY <1>1, InductiveGives DEF LostKeysAreCounted, BudgetTypes, StoreTypes, Orphans, budgets
<1> QED
  BY <1>1, <1>6, <1>7, InductiveGives DEF OnboardInductive

LEMMA DyingHolds ==
  ASSUME OnboardInductive, NEW r \in Runs, RunDies(r)
  PROVE  OnboardInductive'
<1>1. /\ Fault(IF minted[r] # NoKey THEN 1 ELSE 0)
      /\ place' = [place EXCEPT ![r] = Resting] /\ minted' = [minted EXCEPT ![r] = NoKey]
      /\ verdict' = [verdict EXCEPT ![r] = "one"]
      /\ UNCHANGED <<world, keys, items, mode, unmet>>
  BY DEF RunDies
<1>2. PICK v \in {"none", "zero", "one"} : v = "one"
  OBVIOUS
<1>3. RunTypes' /\ \A q \in Runs : RunHolds(q)'
  BY <1>1, <1>2, InductiveGives, RestHolds
<1>4. \A q \in Runs : q # r => minted'[q] = minted[q]
  BY <1>1, InductiveGives DEF RunTypes
<1>5. LostKeysAreCounted' /\ BudgetTypes'
  <2>1. CASE minted[r] = NoKey
    <3>1. Orphans' \subseteq Orphans
      BY <1>1, <2>1, InductiveGives, FreeHandsLoseNothing
    <3>2. Fault(0)
      BY <1>1, <2>1
    <3> QED
      BY <3>1, <3>2, InductiveGives, BudgetsHold, NoMoreLost
  <2>2. CASE minted[r] # NoKey
    <3>1. Orphans' \subseteq Orphans \cup {minted[r]}
      BY <1>1, <1>4 DEF Orphans
    <3>2. Fault(1)
      BY <1>1, <2>2
    <3> QED
      BY <3>1, <3>2, InductiveGives, OneMoreFault, OneMoreLost
  <2> QED
    BY <2>1, <2>2
<1> QED
  BY <1>1, <1>3, <1>5, InductiveGives DEF OnboardInductive, StoreTypes

LEMMA OutsideHolds ==
  ASSUME OnboardInductive, Propagate \/ sessionExpires \/ deploy \/ remedy
  PROVE  OnboardInductive'
<1>1. UNCHANGED <<keys, items, runState, budgets>>
  BY DEF Propagate, sessionExpires, deploy, remedy
<1>2. Grows(world, world')
  BY InductiveGives, PropagatingGrows, LockingGrows, ShippingGrows, RemedyGrows
  DEF Propagate, sessionExpires, deploy, remedy
<1>3. \A q \in Runs : place[q].phase = "back" => \E i \in items' : i.key = minted[q]
  BY <1>1, InductiveGives, StoredStays
<1>4. RunTypes' /\ \A q \in Runs : RunHolds(q)'
  BY <1>1, <1>2, <1>3, InductiveGives, WorldHolds
<1>5. LostKeysAreCounted' /\ BudgetTypes' /\ StoreTypes'
  BY <1>1, InductiveGives
  DEF LostKeysAreCounted, BudgetTypes, StoreTypes, Orphans, budgets, runState
<1> QED
  BY <1>2, <1>4, <1>5 DEF OnboardInductive, Grows

LEMMA RevokingKeyHolds ==
  ASSUME OnboardInductive, revokeKey
  PROVE  OnboardInductive'
<1>1. UNCHANGED <<world, items, runState, budgets>>
  BY DEF revokeKey
<1>2. PICK i \in items : i.key \in Keys /\ keys' = [keys EXCEPT ![i.key] = "revoked"]
  BY DEF revokeKey
<1>3. StoreTypes'
  BY <1>1, <1>2, InductiveGives DEF StoreTypes, KeyStatus
<1>4. \A k \in Keys : keys'[k] \in LiveStatus => keys[k] \in LiveStatus
  BY <1>2, InductiveGives DEF StoreTypes, LiveStatus
<1>5. Orphans' \subseteq Orphans
  BY <1>1, <1>4 DEF Orphans, runState
<1>6. LostKeysAreCounted' /\ BudgetTypes'
  BY <1>1, <1>5, InductiveGives, BudgetsHold, NoMoreLost
<1>7. \A q \in Runs : place[q].phase = "back" => \E j \in items' : j.key = minted[q]
  BY <1>1, InductiveGives, StoredStays
<1>8. RunTypes' /\ \A q \in Runs : RunHolds(q)'
  BY <1>1, <1>7, InductiveGives, WorldHolds
<1> QED
  BY <1>1, <1>3, <1>6, <1>8, InductiveGives DEF OnboardInductive

LEMMA DeletingHolds ==
  ASSUME OnboardInductive, deleteItem
  PROVE  OnboardInductive'
<1>1. Between /\ UNCHANGED <<world, keys, runState, onboardFaults>>
  BY DEF deleteItem
<1>2. PICK i \in items : /\ items' = items \ {i}
                         /\ accidents' = accidents
                              + (IF i.key \in Keys /\ keys[i.key] \in LiveStatus THEN 1 ELSE 0)
  BY DEF deleteItem
<1>3. \A q \in Runs : place[q].phase = "back" => \E j \in items' : j.key = minted[q]
  BY <1>1 DEF Between, Resting
<1>4. RunTypes' /\ \A q \in Runs : RunHolds(q)'
  BY <1>1, <1>3, InductiveGives, WorldHolds
<1>5. minted' = minted /\ StoreTypes' /\ BudgetTypes'
  BY <1>1, <1>2, InductiveGives DEF runState, StoreTypes, BudgetTypes
<1>6. LostKeysAreCounted'
  <2>1. CASE i.key \in Keys /\ keys[i.key] \in LiveStatus
    <3>1. Orphans' \subseteq Orphans \cup {i.key}
      BY <1>1, <1>2, <1>5 DEF Orphans
    <3> QED
      BY <1>2, <2>1, <3>1, InductiveGives, OneMoreLost
  <2>2. CASE ~(i.key \in Keys /\ keys[i.key] \in LiveStatus)
    <3>1. Orphans' \subseteq Orphans
      BY <1>1, <1>2, <1>5, <2>2 DEF Orphans
    <3>2. accidents' = accidents
      BY <1>2, <2>2, InductiveGives DEF BudgetTypes
    <3> QED
      BY <3>1, <3>2, InductiveGives, NoMoreLost
  <2> QED
    BY <2>1, <2>2
<1> QED
  BY <1>1, <1>4, <1>5, <1>6, InductiveGives DEF OnboardInductive

LEMMA OnboardStarts ==
  ASSUME OnboardInit
  PROVE  OnboardInductive
<1>1. PICK b \in Beginnings : world = b.world /\ items = b.items /\ keys = b.keys
  BY DEF OnboardInit
<1>2. world \in World /\ SeenLags(world) /\ StoreTypes
  BY <1>1, OnboardingAssumption DEF SeenLags, StoreTypes
<1>3. Resting \in Place /\ Resting.step = 0 /\ Resting.phase = "idle"
  BY DEF Resting, Place, Phases
<1>4. RunTypes
  BY <1>3 DEF OnboardInit, RunTypes
<1>5. BudgetTypes /\ LostKeysAreCounted
  BY KeysAreFinite, FS_CardinalityType, OnboardingAssumption
  DEF OnboardInit, BudgetTypes, LostKeysAreCounted
<1>6. \A r \in Runs : RunHolds(r)
  <2> SUFFICES ASSUME NEW r \in Runs PROVE RunHolds(r)
    OBVIOUS
  <2>1. place[r] = Resting /\ minted[r] = NoKey /\ verdict[r] = "none"
    BY DEF OnboardInit
  <2> QED
    BY <1>3, <2>1 DEF RunHolds, HoldsKey, HasStored, ZoneIsFree, In, PassedIsInPlace,
       ZeroIsInPlace, Holding
<1> QED
  BY <1>2, <1>4, <1>5, <1>6 DEF OnboardInductive

LEMMA OnboardSteps ==
  ASSUME OnboardInductive, [OnboardNext]_onboardVars
  PROVE  OnboardInductive'
<1>1. CASE UNCHANGED onboardVars
  <2>1. UNCHANGED <<world, keys, items, runState, budgets>>
    BY <1>1 DEF onboardVars
  <2>2. \A q \in Runs : place[q].phase = "back" => \E i \in items' : i.key = minted[q]
    BY <2>1, InductiveGives, StoredStays
  <2>3. RunTypes' /\ \A q \in Runs : RunHolds(q)'
    BY <2>1, <2>2, InductiveGives, WorldHolds
  <2>4. LostKeysAreCounted' /\ BudgetTypes' /\ StoreTypes'
    BY <2>1, InductiveGives
    DEF LostKeysAreCounted, BudgetTypes, StoreTypes, Orphans, budgets, runState
  <2> QED
    BY <2>1, <2>3, <2>4, InductiveGives DEF OnboardInductive
<1>2. ASSUME NEW r \in Runs, RunStep(r) PROVE OnboardInductive'
  BY <1>2, SettleHolds, SendingHolds, DoingHolds, MailboxHolds, TemplatesHold, FixHolds,
     MintHolds, CreateHolds, StoreHolds, RevokeHolds, ReadBackHolds, ExitHolds
  DEF RunStep, mint
<1>3. ASSUME NEW r \in Runs, RunDies(r) \/ \E m \in {"dry-run", "apply"} : start(r, m)
      PROVE  OnboardInductive'
  BY <1>3, DyingHolds, StartHolds
<1>4. ASSUME Propagate \/ sessionExpires \/ deploy \/ remedy \/ revokeKey \/ deleteItem
      PROVE  OnboardInductive'
  BY <1>4, OutsideHolds, RevokingKeyHolds, DeletingHolds
<1> QED
  BY <1>1, <1>2, <1>3, <1>4 DEF OnboardNext

LEMMA InductiveIsWhole ==
  ASSUME OnboardInductive
  PROVE  OnboardTypeOK /\ LostKeysAreCounted /\ ZeroIsSetUp
<1>1. OnboardTypeOK
  BY InductiveGives, StepsAre DEF OnboardTypeOK, RunTypes, StoreTypes, BudgetTypes, Place
<1>2. ZeroIsSetUp
  BY InductiveGives, InPlaceIsSetUp DEF ZeroIsSetUp, RunHolds, ZeroIsInPlace
<1> QED
  BY <1>1, <1>2, InductiveGives

(* What onboarding leaves behind, for any number of terminals: a key whose *)
(* secret is stored nowhere is counted, and exit code 0 says what is set   *)
(* up and stays set up (runSteps and exitCodeFor, lib/onboard-core.ts).    *)
THEOREM ExitZeroIsTrue == OnboardSpec => [](OnboardTypeOK /\ LostKeysAreCounted /\ ZeroIsSetUp)
<1>1. OnboardInit => OnboardInductive
  BY OnboardStarts
<1>2. OnboardInductive /\ [OnboardNext]_onboardVars => OnboardInductive'
  BY OnboardSteps
<1>3. OnboardInductive => OnboardTypeOK /\ LostKeysAreCounted /\ ZeroIsSetUp
  BY InductiveIsWhole
<1> QED
  BY <1>1, <1>2, <1>3, PTL DEF OnboardSpec

--------------------------------------------------------------------------------
(* One terminal: the key an item names stays live.                         *)

OneRun == \A p, q \in Runs : p = q

LiveItem == \E i \in items : HasLiveKey(i)

\* What is about to be corrected can be, what is being stored is live, and a
\* run that has passed the key, or ended with 0, has a live item to show.
KeyWorks(r) ==
  /\ In(r, "key", "apply") => \A i \in items : Mendable(i)
  /\ place[r].phase \in Holding => keys[minted[r]] = "active"
  /\ mode[r] = "apply" /\ place[r].step = 12 /\ "key" \notin unmet[r] => LiveItem
  /\ verdict[r] = "zero" => place[r] = Resting /\ LiveItem

KeyInductive == OnboardInductive /\ \A r \in Runs : KeyWorks(r)

LEMMA KeyAdvances ==
  ASSUME OnboardInductive, NEW r \in Runs, KeyWorks(r), place[r].step \in 1 .. 11,
         Advance(r, TRUE) \/ Advance(r, FALSE),
         place[r].step # 11 \/ mode[r] # "apply" \/ Advance(r, FALSE) \/ LiveItem'
  PROVE  KeyWorks(r)'
<1> DEFINE p == [step |-> place[r].step + 1, phase |-> "decide"]
<1>1. place'[r] = p /\ mode' = mode /\ verdict' = verdict
  BY InductiveGives, AdvanceMoves
<1>2. p.step = place[r].step + 1 /\ p.phase = "decide"
  OBVIOUS
<1> HIDE DEF p
<1>3. verdict'[r] # "zero"
  BY <1>1 DEF KeyWorks, Resting
<1>4. ~In(r, "key", "apply")' /\ place'[r].phase \notin Holding
  BY <1>1, <1>2 DEF In, Holding
<1>5. mode'[r] = "apply" /\ place'[r].step = 12 /\ "key" \notin unmet'[r] => LiveItem'
  <2> SUFFICES ASSUME mode[r] = "apply", place[r].step = 11, Advance(r, FALSE)
               PROVE  "key" \in unmet'[r]
    <3>1. place'[r].step = 12 => place[r].step = 11
      BY <1>1, <1>2
    <3> QED
      BY <1>1, <3>1
  <2>1. StepOf(r) = "key"
    BY StepsAre DEF StepOf
  <2> QED
    BY <2>1, InductiveGives DEF Advance, RunTypes
<1> QED
  BY <1>3, <1>4, <1>5 DEF KeyWorks

\* Another phase of the same step.
LEMMA KeyEnters ==
  ASSUME OnboardInductive, NEW r \in Runs, KeyWorks(r), place[r].step \in 1 .. 11,
         NEW ph \in Phases, Enter(r, ph),
         ph = "apply" /\ StepOf(r) = "key" => \A i \in items' : Mendable(i)',
         ph \in Holding => keys'[minted'[r]] = "active"
  PROVE  KeyWorks(r)'
<1>1. place'[r].step = place[r].step /\ place'[r].phase = ph /\ verdict' = verdict
  <2>1. PICK n \in 0 .. 12, old \in Phases : place[r] = [step |-> n, phase |-> old]
    BY InductiveGives DEF RunTypes, Place
  <2>2. place' = [place EXCEPT ![r] = [step |-> n, phase |-> ph]]
    <3>1. [place[r] EXCEPT !.phase = ph] = [step |-> n, phase |-> ph]
      BY <2>1
    <3>2. place' = [place EXCEPT ![r] = [place[r] EXCEPT !.phase = ph]]
      BY DEF Enter
    <3> QED
      BY <3>1, <3>2
  <2>3. place'[r] = [step |-> n, phase |-> ph]
    BY <2>2, InductiveGives DEF RunTypes
  <2> QED
    BY <2>1, <2>3 DEF Enter
<1>2. verdict'[r] # "zero"
  BY <1>1 DEF KeyWorks, Resting
<1>3. In(r, "key", "apply")' => ph = "apply" /\ StepOf(r) = "key"
  BY <1>1 DEF In, StepOf
<1> QED
  BY <1>1, <1>2, <1>3 DEF KeyWorks

LEMMA KeyStays ==
  ASSUME NEW r \in Runs, KeyWorks(r), UNCHANGED <<keys, items, runState>>
  PROVE  KeyWorks(r)'
BY DEF KeyWorks, runState, LiveItem, In, StepOf, HasLiveKey, Mendable

LEMMA KeySettles ==
  ASSUME OnboardInductive, NEW r \in Runs, KeyWorks(r), settle(r)
  PROVE  KeyWorks(r)'
<1>1. place[r].step \in 1 .. 11 /\ UNCHANGED <<world, keys, items>>
  BY StepsAre DEF settle
<1>2. CASE Advance(r, FALSE)
  BY <1>1, <1>2, KeyAdvances
<1>3. CASE Decision(StepOf(r)) = "todo" /\ Enter(r, "apply")
  <2>1. "apply" \in Phases /\ "apply" \notin Holding
    BY DEF Phases, Holding
  <2>2. ASSUME StepOf(r) = "key" PROVE \A i \in items' : Mendable(i)'
    <3>1. decideKey = "todo"
      BY <1>3, <2>2 DEF Decision
    <3>2. \A i \in items : Mendable(i)
      BY <3>1 DEF decideKey, Choose, observeStore
    <3> QED
      BY <3>2, <1>1 DEF Mendable, HasLiveKey
  <2> QED
    BY <1>1, <1>3, <2>1, <2>2, KeyEnters
<1>4. CASE /\ Decision(StepOf(r)) # "todo" \/ mode[r] = "dry-run"
           /\ Decision(StepOf(r)) # "blocked" /\ Advance(r, TRUE)
  <2>1. ASSUME place[r].step = 11, mode[r] = "apply" PROVE LiveItem'
    <3>1. StepOf(r) = "key"
      BY <2>1, StepsAre DEF StepOf
    <3>2. decideKey = "already"
      BY <1>4, <2>1, <3>1 DEF Decision, decideKey, Choose
    <3>3. items # {} /\ \A i \in items : HasLiveKey(i)
      BY <3>2 DEF decideKey, Choose, observeStore
    <3>4. LiveItem
      BY <3>3 DEF LiveItem
    <3> QED
      BY <3>4, <1>1 DEF LiveItem, HasLiveKey
  <2> QED
    BY <1>1, <1>4, <2>1, KeyAdvances
<1>5. \/ Advance(r, FALSE)
      \/ Decision(StepOf(r)) = "todo" /\ Enter(r, "apply")
      \/ /\ Decision(StepOf(r)) # "todo" \/ mode[r] = "dry-run"
         /\ Decision(StepOf(r)) # "blocked" /\ Advance(r, TRUE)
  BY DEF settle, Advance
<1> QED
  BY <1>2, <1>3, <1>4, <1>5

\* No step but the key's is the last.
LEMMA KeyIsLast ==
  ASSUME OnboardInductive, NEW r \in Runs, KeyWorks(r), NEW s, In(r, s, "apply"), s # "key",
         Advance(r, TRUE) \/ Advance(r, FALSE)
  PROVE  KeyWorks(r)'
<1>1. place[r].step \in 1 .. 11 /\ place[r].step # 11
  BY StepsAre DEF In, StepOf
<1> QED
  BY <1>1, KeyAdvances

LEMMA KeyAside ==
  ASSUME OnboardInductive, NEW r \in Runs, KeyWorks(r),
         \/ sendingStep(r) \/ configStep(r) \/ routingEnableStep(r) \/ routingRuleStep(r)
         \/ domainStep(r) \/ mailboxStep(r) \/ aliasStep(r) \/ templatesStep(r)
         \/ telegramTopicStep(r)
  PROVE  KeyWorks(r)'
<1>1. ASSUME NEW s, NEW w, NEW m, Applied(r, s, w, m)
      PROVE  In(r, s, "apply") /\ (Advance(r, TRUE) \/ Advance(r, FALSE))
  BY <1>1 DEF Applied, Advance
<1>2. CASE sendingStep(r)
  <2>1. In(r, "sending", "apply") /\ (Advance(r, TRUE) \/ Advance(r, FALSE))
    BY <1>2 DEF sendingStep, Advance
  <2> QED
    BY <2>1, KeyIsLast
<1>3. CASE mailboxStep(r)
  <2>1. In(r, "mailbox", "apply") /\ (Advance(r, TRUE) \/ Advance(r, FALSE))
    BY <1>3, <1>1 DEF mailboxStep
  <2> QED
    BY <2>1, KeyIsLast
<1>4. CASE configStep(r)
  BY <1>4, <1>1, KeyIsLast DEF configStep
<1>5. CASE routingEnableStep(r)
  BY <1>5, <1>1, KeyIsLast DEF routingEnableStep
<1>6. CASE routingRuleStep(r)
  BY <1>6, <1>1, KeyIsLast DEF routingRuleStep
<1>7. CASE domainStep(r)
  BY <1>7, <1>1, KeyIsLast DEF domainStep
<1>8. CASE aliasStep(r)
  BY <1>8, <1>1, KeyIsLast DEF aliasStep
<1>9. CASE templatesStep(r)
  BY <1>9, <1>1, KeyIsLast DEF templatesStep
<1>10. CASE telegramTopicStep(r)
  BY <1>10, <1>1, KeyIsLast DEF telegramTopicStep
<1> QED
  BY <1>2, <1>3, <1>4, <1>5, <1>6, <1>7, <1>8, <1>9, <1>10

LEMMA KeyIsMade ==
  ASSUME OnboardInductive, NEW r \in Runs, KeyWorks(r), fixItem(r) \/ mint(r)
  PROVE  KeyWorks(r)'
<1>1. ASSUME NEW ph, In(r, "key", ph)
      PROVE  place[r].step = 11 /\ place[r].step \in 1 .. 11 /\ place[r].phase = ph
  BY <1>1, InIs, StepsAre DEF StepOf
<1>2. CASE fixItem(r)
  <2>1. place[r].step \in 1 .. 11 /\ observeStore = "present" /\ \A i \in items : Mendable(i)
    BY <1>1, <1>2 DEF fixItem, KeyWorks
  <2>2. CASE Advance(r, FALSE)
    BY <2>1, <2>2, KeyAdvances
  <2>3. CASE /\ items' = {[i EXCEPT !.endpoint = "right"] : i \in items}
             /\ keys' = renamed /\ Advance(r, TRUE)
    <3>1. PICK i \in items : TRUE
      BY <2>1 DEF observeStore
    <3>2. [i EXCEPT !.endpoint = "right"].key = i.key
      BY InductiveGives DEF StoreTypes, StoreItem
    <3>3. i.key \in Keys /\ keys[i.key] \in {"active", "misnamed"}
      BY <2>1 DEF Mendable, HasLiveKey
    <3>4. renamed[i.key] = "active"
      BY <3>3 DEF renamed
    <3>5. LiveItem'
      BY <2>3, <3>1, <3>2, <3>3, <3>4 DEF LiveItem, HasLiveKey
    <3> QED
      BY <2>1, <2>3, <3>5, KeyAdvances
  <2> QED
    BY <1>2, <2>2, <2>3 DEF fixItem
<1>3. CASE mintKey(r)
  <2>1. place[r].step \in 1 .. 11
    BY <1>1, <1>3 DEF mintKey
  <2>2. "post" \in Phases /\ "post" \notin Holding /\ "post" # "apply"
    BY DEF Phases, Holding
  <2> QED
    BY <1>3, <2>1, <2>2, KeyEnters, KeyAdvances DEF mintKey
<1>4. CASE createKey(r)
  <2>1. place[r].step \in 1 .. 11
    BY <1>1, <1>4 DEF createKey
  <2>2. CASE Advance(r, FALSE)
    BY <2>1, <2>2, KeyAdvances
  <2>3. CASE \E k \in Keys : /\ keys' = [keys EXCEPT ![k] = "active"]
                             /\ minted' = [minted EXCEPT ![r] = k] /\ Enter(r, "store")
    <3>1. keys'[minted'[r]] = "active"
      BY <2>3, InductiveGives DEF StoreTypes, RunTypes
    <3>2. "store" \in Phases /\ "store" # "apply"
      BY DEF Phases
    <3> QED
      BY <2>1, <2>3, <3>1, <3>2, KeyEnters
  <2> QED
    BY <1>4, <2>2, <2>3 DEF createKey
<1>5. CASE opCreateFromTemplate(r)
  <2>1. place[r].step \in 1 .. 11 /\ place[r].phase = "store" /\ UNCHANGED <<keys, minted>>
    BY <1>1, <1>5 DEF opCreateFromTemplate
  <2>2. keys'[minted'[r]] = "active"
    BY <2>1 DEF KeyWorks, Holding
  <2>3. {"back", "revoke"} \subseteq Phases /\ "apply" \notin {"back", "revoke"}
    BY DEF Phases
  <2>4. Enter(r, "back") \/ Enter(r, "revoke")
    BY <1>5 DEF opCreateFromTemplate
  <2> QED
    BY <2>1, <2>2, <2>3, <2>4, KeyEnters
<1>6. CASE revokeUnstored(r)
  BY <1>1, <1>6, KeyAdvances DEF revokeUnstored
<1>7. CASE readBack(r)
  <2>1. /\ place[r].step \in 1 .. 11 /\ place[r].phase = "back" /\ UNCHANGED <<keys, items>>
        /\ Advance(r, TRUE) \/ Advance(r, FALSE)
    BY <1>1, <1>7 DEF readBack, StoreUnchanged, Advance
  <2>2. keys[minted[r]] = "active" /\ minted[r] \in Keys /\ \E i \in items : i.key = minted[r]
    BY <2>1, InductiveGives DEF KeyWorks, Holding, RunHolds, HasStored, HoldsKey
  <2>3. LiveItem'
    BY <2>1, <2>2 DEF LiveItem, HasLiveKey
  <2> QED
    BY <2>1, <2>3, KeyAdvances
<1> QED
  BY <1>2, <1>3, <1>4, <1>5, <1>6, <1>7 DEF mint

LEMMA KeyAtRest ==
  ASSUME OnboardInductive, NEW r \in Runs, KeyWorks(r),
         exitCodeFor(r) \/ RunDies(r) \/ \E m \in {"dry-run", "apply"} : start(r, m)
  PROVE  KeyWorks(r)'
<1>1. /\ UNCHANGED <<keys, items>>
      /\ Resting.step = 0 /\ Resting.phase = "idle"
  BY DEF exitCodeFor, RunDies, start, Resting
<1>2. ASSUME exitCodeFor(r) \/ RunDies(r) PROVE place'[r] = Resting
  BY <1>2, InductiveGives DEF exitCodeFor, RunDies, RunTypes
<1>3. LiveItem => LiveItem'
  BY <1>1 DEF LiveItem, HasLiveKey
<1>4. CASE exitCodeFor(r)
  <2>1. verdict'[r] = "zero" => LiveItem
    <3>1. verdict'[r] = "zero" => unmet[r] = {} /\ mode[r] = "apply" /\ place[r].step = 12
      BY <1>4, StepsAre, InductiveGives DEF exitCodeFor, RunTypes
    <3> QED
      BY <3>1 DEF KeyWorks
  <2> QED
    BY <1>1, <1>2, <1>3, <1>4, <2>1 DEF KeyWorks, In, Holding
<1>5. CASE RunDies(r)
  <2>1. verdict'[r] = "one"
    BY <1>5, InductiveGives DEF RunDies, RunTypes
  <2> QED
    BY <1>1, <1>2, <1>5, <2>1 DEF KeyWorks, In, Holding
<1>6. CASE \E m \in {"dry-run", "apply"} : start(r, m)
  <2>1. /\ place'[r] = [step |-> 1, phase |-> "decide"] /\ verdict'[r] # "zero"
    BY <1>6, InductiveGives DEF start, RunTypes
  <2>2. place'[r].step = 1 /\ place'[r].phase = "decide"
    BY <2>1
  <2> QED
    BY <2>1, <2>2 DEF KeyWorks, In, Holding
<1> QED
  BY <1>4, <1>5, <1>6

LEMMA KeySurvivesOperator ==
  ASSUME OneRun, NEW r \in Runs, KeyWorks(r), revokeKey \/ deleteItem
  PROVE  KeyWorks(r)'
<1>1. Between /\ UNCHANGED runState /\ \E q \in Runs : verdict[q] = "one"
  BY DEF revokeKey, deleteItem, Failed
<1>2. place[r] = Resting /\ verdict[r] = "one"
  BY <1>1 DEF Between, OneRun
<1>3. Resting.step = 0 /\ Resting.phase = "idle"
  BY DEF Resting
<1> QED
  BY <1>1, <1>2, <1>3 DEF KeyWorks, runState, In, Holding

LEMMA KeySteps ==
  ASSUME OneRun, KeyInductive, [OnboardNext]_onboardVars
  PROVE  KeyInductive'
<1>1. OnboardInductive /\ \A r \in Runs : KeyWorks(r)
  BY DEF KeyInductive
<1>2. ASSUME UNCHANGED <<keys, items, runState>> PROVE \A r \in Runs : KeyWorks(r)'
  BY <1>1, <1>2, KeyStays
<1>3. ASSUME NEW r \in Runs, RunStep(r) PROVE KeyWorks(r)'
  BY <1>1, <1>3, KeySettles, KeyAside, KeyIsMade, KeyAtRest DEF RunStep
<1>4. ASSUME NEW r \in Runs, RunDies(r) \/ \E m \in {"dry-run", "apply"} : start(r, m)
      PROVE  KeyWorks(r)'
  BY <1>1, <1>4, KeyAtRest
<1>5. ASSUME NEW r \in Runs, KeyWorks(r)' PROVE \A q \in Runs : KeyWorks(q)'
  BY <1>5 DEF OneRun
<1>6. ASSUME revokeKey \/ deleteItem PROVE \A r \in Runs : KeyWorks(r)'
  BY <1>1, <1>6, KeySurvivesOperator
<1>7. \A r \in Runs : KeyWorks(r)'
  <2>1. CASE UNCHANGED onboardVars
    BY <1>2, <2>1 DEF onboardVars
  <2>2. CASE Propagate \/ sessionExpires \/ deploy \/ remedy
    BY <1>2, <2>2 DEF Propagate, sessionExpires, deploy, remedy
  <2>3. CASE \E r \in Runs : RunStep(r) \/ RunDies(r) \/ \E m \in {"dry-run", "apply"} : start(r, m)
    <3>1. PICK r \in Runs : RunStep(r) \/ RunDies(r) \/ \E m \in {"dry-run", "apply"} : start(r, m)
      BY <2>3
    <3> QED
      BY <3>1, <1>3, <1>4, <1>5
  <2> QED
    BY <1>6, <2>1, <2>2, <2>3 DEF OnboardNext
<1> QED
  BY <1>1, <1>7, OnboardSteps DEF KeyInductive

(* What onboard leaves behind on one terminal: exit code 0 also means that *)
(* an item of the store names a live key (runSteps, decideKey and          *)
(* mintKey).  A second terminal may find the item of a store call that *)
(* was lost after it took effect, and end with 0 before the first revokes  *)
(* the key.                                                                *)
THEOREM OnboardingIsWhole ==
  ASSUME OneRun
  PROVE  OnboardSpec => []OnboardedIsWhole
<1>1. OnboardInit => KeyInductive
  <2> SUFFICES ASSUME OnboardInit PROVE KeyInductive
    OBVIOUS
  <2>1. ASSUME NEW r \in Runs PROVE KeyWorks(r)
    BY DEF OnboardInit, KeyWorks, In, Resting, Holding
  <2> QED
    BY <2>1, OnboardStarts DEF KeyInductive
<1>2. KeyInductive /\ [OnboardNext]_onboardVars => KeyInductive'
  BY KeySteps
<1>3. KeyInductive => OnboardedIsWhole
  <2> SUFFICES ASSUME KeyInductive PROVE OnboardedIsWhole
    OBVIOUS
  <2>1. ZeroHasKey
    BY DEF KeyInductive, KeyWorks, ZeroHasKey, LiveItem
  <2> QED
    BY <2>1, InductiveIsWhole DEF KeyInductive, OnboardedIsWhole
<1> QED
  BY <1>1, <1>2, <1>3, PTL DEF OnboardSpec
================================================================================
