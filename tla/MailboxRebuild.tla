------------------------------ MODULE MailboxRebuild ------------------------------
(***************************************************************************)
(* Rebuilding a mailbox: scripts/reingest-mailbox.ts replays the raw MIME  *)
(* of an old index through the inbound queue into an object that starts    *)
(* empty, and scripts/verify-mailbox-rebuild.ts decides whether the object *)
(* holds what it should.                                                   *)
(*                                                                         *)
(* The target's ingest_events may be older than the object (a restored     *)
(* backup): then it names messages the object does not hold.  No new mail  *)
(* arrives during the rebuild: the queue carries what the script pushes.   *)
(***************************************************************************)
EXTENDS InboundIngest, Sequences

CONSTANTS
  Source,      \* the old message_index: a sequence of raw keys, oldest first
  Sent,        \* rows of mail the mailbox sent: never had a raw object
  Filed,       \* rows that are not in the inbox, or have labels
  RowKey,      \* [Raws -> Keys]: the key a row's payload gets
  Lost,        \* the sets of raw objects R2 may have lost
  Backups,     \* [Keys -> "none", "processed" or "failed"]: what the target lists
  ReRunRows,   \* the script is run again when so few rows are rebuildable: a bound
  Runs,        \* 1 .. number of times the operator runs the script
  PushOf       \* [Runs \X Raws -> Deliveries]: the message a push makes

ASSUME RebuildAssumption ==
  /\ RowKey \in [Raws -> Keys]
  /\ Backups \subseteq [Keys -> {"none", "processed", "failed"}] /\ Lost \subseteq SUBSET Raws
  /\ Source \in Seq(Raws) /\ Sent \subseteq Raws /\ Filed \subseteq Raws
  /\ Runs \subseteq Nat /\ PushOf \in [Runs \X Raws -> Deliveries]
  \* a raw key carries the millisecond and the digest: a row has its own
  /\ \A i, j \in 1 .. Len(Source) : Source[i] = Source[j] => i = j
  \* a push is a message of its own and says what the row says
  /\ \A p, q \in Runs \X (Raws \ Sent) : PushOf[p] = PushOf[q] => p = q
  /\ \A q \in Runs, r \in Raws \ Sent :
       RawOf[PushOf[q, r]] = r /\ KeyOf[PushOf[q, r]] = RowKey[r]

VARIABLES
  run,         \* which run of the script this is
  force,       \* --force
  script,      \* "off", "push", "poll", "restore" or its verdict
  known,       \* alreadyProcessed: the target's ingest rows when it planned
  at,          \* the row in hand
  outcome,     \* outcomes, by raw key
  newId,       \* newLocalId of an outcome
  filed,       \* D1: index rows whose state and labels were restored
  report,      \* the verifier: "off", what it saw of the object, its verdict
  seen         \* the object's messages as the verifier read them

scriptVars == <<run, force, script, known, at, outcome, newId, filed>>
verifyVars == <<report, seen>>
rebuildVars == <<scriptVars, verifyVars>>
allVars == <<ingestVars, rebuildVars>>

RowsOf == {Source[i] : i \in 1 .. Len(Source)}
Outcomes == {"none", "inserted", "duplicate", "conflict", "timeout",
             "push_failed", "skipped", "unverified"}
StaleId == <<NoDelivery, 1>>

RebuildTypeOK ==
  /\ force \in BOOLEAN
  /\ run \in {0} \cup Runs
  /\ script \in {"off", "push", "poll", "restore", "pass", "fail", "died"}
  /\ known \in [Keys -> EventRow]
  /\ at \in 1 .. Len(Source) + 1
  /\ outcome \in [RowsOf -> Outcomes]
  /\ newId \in [RowsOf -> Ids]
  /\ filed \subseteq Ids
  /\ report \in {"off", "read", "pass", "fail"}
  /\ seen \subseteq Row

Backup(b) == [k \in Keys |->
  [NoEvent EXCEPT !.status = b[k], !.id = IF b[k] = "processed" THEN StaleId ELSE NoId]]

Fresh ==
  /\ run = 0 /\ force = FALSE /\ script = "off" /\ at = 1
  /\ known = [k \in Keys |-> NoEvent]
  /\ outcome = [r \in RowsOf |-> "none"]
  /\ newId = [r \in RowsOf |-> NoId]
  /\ filed = {} /\ report = "off" /\ seen = {}

RebuildInit ==
  /\ queue = [d \in Deliveries |-> "none"]
  /\ tries = [d \in Deliveries |-> 0]
  /\ work = [w \in Workers |-> Idle]
  /\ rows = {} /\ parts = {} /\ index = {}
  /\ notices = [d \in Deliveries |-> 0]
  /\ Fresh
  /\ smtp = [d \in Deliveries |-> "failed"]
  /\ raws \in {RowsOf \ (Sent \cup lost) : lost \in Lost}
  /\ events \in {Backup(b) : b \in Backups}

-----------------------------------------------------------------------------
(* reingest-mailbox.ts *)

Rebuildable == {r \in RowsOf : r \in raws}
\* Mutant: newest first.
HereNewest == Source[Len(Source) + 1 - at]

Here == Source[at]
\* Mutant: the row that was there before the push is not remembered.
NoPrior == NoId

Push == PushOf[run, Here]
Prior == known[RowKey[Here]].id

\* The plan reads the old index, every raw object and the target's ingest rows.
Plan(forced) ==
  /\ script \in {"off", "died", "fail"} /\ run + 1 \in Runs
  /\ run = 0 \/ Cardinality(RowsOf \cap raws) <= ReRunRows
  /\ run' = run + 1 /\ force' = forced
  /\ known' = events
  /\ at' = 1
  /\ outcome' = [r \in RowsOf |-> "none"]
  /\ newId' = [r \in RowsOf |-> NoId]
  /\ script' = "push"
  /\ UNCHANGED <<ingestVars, filed>>

Done(result, id) ==
  /\ outcome' = [outcome EXCEPT ![Here] = result]
  /\ newId' = [newId EXCEPT ![Here] = id]
  /\ at' = at + 1
  /\ script' = "push"
  /\ UNCHANGED <<run, force, known, filed>>

\* A key the target listed when the run began is not pushed, whatever its status.
ToSkip == ~force /\ known[RowKey[Here]].status # "none"

PassOver ==
  /\ script = "push" /\ at <= Len(Source)
  /\ \/ /\ Here \notin Rebuildable
        /\ at' = at + 1
        /\ UNCHANGED <<run, force, script, known, outcome, newId, filed>>
     \/ Here \in Rebuildable /\ ToSkip /\ Done("skipped", Prior)
  /\ UNCHANGED ingestVars

\* A push that fails may be on the queue all the same: its answer was lost.
Publish ==
  /\ script = "push" /\ at <= Len(Source) /\ Here \in Rebuildable /\ ~ToSkip
  /\ \/ /\ queue' = [queue EXCEPT ![Push] = "waiting"]
        /\ script' = "poll"
        /\ UNCHANGED <<run, force, known, at, outcome, newId, filed>>
     \/ /\ queue' \in {queue, [queue EXCEPT ![Push] = "waiting"]}
        /\ Done("push_failed", NoId)
  /\ UNCHANGED <<smtp, raws, tries, work, mailVars>>

\* Mutant: any row settles the push.
SettlesPresent(row) == row.status # "none"

\* A poll that finds the row settled: present, and not the id it had before.
Settles(row) == row.status # "none" /\ (Prior # NoId => row.id # Prior)

Poll ==
  /\ script = "poll"
  /\ LET row == events[RowKey[Here]]
     IN /\ Settles(row)
        /\ Done(IF row.status = "failed" THEN "conflict"
                ELSE IF row.id = Prior THEN "duplicate" ELSE "inserted",
                IF row.status = "failed" THEN NoId ELSE row.id)
  /\ UNCHANGED ingestVars

TimeOut ==
  /\ script = "poll" /\ ~Settles(events[RowKey[Here]])
  /\ Done(IF Prior # NoId THEN "unverified" ELSE "timeout", Prior)
  /\ UNCHANGED ingestVars

\* UPDATE message_index for the rows that were filed elsewhere; an id that D1
\* does not index matches nothing.  Then the verdict.
Restorable == {r \in Filed \cap RowsOf :
                 newId[r] # NoId /\ outcome[r] \in {"inserted", "duplicate", "skipped"}}

Finish ==
  /\ script = "push" /\ at = Len(Source) + 1
  /\ filed' = filed \cup ({newId[r] : r \in Restorable} \cap index)
  /\ script' = IF \E r \in RowsOf : outcome[r] \in {"conflict", "timeout", "push_failed"}
               THEN "fail" ELSE "pass"
  /\ UNCHANGED <<ingestVars, run, force, known, at, outcome, newId>>

ScriptDies ==
  /\ script \in {"push", "poll"} /\ script' = "died"
  /\ UNCHANGED <<ingestVars, run, force, known, at, outcome, newId, filed>>

Reingest ==
  /\ \/ \E forced \in BOOLEAN : Plan(forced)
     \/ PassOver \/ Publish \/ Poll \/ TimeOut \/ Finish \/ ScriptDies
  /\ UNCHANGED verifyVars

-----------------------------------------------------------------------------
(* verify-mailbox-rebuild.ts: the object first, then the target's index. *)

ReadObject ==
  /\ report = "off" /\ script \in {"pass", "fail"}
  /\ seen' = rows
  /\ report' = "read"
  /\ UNCHANGED <<ingestVars, scriptVars>>

Matches(r) == {row \in seen : row.raw = r}

\* Why the rebuild is not verified.
Missing == {r \in Rebuildable : Cardinality(Matches(r)) # 1}
Damaged == {r \in Rebuildable : \E row \in Matches(r) : row.parse # "parsed"}
\* Mutant: an index row is enough, wherever it files the message.
UnindexedOnly == {r \in Rebuildable : \E row \in Matches(r) : row.id \notin index}

Unindexed == {r \in Rebuildable : \E row \in Matches(r) :
                row.id \notin index \/ (r \in Filed /\ row.id \notin filed)}
Unexplained == RowsOf \ (Rebuildable \cup Sent)
Unaccounted == {row \in seen : row.raw \notin Rebuildable}

Verify ==
  /\ report = "read"
  /\ report' = IF Missing \cup Damaged \cup Unindexed \cup Unexplained = {} /\ Unaccounted = {}
               THEN "pass" ELSE "fail"
  /\ UNCHANGED <<ingestVars, scriptVars, seen>>

Verifier == ReadObject \/ Verify

RebuildNext ==
  \/ QueueStep /\ UNCHANGED rebuildVars
  \/ Reingest
  \/ Verifier

RebuildSpec == RebuildInit /\ [][RebuildNext]_allVars

-----------------------------------------------------------------------------
(* Properties. *)

\* A verified rebuild is one: every message whose bytes survived is in the
\* mailbox once and parsed, D1 finds it and files it where it was, and only sent
\* mail is missing, whatever the queue still did while the verifier read.
VerifiedIsRebuilt ==
  report = "pass" =>
    /\ \A r \in RowsOf \ Sent :
         \E row \in rows : /\ row.raw = r /\ row.parse = "parsed" /\ row.id \in index
                           /\ r \in Filed => row.id \in filed
    /\ Cardinality(rows) = Cardinality(RowsOf \ Sent)

\* A run that passes put every rebuildable message in the mailbox that the target
\* did not list when the run planned; with --force, only an unverified one may miss.
PassedIsIngested ==
  script = "pass" =>
    \A r \in Rebuildable :
      \/ \E row \in rows : row.key = RowKey[r]
      \/ outcome[r] = "unverified"
      \/ ~force /\ known[RowKey[r]].status # "none"

\* "inserted" is only said of a message that the object stored in this rebuild.
InsertedIsStored ==
  \A r \in RowsOf : outcome[r] = "inserted" => \E row \in rows : row.id = newId[r]

\* What the two scripts say is so: the replay of each row and of its whole run,
\* the verifier of the mailbox.
RebuildInvariant ==
  /\ RebuildTypeOK
  /\ VerifiedIsRebuilt
  /\ PassedIsIngested
  /\ InsertedIsStored

\* Oldest first, each awaited: a message of this run is stored only after every
\* older one was settled or given up, which is what makes threads come out alike.
ReplayInOrder ==
  [][\A row \in rows' \ rows : \A i, j \in 1 .. Len(Source) :
       run > 0 /\ i < j /\ {Source[i], Source[j]} \subseteq Rebuildable =>
         (row.id[1] = PushOf[run, Source[j]] => outcome[Source[i]] # "none")]_allVars
================================================================================
