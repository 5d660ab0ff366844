------------------------------ MODULE MailboxSchema ------------------------------
(***************************************************************************)
(* The storage of a mailbox object and its constructor.  Every cold start  *)
(* runs the current schema, which creates only what is missing, and then   *)
(* the migrations the recorded version has not seen, in one go; the        *)
(* version is recorded last.  A statement may throw.  Then the turn ends,  *)
(* and either what was written is kept or none of it; only the two steps   *)
(* for tables older than threads are caught, and the constructor goes on.  *)
(*                                                                         *)
(* The state is the part of the storage the migrations touch: which tables *)
(* exist, which of the columns that came later they have ("column" also    *)
(* names the event type a CHECK admits), the rows of the tables that are   *)
(* rebuilt, and one sent mail with the draft it was sent from.             *)
(***************************************************************************)
EXTENDS Naturals

CONSTANTS
  Mails,        \* messages of the mailbox
  Audits,       \* rows of api_key_events
  Rename,       \* the audit row of a renamed key
  MaxThrows

ASSUME SchemaAssumption == Rename \notin Audits /\ MaxThrows \in Nat

VARIABLES
  pc,        \* where the constructor is, "down" or "up"
  db,        \* the storage
  saved,     \* the storage as this cold start found it
  edited,    \* when the sent mail's draft was edited, if ever
  owed,      \* rows the mailbox must not lose
  throws,    \* exceptions so far
  swallowed  \* whether the legacy steps were cut short

schemaVars == <<pc, db, saved, edited, owed, throws, swallowed>>

MAILBOX_SCHEMA_VERSION == 7

\* What each table got after it first shipped.
Columns == [ messages               |-> {"thread_id"},
             outbound_drafts        |-> {"idempotency_key", "parent_message_id"},
             transactional_requests |-> {"delivery_status", "resolved_via"},
             api_keys               |-> {"sender_name"},
             api_key_events         |-> {"sender_name_updated"} ]
Tables == DOMAIN Columns
Aside == {"messages_legacy_v0", "api_key_events_old"}   \* renamed, while rebuilt
AllColumns == UNION {Columns[t] : t \in Tables}
Kept == {"messages", "api_key_events"} \cup Aside

\* The version that brought a column.
Since == [ thread_id |-> 1, idempotency_key |-> 2, delivery_status |-> 3,
           parent_message_id |-> 4, resolved_via |-> 5, sender_name |-> 6,
           sender_name_updated |-> 6 ]

Steps == {"rename", "schema", "rebuild", "legacy", "drafts", "unique", "delivery", "parent",
          "resolved", "sender_name", "events", "events_create", "events_copy", "events_drop",
          "backfill", "record"}

Storage == [ version : 0 .. MAILBOX_SCHEMA_VERSION,
             tables : SUBSET (Tables \cup Aside), cols : SUBSET AllColumns, unique : BOOLEAN,
             rows : [Kept -> SUBSET (Mails \cup Audits \cup {Rename})],
             searchable : SUBSET Mails,
             body : {"none", "sent", "edited"}, draft : {"sent", "edited"}, late : BOOLEAN,
             drafts : 0 .. 2 ]

SchemaTypeOK ==
  /\ pc \in Steps \cup {"down", "up"}
  /\ db \in Storage /\ saved \in Storage
  /\ edited \in {"never", "during", "after"}
  /\ owed \subseteq Mails \cup Audits \cup {Rename} /\ throws \in 0 .. MaxThrows /\ swallowed \in BOOLEAN

\* A mailbox of each earlier release: it has the columns of its day, and before
\* version 6 perhaps no transactional tables.  Version 0 may be a new mailbox.
Release(v, tables) ==
  LET has(t) == t \in tables
  IN [ version |-> v, tables |-> tables,
       cols |-> {c \in AllColumns : Since[c] <= v /\ \E t \in tables : c \in Columns[t]},
       unique |-> v >= 2,
       rows |-> [t \in Kept |-> IF ~has(t) THEN {} ELSE IF t = "messages" THEN Mails ELSE Audits],
       searchable |-> IF v = 0 THEN {} ELSE Mails,
       body |-> IF v = MAILBOX_SCHEMA_VERSION THEN "sent" ELSE "none",
       draft |-> IF edited = "never" THEN "sent" ELSE "edited",
       late |-> edited = "after",
       drafts |-> 0 ]

SchemaInit ==
  /\ pc = "down"
  /\ edited \in {"never", "during", "after"}
  /\ \E v \in 0 .. MAILBOX_SCHEMA_VERSION :
       \E tables \in {Tables} \cup (IF v < 6 THEN {{"messages", "outbound_drafts"}} ELSE {})
                              \cup (IF v = 0 THEN {{}} ELSE {}) :
         db = Release(v, tables)
  /\ saved = db
  /\ owed = UNION {db.rows[t] : t \in Kept}
  /\ throws = 0 /\ swallowed = FALSE

-----------------------------------------------------------------------------
(* The constructor. *)

getAppliedSchemaVersion == saved.version
Pending(v) == getAppliedSchemaVersion < v

\* A request wakes the object.
ColdStart ==
  /\ pc = "down"
  /\ pc' = "rename" /\ saved' = db
  /\ UNCHANGED <<db, edited, owed, throws, swallowed>>

\* One statement, or a few that nothing tells apart.
Run(here, next) ==
  /\ pc = here /\ pc' = next
  /\ UNCHANGED <<saved, edited, owed, throws, swallowed>>

Move(from, to) == [db EXCEPT
  !.tables = (@ \ {from}) \cup {to},
  !.cols = @ \ Columns[from],
  !.rows[to] = db.rows[from],
  !.rows[from] = {}]

renameLegacyMessagesBeforeSchema ==
  /\ Run("rename", "schema")
  /\ db' = IF /\ Pending(1)
              /\ "messages" \in db.tables /\ "messages_legacy_v0" \notin db.tables
              /\ "thread_id" \notin db.cols
           THEN Move("messages", "messages_legacy_v0") ELSE db

\* CREATE TABLE IF NOT EXISTS: a table that is there stays as narrow as it is.
Create(tables) == [db EXCEPT
  !.tables = @ \cup tables,
  !.cols = @ \cup UNION {Columns[t] : t \in tables \ db.tables}]

AfterSchema == IF Pending(1) THEN "rebuild" ELSE "drafts"

\* Mutant: the schema creates the unique index too.
SchemaWithIndex ==
  \/ /\ "outbound_drafts" \in db.tables /\ "idempotency_key" \notin db.cols
     /\ Run("schema", "down")
     /\ db' = db
  \/ /\ "outbound_drafts" \notin db.tables \/ "idempotency_key" \in db.cols
     /\ Run("schema", AfterSchema)
     /\ db' = [Create(Tables) EXCEPT !.unique = TRUE]

MailboxSchemaSql ==
  /\ Run("schema", AfterSchema)
  /\ db' = Create(Tables)

\* Mutant: the table is dropped before every row is in.
RebuildHasty ==
  \/ \E m \in db.rows["messages_legacy_v0"] \ db.rows["messages"] :
       /\ Run("rebuild", "rebuild")
       /\ db' = [db EXCEPT !.rows["messages"] = @ \cup {m}]
  \/ /\ db.rows["messages"] # {} \/ db.rows["messages_legacy_v0"] = {}
     /\ Run("rebuild", "legacy")
     /\ db' = [db EXCEPT !.tables = @ \ {"messages_legacy_v0"}, !.rows["messages_legacy_v0"] = {}]

\* Row by row, INSERT OR IGNORE, then the drop.
rebuildLegacyMessagesTable ==
  \/ \E m \in db.rows["messages_legacy_v0"] \ db.rows["messages"] :
       /\ Run("rebuild", "rebuild")
       /\ db' = [db EXCEPT !.rows["messages"] = @ \cup {m}]
  \/ /\ db.rows["messages_legacy_v0"] \subseteq db.rows["messages"]
     /\ Run("rebuild", "legacy")
     /\ db' = [db EXCEPT !.tables = @ \ {"messages_legacy_v0"}, !.rows["messages_legacy_v0"] = {}]

\* Defaults, threads and the search rows that are missing.
migrateLegacySchema ==
  /\ Run("legacy", "drafts")
  /\ db' = [db EXCEPT !.searchable = @ \cup db.rows["messages"]]

\* ALTER TABLE ADD COLUMN, guarded by a look at the columns.
addColumn(v, c, here, next) ==
  /\ Run(here, next)
  /\ db' = IF Pending(v) THEN [db EXCEPT !.cols = @ \cup {c}] ELSE db

migrateDraftIdempotency ==
  \/ addColumn(2, "idempotency_key", "drafts", "unique")
  \/ /\ Run("unique", "delivery")
     /\ db' = IF Pending(2) THEN [db EXCEPT !.unique = TRUE] ELSE db

migrateDeliveryEventColumns == addColumn(3, "delivery_status", "delivery", "parent")
migrateDraftParentMessage == addColumn(4, "parent_message_id", "parent", "resolved")
migrateResolvedViaColumn == addColumn(5, "resolved_via", "resolved", "sender_name")

\* Mutant: the column hides behind an earlier version.
SenderNameWithFive == addColumn(5, "sender_name", "sender_name", "events")
migrateApiKeySenderName == addColumn(6, "sender_name", "sender_name", "events")

\* A CHECK cannot be altered: the table is moved aside, created, copied, dropped.
\* Whether to is read from the stored DDL.
migrateApiKeyEventTypes ==
  LET widen == Pending(6) /\ "sender_name_updated" \notin db.cols
  IN \/ /\ ~widen /\ Run("events", "backfill") /\ db' = db
     \/ /\ widen /\ Run("events", "events_create")
        /\ db' = Move("api_key_events", "api_key_events_old")
     \/ /\ Run("events_create", "events_copy")
        /\ db' = Create({"api_key_events"})
     \/ /\ Run("events_copy", "events_drop")
        /\ db' = [db EXCEPT !.rows["api_key_events"] = @ \cup db.rows["api_key_events_old"]]
     \/ /\ Run("events_drop", "backfill")
        /\ db' = [db EXCEPT !.tables = @ \ {"api_key_events_old"}, !.rows["api_key_events_old"] = {}]

\* Mutant: whatever the draft says now.
BackfillAny ==
  /\ Run("backfill", "record")
  /\ db' = IF Pending(7) /\ db.body = "none" THEN [db EXCEPT !.body = db.draft] ELSE db

\* A sent copy without a body gets its draft's text, unless the draft's stamp is
\* later than the copy's.
backfillSentBodyText ==
  /\ Run("backfill", "record")
  /\ db' = IF Pending(7) /\ db.body = "none" /\ ~db.late
           THEN [db EXCEPT !.body = db.draft] ELSE db

RecordVersion ==
  /\ Run("record", "up")
  /\ db' = [db EXCEPT !.version = MAILBOX_SCHEMA_VERSION]

constructor ==
  \/ ColdStart
  \/ renameLegacyMessagesBeforeSchema \/ MailboxSchemaSql
  \/ rebuildLegacyMessagesTable \/ migrateLegacySchema
  \/ migrateDraftIdempotency \/ migrateDeliveryEventColumns \/ migrateDraftParentMessage
  \/ migrateResolvedViaColumn \/ migrateApiKeySenderName \/ migrateApiKeyEventTypes
  \/ backfillSentBodyText \/ RecordVersion

\* A statement throws, or the process ends: the request fails and the next one
\* wakes the object again.
ConstructorFails ==
  /\ pc \in Steps \ {"rebuild", "legacy"} /\ throws < MaxThrows
  /\ pc' = "down" /\ throws' = throws + 1
  /\ db' \in {db, saved}
  /\ UNCHANGED <<saved, edited, owed, swallowed>>

\* In the legacy steps an exception is logged and the constructor goes on.
LegacyFails ==
  /\ pc \in {"rebuild", "legacy"} /\ throws < MaxThrows
  /\ pc' = "drafts" /\ throws' = throws + 1 /\ swallowed' = TRUE
  /\ UNCHANGED <<db, saved, edited, owed>>

-----------------------------------------------------------------------------
(* Handlers, of which two depend on what a migration made. *)

evict ==
  /\ pc = "up" /\ pc' = "down"
  /\ UNCHANGED <<db, saved, edited, owed, throws, swallowed>>

\* INSERT OR IGNORE under one idempotency key; only the unique index ignores.
createDraft ==
  /\ pc = "up" /\ "idempotency_key" \in db.cols /\ db.drafts < 2
  /\ db' = IF db.unique /\ db.drafts > 0 THEN db ELSE [db EXCEPT !.drafts = @ + 1]
  /\ UNCHANGED <<pc, saved, edited, owed, throws, swallowed>>

\* The name is updated, then the audit row inserted; no transaction holds the two.
updateApiKeySenderName ==
  /\ pc = "up" /\ "sender_name" \in db.cols
  /\ owed' = owed \cup {Rename}
  /\ db' = IF "sender_name_updated" \notin db.cols THEN db
           ELSE [db EXCEPT !.rows["api_key_events"] = @ \cup {Rename}]
  /\ UNCHANGED <<pc, saved, edited, throws, swallowed>>

SchemaNext ==
  constructor \/ ConstructorFails \/ LegacyFails \/ evict \/ createDraft \/ updateApiKeySenderName

\* Requests keep coming, and a turn of the object ends.
SchemaSpec == SchemaInit /\ [][SchemaNext]_schemaVars /\ WF_schemaVars(constructor)

-----------------------------------------------------------------------------
(* Properties. *)

Mailed == db.rows["messages"] \cup db.rows["messages_legacy_v0"]
Audited == db.rows["api_key_events"] \cup db.rows["api_key_events_old"]

\* An object that answers has every column its handlers name and the index that
\* makes a repeated draft the same draft, whatever release it comes from and
\* wherever earlier cold starts broke off.
ServesWhole ==
  /\ pc = "up" => AllColumns \subseteq db.cols /\ db.unique
  /\ db.drafts <= 1

\* No message and no audit row is lost on the way, a renamed key's included, and
\* none is left aside or out of search unless an exception was swallowed or cut
\* the rebuild of the audit table.
NothingLost ==
  /\ owed \subseteq Mailed \cup Audited
  /\ pc = "up" /\ ~swallowed =>
       db.rows["messages_legacy_v0"] = {} /\ db.searchable = db.rows["messages"]
  /\ pc = "up" /\ throws = 0 => db.rows["api_key_events_old"] = {}

\* A sent copy shows what went out, except that an edit made while it was being
\* sent carries the stamp of the send.
CopyIsWhatWentOut == db.body = "edited" => edited = "during"

\* Safety of the constructor and its migrations.
SchemaInvariant == SchemaTypeOK /\ ServesWhole /\ NothingLost /\ CopyIsWhatWentOut

\* No release and no broken cold start keeps a mailbox from answering.
MailboxServes == []<>(pc = "up")
================================================================================
