------------------------------ MODULE ApiKeys ------------------------------
(***************************************************************************)
(* The credentials and templates of one mailbox: the tables api_keys,     *)
(* api_key_events and templates of its Durable Object, the projection of   *)
(* the keys in D1, and the calls that reach them: a session's call passes  *)
(* through a route of the Worker (mailbox-routes.ts), which asks the       *)
(* object, copies the answer's projection to D1 and hands the answer back; *)
(* a product's send is judged by the object alone.                         *)
(*                                                                         *)
(* The object runs one turn at a time, so a call's steps are what lies     *)
(* between its awaits: the hash of a new secret, the verification of a     *)
(* presented one, each write to D1.                                        *)
(***************************************************************************)
EXTENDS Naturals, FiniteSets, Sequences

CONSTANTS
    Calls,          \* calls of a session, each made once
    Sends,          \* requests of a product, each presenting the right secret
    SenderNames,    \* From display names a key may carry; NoName is one
    NoName,
    TemplateIds, Contents,
    MaxKeys         \* bound: keys ever stored

ASSUME KeysAssumption == NoName \in SenderNames /\ MaxKeys \in Nat \ {0}

VARIABLES
    keys,           \* the table api_keys, a key named by the order of insertion
    keyEvents,      \* the table api_key_events: the types written for each key
    keyIndex,       \* D1: status by key, "none" while there is no row
    templates,      \* the table templates, by id
    keyCall,        \* [Calls -> where the call is, what it read, what it will project]
    keySend         \* [Sends -> where the request is, the record it read]

keyVars == <<keys, keyEvents, keyIndex, templates, keyCall, keySend>>

KeyIds == 1 .. MaxKeys
KeyStatus == {"active", "revoked"}
Stored == DOMAIN keys
NoCall == [at |-> "new", op |-> "none", key |-> 0, name |-> NoName, left |-> <<>>, issued |-> 0]
NoSend == [at |-> "new", key |-> 0, seen |-> "none", late |-> FALSE]

(* A mailbox with no key yet, or with one that D1 may not have heard of.   *)
KeysInit ==
    /\ keys \in {<<>>} \union {<<[status |-> "active", name |-> n, from |-> 0]>> : n \in SenderNames}
    /\ keyEvents = [k \in KeyIds |-> IF k \in Stored THEN {"created"} ELSE {}]
    /\ keyIndex \in {[k \in KeyIds |-> IF k \in Stored THEN i ELSE "none"] : i \in {"none", "active"}}
    /\ templates = [t \in TemplateIds |-> [status |-> "absent", content |-> "none"]]
    /\ keyCall = [c \in Calls |-> NoCall]
    /\ keySend = [s \in Sends |-> NoSend]

(* What a call is about to copy to D1: the status each key had in the turn *)
(* that answered the call.                                                 *)
Projection(k, status) == [key |-> k, status |-> status]
Records(k, type) == [keyEvents EXCEPT ![k] = @ \union {type}]
AnsweredBy(c, op, left, issued) ==
    keyCall' = [keyCall EXCEPT ![c] =
        [@ EXCEPT !.at = "projecting", !.op = op, !.left = left, !.issued = issued]]

-----------------------------------------------------------------------------
(* A key is created: the scopes are judged, the secret is hashed, and the  *)
(* row is stored in the turn after.                                        *)
createApiKey(c) ==
    \/ /\ keyCall[c].at = "new"
       /\ \E n \in SenderNames :
            keyCall' = [keyCall EXCEPT ![c] = [@ EXCEPT !.at = "hashing", !.op = "create", !.name = n]]
       /\ UNCHANGED <<keys, keyEvents, keyIndex, templates, keySend>>
    \/ /\ keyCall[c].at = "hashing" /\ keyCall[c].op = "create"
       /\ Len(keys) < MaxKeys
       /\ LET k == Len(keys) + 1 IN
            /\ keys' = Append(keys, [status |-> "active", name |-> keyCall[c].name, from |-> 0])
            /\ keyEvents' = Records(k, "created")
            /\ AnsweredBy(c, "create", <<Projection(k, "active")>>, k)
       /\ UNCHANGED <<keyIndex, templates, keySend>>

(* One turn; a key already revoked is answered like one revoked now.       *)
revokeApiKey(c) ==
    /\ keyCall[c].at = "new"
    /\ \E k \in Stored :
        /\ keys' = [keys EXCEPT ![k].status = "revoked"]
        /\ keyEvents' = Records(k, "revoked")
        /\ AnsweredBy(c, "revoke", <<Projection(k, "revoked")>>, 0)
    /\ UNCHANGED <<keyIndex, templates, keySend>>

(* One turn; refused for a revoked key.                                    *)
updateApiKeySenderName(c) ==
    /\ keyCall[c].at = "new"
    /\ \E k \in Stored, n \in SenderNames :
        /\ keys[k].status = "active"
        /\ keys' = [keys EXCEPT ![k].name = n]
        /\ keyEvents' = Records(k, "sender_name_updated")
        /\ AnsweredBy(c, "rename", <<Projection(k, keys[k].status)>>, 0)
    /\ UNCHANGED <<keyIndex, templates, keySend>>

(* A rotation tests the status, then hashes, then swaps old for new in one *)
(* transaction that does not test again.  Two rotations of a key that both *)
(* pass the test each leave a successor, and so does a rotation overtaken  *)
(* by a revocation.  The successor's row names every column but            *)
(* sender_name, which is therefore null.                                   *)
Successor(k) == [status |-> "active", name |-> NoName, from |-> k]
rotateApiKey(c) ==
    \/ /\ keyCall[c].at = "new"
       /\ \E k \in Stored :
            /\ keys[k].status = "active"
            /\ keyCall' = [keyCall EXCEPT ![c] =
                    [@ EXCEPT !.at = "hashing", !.op = "rotate", !.key = k, !.name = keys[k].name]]
       /\ UNCHANGED <<keys, keyEvents, keyIndex, templates, keySend>>
    \/ /\ keyCall[c].at = "hashing" /\ keyCall[c].op = "rotate"
       /\ Len(keys) < MaxKeys
       /\ LET old == keyCall[c].key
              k == Len(keys) + 1
          IN  /\ keys' = Append([keys EXCEPT ![old].status = "revoked"], Successor(old))
              /\ keyEvents' = [keyEvents EXCEPT ![old] = @ \union {"revoked"},
                                                ![k] = @ \union {"rotated"}]
              /\ AnsweredBy(c, "rotate", <<Projection(old, "revoked"), Projection(k, "active")>>, k)
       /\ UNCHANGED <<keyIndex, templates, keySend>>

(* The route copies the projections one after the other, each an upsert    *)
(* that asks nothing of the row it overwrites.  A write that fails is      *)
(* logged and skipped; the object's answer is returned all the same.       *)
upsertApiKeyProjection(p) == [keyIndex EXCEPT ![p.key] = p.status]
projectApiKey(c) ==
    /\ keyCall[c].at = "projecting" /\ keyCall[c].left # <<>>
    /\ keyIndex' \in {keyIndex, upsertApiKeyProjection(Head(keyCall[c].left))}
    /\ keyCall' = [keyCall EXCEPT ![c].left = Tail(@)]
    /\ UNCHANGED <<keys, keyEvents, templates, keySend>>
readDoJson(c) ==
    /\ keyCall[c].at = "projecting" /\ keyCall[c].left = <<>>
    /\ keyCall' = [keyCall EXCEPT ![c].at = "answered"]
    /\ UNCHANGED <<keys, keyEvents, keyIndex, templates, keySend>>

(* The Worker or the object is stopped in the middle of a call: the caller *)
(* gets an error, and what the object stored stays.                        *)
CallLost(c) ==
    /\ keyCall[c].at \in {"hashing", "projecting"}
    /\ keyCall' = [keyCall EXCEPT ![c].at = "lost"]
    /\ UNCHANGED <<keys, keyEvents, keyIndex, templates, keySend>>

-----------------------------------------------------------------------------
(* A product's request: the record is read, the presented secret verified, *)
(* and the record read before is judged.                                   *)
Present(s) ==
    /\ keySend[s].at = "new"
    /\ \E k \in Stored :
        keySend' = [keySend EXCEPT ![s] =
            [at |-> "travelling", key |-> k, seen |-> "none", late |-> keys[k].status = "revoked"]]
    /\ UNCHANGED <<keys, keyEvents, keyIndex, templates, keyCall>>
\* Mutant: the key is judged by its row in D1.
getApiKeyRecordFromD1(s) ==
    /\ keySend[s].at = "travelling"
    /\ keySend' = [keySend EXCEPT ![s].at = "verifying", ![s].seen = keyIndex[keySend[s].key]]
    /\ UNCHANGED <<keys, keyEvents, keyIndex, templates, keyCall>>
getApiKeyRecord(s) ==
    /\ keySend[s].at = "travelling"
    /\ keySend' = [keySend EXCEPT ![s].at = "verifying", ![s].seen = keys[keySend[s].key].status]
    /\ UNCHANGED <<keys, keyEvents, keyIndex, templates, keyCall>>
authenticateTransactionalKey(s) ==
    /\ keySend[s].at = "verifying"
    /\ keySend' = [keySend EXCEPT ![s].at = IF keySend[s].seen = "active" THEN "admitted" ELSE "refused"]
    /\ UNCHANGED <<keys, keyEvents, keyIndex, templates, keyCall>>

-----------------------------------------------------------------------------
(* The templates.  Each route is one turn of the object and nothing of it  *)
(* is left to do after, so a template call needs no state of its own.  A   *)
(* revision by id rewrites an archived row too, and leaves it archived.    *)
Active(content) == [status |-> "active", content |-> content]
IsActive(table, t) == table[t].status = "active"
createTemplate(t, content) ==
    /\ templates[t].status = "absent"
    /\ templates' = [templates EXCEPT ![t] = Active(content)]
updateTemplate(t, content) ==
    /\ templates[t].status # "absent"
    /\ templates' = [templates EXCEPT ![t].content = content]
archiveTemplate(t) ==
    /\ templates[t].status # "absent"
    /\ templates' = [templates EXCEPT ![t].status = "archived"]

(* The collection PUT: the listed ids are created, rewritten or left, an   *)
(* archived one is left alone, and with archiveMissing the active ones     *)
(* that are not listed are archived; all in one transaction.               *)
\* Mutant: a sync revives an archived template.
syncTemplatesReviving(table, batch, archiveMissing) ==
    [t \in TemplateIds |->
        IF t \in DOMAIN batch THEN Active(batch[t])
        ELSE IF archiveMissing THEN [table[t] EXCEPT !.status = "archived"] ELSE table[t]]
syncTemplates(table, batch, archiveMissing) ==
    [t \in TemplateIds |->
        IF t \in DOMAIN batch
        THEN IF table[t].status = "archived" THEN table[t] ELSE Active(batch[t])
        ELSE IF archiveMissing /\ IsActive(table, t)
             THEN [table[t] EXCEPT !.status = "archived"]
             ELSE table[t]]
Batches == UNION {[ids -> Contents] : ids \in SUBSET TemplateIds}

TemplateCall ==
    /\ \/ \E t \in TemplateIds, content \in Contents :
            createTemplate(t, content) \/ updateTemplate(t, content)
       \/ \E t \in TemplateIds : archiveTemplate(t)
       \/ \E batch \in Batches, missing \in BOOLEAN :
            templates' = syncTemplates(templates, batch, missing)
    /\ UNCHANGED <<keys, keyEvents, keyIndex, keyCall, keySend>>

KeyCallStep(c) ==
    \/ createApiKey(c)
    \/ revokeApiKey(c)
    \/ updateApiKeySenderName(c)
    \/ rotateApiKey(c)
    \/ projectApiKey(c)
    \/ readDoJson(c)
    \/ CallLost(c)
KeySendStep(s) == Present(s) \/ getApiKeyRecord(s) \/ authenticateTransactionalKey(s)

KeyTableNext == (\E c \in Calls : KeyCallStep(c)) \/ (\E s \in Sends : KeySendStep(s))
KeysNext == KeyTableNext \/ TemplateCall
KeysSpec == KeysInit /\ [][KeysNext]_keyVars

-----------------------------------------------------------------------------
KeysTypeOK ==
    /\ keys \in Seq([status : KeyStatus, name : SenderNames, from : 0 .. MaxKeys])
    /\ Len(keys) <= MaxKeys
    /\ keyEvents \in [KeyIds -> SUBSET {"created", "revoked", "rotated", "sender_name_updated"}]
    /\ keyIndex \in [KeyIds -> KeyStatus \union {"none"}]
    /\ DOMAIN templates = TemplateIds

(* A request that set out after its key was revoked is never admitted,     *)
(* though the record it is judged by was read before the verification.     *)
RevokedNeverAdmits == \A s \in Sends : (keySend[s].at = "admitted") => ~keySend[s].late

(* D1 may call a revoked key active, for ever, but never the reverse: a    *)
(* key it calls revoked, or that is about to be, is revoked in the object. *)
IndexRevokesNothing == \A k \in KeyIds :
    ( \/ keyIndex[k] = "revoked"
      \/ \E c \in Calls, i \in 1 .. 2 : /\ i \in DOMAIN keyCall[c].left
                                        /\ keyCall[c].left[i] = Projection(k, "revoked") )
    => (k \in Stored /\ keys[k].status = "revoked")

(* A call that created or rotated a key and was answered holds the secret  *)
(* of a key the object stores, whatever became of the copies in D1.        *)
SecretIsStored == \A c \in Calls :
    (keyCall[c].at = "answered" /\ keyCall[c].op \in {"create", "rotate"})
    => (keyCall[c].issued \in Stored
        /\ \A d \in Calls \ {c} : keyCall[d].issued # keyCall[c].issued)

(* The audit trail accounts for the table: an active key was created or    *)
(* rotated into being, never both; a revoked one has its event; and what a *)
(* key was rotated from is revoked.                                        *)
AuditAccounts == \A k \in KeyIds :
    /\ (keyEvents[k] \intersect {"created", "rotated"} # {}) <=> (k \in Stored)
    /\ ~({"created", "rotated"} \subseteq keyEvents[k])
    /\ k \in Stored =>
        /\ (keys[k].status = "revoked") <=> ("revoked" \in keyEvents[k])
        /\ (keys[k].from # 0) => (keys[keys[k].from].status = "revoked")

KeysInvariant ==
    /\ KeysTypeOK
    /\ RevokedNeverAdmits
    /\ IndexRevokesNothing
    /\ SecretIsStored
    /\ AuditAccounts

(* Neither a key nor a template comes back: revoked and archived are       *)
(* final, across rotations, renames, revisions and syncs.  And a sync is   *)
(* idempotent: run again on what a call left, it changes nothing that the  *)
(* first run has not.                                                      *)
RetiredStaysRetired == [][
    /\ \A k \in Stored : (keys[k].status = "revoked") => (keys'[k].status = "revoked")
    /\ \A t \in TemplateIds : (templates[t].status = "archived") => (templates'[t].status = "archived")
    /\ (templates' # templates) =>
        \A batch \in Batches, missing \in BOOLEAN :
            (templates' = syncTemplates(templates, batch, missing))
            => (templates' = syncTemplates(templates', batch, missing))]_keyVars

(* "creates a new key with the same properties" (transactional-key-ops.ts, *)
(* rotateApiKey): the successor a rotation stores has the sender name the  *)
(* rotation read from the key it replaces.                                 *)
SuccessorKeepsName == [][
    \A c \in Calls :
        (keyCall[c].at = "hashing" /\ keyCall[c].op = "rotate" /\ keyCall'[c].at = "projecting")
        => (keys'[keyCall'[c].issued].name = keyCall[c].name)]_keyVars
=============================================================================
