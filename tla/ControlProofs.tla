----------------------------- MODULE ControlProofs -----------------------------
(***************************************************************************)
(* What ApiKeys, MailRouting and FeedbackLiveness guarantee for any number *)
(* of keys, calls, editors, mails and sends.  Keys: rows are only appended and a revoked status   *)
(* is never rewritten, so whatever a call or a request read of a row stays *)
(* good in the one direction the answers depend on.  Routing: an alias is  *)
(* only ever deleted or given to an address that has none, so a delivery   *)
(* whose alias and domain stood still was answered from that alias.        *)
(* Feedback: no event is later than its channel worked, and what is still  *)
(* owed an event is young, so the silence of an old send tells of a cut.   *)
(***************************************************************************)
EXTENDS ApiKeys, MailRouting, FeedbackLiveness, SequenceTheorems, FiniteSetTheorems,
        WellFoundedInduction, TLAPS

--------------------------------------------------------------------------------
(* Keys: the strengthening.                                                *)

KeyRow == [status : KeyStatus, name : SenderNames, from : 0 .. MaxKeys]
ToProject == [key : KeyIds, status : KeyStatus]
CallRow == [at : {"new", "hashing", "projecting", "answered", "lost"},
            op : {"none", "create", "revoke", "rename", "rotate"},
            key : 0 .. MaxKeys, name : SenderNames,
            left : Seq(ToProject), issued : 0 .. MaxKeys]
KeySendRow == [at : {"new", "travelling", "verifying", "admitted", "refused"},
            key : 0 .. MaxKeys, seen : KeyStatus \union {"none"}, late : BOOLEAN]
TemplateRow == [status : {"absent", "active", "archived"}, content : Contents \union {"none"}]

CallersTyped ==
  /\ keyCall \in [Calls -> CallRow]
  /\ keySend \in [Sends -> KeySendRow]
  /\ templates \in [TemplateIds -> TemplateRow]

Revoked(k) == k \in Stored /\ keys[k].status = "revoked"

\* A request that came late is about a key that is revoked, and read so.
RequestsSound ==
  \A s \in Sends :
    /\ keySend[s].at # "new" => keySend[s].key \in Stored
    /\ keySend[s].late => Revoked(keySend[s].key)
    /\ keySend[s].late /\ keySend[s].at = "verifying" => keySend[s].seen = "revoked"
    /\ keySend[s].late => keySend[s].at # "admitted"

\* A call names keys that are stored, its own successor is nobody else's, and
\* what it is about to copy to D1 has happened.
CallsSound ==
  \A c \in Calls :
    /\ keyCall[c].at = "hashing" /\ keyCall[c].op = "rotate" => keyCall[c].key \in Stored
    /\ keyCall[c].issued # 0 =>
         /\ keyCall[c].issued \in Stored
         /\ \A d \in Calls \ {c} : keyCall[d].issued # keyCall[c].issued
    /\ keyCall[c].at \in {"projecting", "answered"} /\ keyCall[c].op \in {"create", "rotate"}
         => keyCall[c].issued # 0
    /\ \A i \in DOMAIN keyCall[c].left :
         keyCall[c].left[i].status = "revoked" => Revoked(keyCall[c].left[i].key)

IndexSound == \A k \in KeyIds : keyIndex[k] = "revoked" => Revoked(k)

\* The trail of a key, its row, and the row it was rotated from.
TrailSound ==
  \A k \in KeyIds :
    /\ k \notin Stored => keyEvents[k] = {}
    /\ k \in Stored =>
         /\ ("created" \in keyEvents[k]) # ("rotated" \in keyEvents[k])
         /\ keys[k].status = "revoked" <=> "revoked" \in keyEvents[k]
         /\ keys[k].from # 0 => Revoked(keys[k].from)

KeysIInv ==
  /\ KeysTypeOK
  /\ CallersTyped
  /\ RequestsSound
  /\ CallsSound
  /\ IndexSound
  /\ TrailSound


LEMMA KeysStart == KeysInit => KeysIInv
<1> SUFFICES ASSUME KeysInit PROVE KeysIInv
  OBVIOUS
<1> USE KeysAssumption DEF KeysInit
<1>1. PICK n \in SenderNames :
        keys \in {<<>>, <<[status |-> "active", name |-> n, from |-> 0]>>}
  OBVIOUS
<1>2. /\ keys \in Seq(KeyRow) /\ Stored \subseteq KeyIds /\ Len(keys) <= MaxKeys
      /\ \A k \in Stored : keys[k] = [status |-> "active", name |-> n, from |-> 0]
  <2>1. CASE keys = <<>>
    <3>1. keys \in Seq(KeyRow) /\ Len(keys) = 0 /\ Stored = {}
      BY <2>1, EmptySeq DEF Stored
    <3>2. QED
      BY <3>1
  <2>2. CASE keys = <<[status |-> "active", name |-> n, from |-> 0]>>
    <3> DEFINE row == [status |-> "active", name |-> n, from |-> 0]
    <3>1. row \in KeyRow
      BY DEF KeyRow, KeyStatus
    <3> HIDE DEF row
    <3>2. /\ keys = <<row>> /\ keys \in Seq(KeyRow) /\ Len(keys) = 1
          /\ Stored = {1} /\ keys[1] = row
      BY <2>2, <3>1 DEF Stored, row
    <3>3. QED
      BY <3>2 DEF KeyIds, row
  <2>3. QED
    BY <1>1, <2>1, <2>2
<1>3. PICK i \in {"none", "active"} :
        keyIndex = [k \in KeyIds |-> IF k \in Stored THEN i ELSE "none"]
  OBVIOUS
<1>4. KeysTypeOK
  BY <1>2, <1>3 DEF KeysTypeOK, KeyRow, KeyStatus
<1>5. CallersTyped
  BY DEF CallersTyped, CallRow, KeySendRow, TemplateRow, NoCall, NoSend, ToProject, KeyStatus
<1>6. RequestsSound /\ CallsSound
  BY DEF RequestsSound, CallsSound, NoCall, NoSend
<1>7. IndexSound /\ TrailSound
  BY <1>2, <1>3 DEF IndexSound, TrailSound
<1>8. QED
  BY <1>4, <1>5, <1>6, <1>7 DEF KeysIInv

--------------------------------------------------------------------------------
(* The tables.                                                             *)

\* What a step does to the rows that are there: none goes, and a revoked one
\* stays so.
RowsStay == \A k \in Stored : k \in Stored' /\ (keys[k].status = "revoked" => keys'[k].status = "revoked")

LEMMA TableShape ==
  ASSUME KeysTypeOK
  PROVE  /\ keys \in Seq(KeyRow) /\ Len(keys) \in 0 .. MaxKeys
         /\ Stored = 1 .. Len(keys) /\ Stored \subseteq KeyIds
         /\ \A k \in Stored : keys[k] \in KeyRow
<1>1. keys \in Seq(KeyRow) /\ Len(keys) <= MaxKeys
  BY DEF KeysTypeOK, KeyRow
<1>2. Len(keys) \in Nat /\ Stored = 1 .. Len(keys) /\ keys \in [1 .. Len(keys) -> KeyRow]
  BY <1>1, LenProperties DEF Stored
<1>3. QED
  BY <1>1, <1>2, KeysAssumption DEF KeyIds

\* One row changes its name, or is revoked.
LEMMA RowRewritten ==
  ASSUME KeysTypeOK, NEW k \in Stored, NEW row \in KeyRow,
         keys' = [keys EXCEPT ![k] = row]
  PROVE  /\ keys' \in Seq(KeyRow) /\ Len(keys') = Len(keys) /\ Stored' = Stored
         /\ keys'[k] = row /\ \A j \in Stored : j # k => keys'[j] = keys[j]
<1>1. /\ keys' \in Seq(KeyRow) /\ Len(keys') = Len(keys)
      /\ \A j \in 1 .. Len(keys) : keys'[j] = IF j = k THEN row ELSE keys[j]
  BY TableShape, ExceptSeq
<1>2. Stored' = 1 .. Len(keys')
  BY <1>1, LenProperties DEF Stored
<1>3. QED
  BY <1>1, <1>2, TableShape

\* A row is appended to a table that may have been rewritten.
LEMMA RowAppended ==
  ASSUME KeysTypeOK, NEW before \in Seq(KeyRow), NEW row \in KeyRow,
         Len(before) = Len(keys), Len(keys) < MaxKeys,
         keys' = Append(before, row)
  PROVE  /\ keys' \in Seq(KeyRow) /\ Len(keys') = Len(keys) + 1
         /\ Len(keys) + 1 \in KeyIds /\ Len(keys) + 1 \notin Stored
         /\ Stored' = Stored \union {Len(keys) + 1}
         /\ keys'[Len(keys) + 1] = row
         /\ \A j \in Stored : keys'[j] = before[j]
<1>1. /\ keys' \in Seq(KeyRow) /\ Len(keys') = Len(keys) + 1
      /\ \A j \in 1 .. Len(keys) : keys'[j] = before[j]
      /\ keys'[Len(keys) + 1] = row
  BY AppendProperties
<1>2. Stored' = 1 .. Len(keys')
  BY <1>1, LenProperties DEF Stored
<1>3. QED
  BY <1>1, <1>2, TableShape, KeysAssumption DEF KeyIds


\* A row's trail, when it keeps the origin it had or has none.
LEMMA OriginKept ==
  ASSUME TrailSound, RowsStay, Stored' \subseteq KeyIds, Stored \subseteq KeyIds,
         NEW j \in Stored',
         keys'[j].from = 0 \/ (j \in Stored /\ keys'[j].from = keys[j].from)
  PROVE  keys'[j].from # 0 => (keys'[j].from \in Stored' /\ keys'[keys'[j].from].status = "revoked")
<1> SUFFICES ASSUME keys'[j].from # 0, j \in Stored, keys'[j].from = keys[j].from
             PROVE  keys'[j].from \in Stored' /\ keys'[keys'[j].from].status = "revoked"
  OBVIOUS
<1> DEFINE o == keys[j].from
<1>1. o \in Stored /\ keys[o].status = "revoked"
  BY DEF TrailSound, Revoked
<1> HIDE DEF o
<1>2. o \in Stored' /\ keys'[o].status = "revoked"
  BY <1>1 DEF RowsStay
<1>3. QED
  BY <1>2 DEF o

\* The rows and their trail after each step that writes them.
Tables == KeysTypeOK /\ TrailSound
TablesAfter == KeysTypeOK' /\ TrailSound' /\ RowsStay

LEMMA TablesAfterCreate ==
  ASSUME Tables, CallersTyped, NEW c \in Calls, createApiKey(c), keyIndex' = keyIndex,
         DOMAIN templates' = TemplateIds
  PROVE  TablesAfter
<1> USE DEF Tables
<1>1. CASE keyCall[c].at = "new"
  <2>1. keys' = keys /\ keyEvents' = keyEvents
    BY <1>1 DEF createApiKey
  <2>2. QED
    BY <2>1 DEF TablesAfter, RowsStay, KeysTypeOK, TrailSound, Stored, Revoked
<1>2. CASE keyCall[c].at # "new"
  <2> DEFINE k == Len(keys) + 1
             row == [status |-> "active", name |-> keyCall[c].name, from |-> 0]
  <2>1. /\ keys' = Append(keys, row) /\ Len(keys) < MaxKeys
        /\ keyEvents' = [keyEvents EXCEPT ![k] = @ \union {"created"}]
    BY <1>2 DEF createApiKey, Records
  <2>2. row \in KeyRow
    BY KeysAssumption DEF CallersTyped, CallRow, KeyRow, KeyStatus
  <2>3. row.status = "active" /\ row.from = 0
    OBVIOUS
  <2> HIDE DEF row
  <2>4. /\ keys' \in Seq(KeyRow) /\ Len(keys') = Len(keys) + 1
        /\ k \in KeyIds /\ k \notin Stored /\ Stored' = Stored \union {k}
        /\ keys'[k] = row /\ \A j \in Stored : keys'[j] = keys[j]
    BY <2>1, <2>2, RowAppended, TableShape
  <2> HIDE DEF k
  <2>5. keyEvents' \in [KeyIds -> SUBSET {"created", "revoked", "rotated", "sender_name_updated"}]
    BY <2>1, <2>4 DEF KeysTypeOK
  <2>6. /\ keyEvents[k] = {} /\ keyEvents'[k] = {"created"}
        /\ \A j \in KeyIds : j # k => keyEvents'[j] = keyEvents[j]
    BY <2>1, <2>4 DEF KeysTypeOK, TrailSound
  <2>7. KeysTypeOK'
    BY <2>1, <2>4, <2>5, TableShape, KeysAssumption DEF KeysTypeOK, KeyRow
  <2>8. RowsStay
    BY <2>4 DEF RowsStay
  <2>9. TrailSound'
    BY <2>3, <2>4, <2>6, TableShape DEF TrailSound, Revoked
  <2>10. QED
    BY <2>7, <2>8, <2>9 DEF TablesAfter
<1>3. QED
  BY <1>1, <1>2

LEMMA TablesAfterRevoke ==
  ASSUME Tables, NEW c \in Calls, revokeApiKey(c), keyIndex' = keyIndex,
         DOMAIN templates' = TemplateIds
  PROVE  TablesAfter
<1> USE DEF Tables
<1>1. PICK k \in Stored : /\ keys' = [keys EXCEPT ![k].status = "revoked"]
                          /\ keyEvents' = [keyEvents EXCEPT ![k] = @ \union {"revoked"}]
  BY DEF revokeApiKey, Records
<1> DEFINE row == [keys[k] EXCEPT !.status = "revoked"]
<1>2. row \in KeyRow /\ row.status = "revoked" /\ row.from = keys[k].from
  BY TableShape DEF KeyRow, KeyStatus
<1>3. keys' = [keys EXCEPT ![k] = row]
  BY <1>1
<1> HIDE DEF row
<1>4. /\ keys' \in Seq(KeyRow) /\ Len(keys') = Len(keys) /\ Stored' = Stored
      /\ keys'[k] = row /\ \A j \in Stored : j # k => keys'[j] = keys[j]
  BY <1>2, <1>3, RowRewritten
<1>5. /\ keyEvents' \in [KeyIds -> SUBSET {"created", "revoked", "rotated", "sender_name_updated"}]
      /\ keyEvents'[k] = keyEvents[k] \union {"revoked"}
      /\ \A j \in KeyIds : j # k => keyEvents'[j] = keyEvents[j]
  BY <1>1, TableShape DEF KeysTypeOK
<1>6. KeysTypeOK'
  BY <1>4, <1>5, TableShape DEF KeysTypeOK, KeyRow
<1>7. RowsStay
  BY <1>2, <1>4 DEF RowsStay
<1>8. ASSUME NEW j \in KeyIds
      PROVE  /\ j \notin Stored' => keyEvents'[j] = {}
             /\ j \in Stored' =>
                  /\ ("created" \in keyEvents'[j]) # ("rotated" \in keyEvents'[j])
                  /\ keys'[j].status = "revoked" <=> "revoked" \in keyEvents'[j]
                  /\ j \in Stored /\ keys'[j].from = keys[j].from
  <2>1. CASE j = k
    BY <1>2, <1>4, <1>5, <2>1, TableShape DEF TrailSound
  <2>2. CASE j # k
    BY <1>4, <1>5, <2>2 DEF TrailSound
  <2>3. QED
    BY <2>1, <2>2
<1>9. TrailSound'
  BY <1>7, <1>4, <1>8, OriginKept, TableShape DEF TrailSound, Revoked
<1>10. QED
  BY <1>6, <1>7, <1>9 DEF TablesAfter

LEMMA TablesAfterRename ==
  ASSUME Tables, NEW c \in Calls, updateApiKeySenderName(c), keyIndex' = keyIndex,
         DOMAIN templates' = TemplateIds
  PROVE  TablesAfter
<1> USE DEF Tables
<1>1. PICK k \in Stored, n \in SenderNames :
        /\ keys' = [keys EXCEPT ![k].name = n]
        /\ keyEvents' = [keyEvents EXCEPT ![k] = @ \union {"sender_name_updated"}]
  BY DEF updateApiKeySenderName, Records
<1> DEFINE row == [keys[k] EXCEPT !.name = n]
<1>2. row \in KeyRow /\ row.status = keys[k].status /\ row.from = keys[k].from
  BY TableShape DEF KeyRow
<1>3. keys' = [keys EXCEPT ![k] = row]
  BY <1>1
<1> HIDE DEF row
<1>4. /\ keys' \in Seq(KeyRow) /\ Len(keys') = Len(keys) /\ Stored' = Stored
      /\ keys'[k] = row /\ \A j \in Stored : j # k => keys'[j] = keys[j]
  BY <1>2, <1>3, RowRewritten
<1>5. /\ keyEvents' \in [KeyIds -> SUBSET {"created", "revoked", "rotated", "sender_name_updated"}]
      /\ keyEvents'[k] = keyEvents[k] \union {"sender_name_updated"}
      /\ \A j \in KeyIds : j # k => keyEvents'[j] = keyEvents[j]
  BY <1>1, TableShape DEF KeysTypeOK
<1>6. KeysTypeOK'
  BY <1>4, <1>5, TableShape DEF KeysTypeOK, KeyRow
<1>7. RowsStay
  BY <1>2, <1>4 DEF RowsStay
<1>8. ASSUME NEW j \in KeyIds
      PROVE  /\ j \notin Stored' => keyEvents'[j] = {}
             /\ j \in Stored' =>
                  /\ ("created" \in keyEvents'[j]) # ("rotated" \in keyEvents'[j])
                  /\ keys'[j].status = "revoked" <=> "revoked" \in keyEvents'[j]
                  /\ j \in Stored /\ keys'[j].from = keys[j].from
  <2>1. CASE j = k
    BY <1>2, <1>4, <1>5, <2>1, TableShape DEF TrailSound
  <2>2. CASE j # k
    BY <1>4, <1>5, <2>2 DEF TrailSound
  <2>3. QED
    BY <2>1, <2>2
<1>9. TrailSound'
  BY <1>7, <1>4, <1>8, OriginKept, TableShape DEF TrailSound, Revoked
<1>10. QED
  BY <1>6, <1>7, <1>9 DEF TablesAfter

LEMMA TablesAfterRotate ==
  ASSUME Tables, CallersTyped, CallsSound, NEW c \in Calls, rotateApiKey(c),
         keyIndex' = keyIndex, DOMAIN templates' = TemplateIds
  PROVE  TablesAfter
<1> USE DEF Tables
<1>1. CASE keyCall[c].at = "new"
  <2>1. keys' = keys /\ keyEvents' = keyEvents
    BY <1>1 DEF rotateApiKey
  <2>2. QED
    BY <2>1 DEF TablesAfter, RowsStay, KeysTypeOK, TrailSound, Stored, Revoked
<1>2. CASE keyCall[c].at # "new"
  <2>1. PICK old \in Stored : old = keyCall[c].key
    BY <1>2 DEF rotateApiKey, CallsSound
  <2> DEFINE k == Len(keys) + 1
             row == [keys[old] EXCEPT !.status = "revoked"]
             before == [keys EXCEPT ![old] = row]
  <2>2. /\ Len(keys) < MaxKeys
        /\ keys' = Append(before, Successor(old))
        /\ keyEvents' = [keyEvents EXCEPT ![old] = @ \union {"revoked"}, ![k] = @ \union {"rotated"}]
    BY <1>2, <2>1 DEF rotateApiKey
  <2>3. row \in KeyRow /\ row.status = "revoked" /\ row.from = keys[old].from
    BY TableShape DEF KeyRow, KeyStatus
  <2> HIDE DEF row
  <2>4. Successor(old) \in KeyRow /\ Successor(old).status = "active" /\ Successor(old).from = old
    BY TableShape, KeysAssumption DEF KeyRow, KeyStatus, Successor, KeyIds
  <2>5. /\ before \in Seq(KeyRow) /\ Len(before) = Len(keys)
        /\ \A j \in Stored : before[j] = IF j = old THEN row ELSE keys[j]
    BY <2>3, TableShape, ExceptSeq
  <2> HIDE DEF before
  <2>6. /\ keys' \in Seq(KeyRow) /\ Len(keys') = Len(keys) + 1 /\ Len(keys') <= MaxKeys
        /\ k \in KeyIds /\ k \notin Stored /\ Stored' = Stored \union {k}
        /\ keys'[k] = Successor(old) /\ \A j \in Stored : keys'[j] = before[j]
    BY <2>2, <2>4, <2>5, RowAppended, TableShape, KeysAssumption
  <2> HIDE DEF k
  <2>7. keyEvents' \in [KeyIds -> SUBSET {"created", "revoked", "rotated", "sender_name_updated"}]
    BY <2>2, <2>6, TableShape DEF KeysTypeOK
  <2>8. /\ keyEvents[k] = {} /\ keyEvents'[k] = {"rotated"}
        /\ keyEvents'[old] = keyEvents[old] \union {"revoked"}
        /\ \A j \in KeyIds : j \notin {k, old} => keyEvents'[j] = keyEvents[j]
    BY <2>2, <2>6, TableShape DEF KeysTypeOK, TrailSound
  <2>9. KeysTypeOK'
    BY <2>6, <2>7 DEF KeysTypeOK, KeyRow
  <2>10. RowsStay
    BY <2>3, <2>5, <2>6 DEF RowsStay
  <2>11. ASSUME NEW j \in KeyIds
         PROVE  /\ j \notin Stored' => keyEvents'[j] = {}
                /\ j \in Stored' =>
                     /\ ("created" \in keyEvents'[j]) # ("rotated" \in keyEvents'[j])
                     /\ keys'[j].status = "revoked" <=> "revoked" \in keyEvents'[j]
                     /\ \/ keys'[j].from = old
                        \/ j \in Stored /\ keys'[j].from = keys[j].from
    <3>1. CASE j = k
      BY <2>4, <2>6, <2>8, <3>1
    <3>2. CASE j = old
      BY <2>3, <2>5, <2>6, <2>8, <3>2, TableShape DEF TrailSound
    <3>3. CASE j \notin {k, old}
      BY <2>5, <2>6, <2>8, <3>3 DEF TrailSound
    <3>4. QED
      BY <3>1, <3>2, <3>3
  <2>12. old \in Stored' /\ keys'[old].status = "revoked"
    BY <2>3, <2>5, <2>6
  <2>13. Stored' \subseteq KeyIds /\ Stored \subseteq KeyIds
    BY <2>6, TableShape
  <2>14. ASSUME NEW j \in Stored', keys'[j].from # 0
         PROVE  keys'[j].from \in Stored' /\ keys'[keys'[j].from].status = "revoked"
    <3>1. CASE keys'[j].from = old
      BY <2>12, <3>1
    <3>2. CASE keys'[j].from # old
      BY <2>10, <2>11, <2>13, <2>14, <3>2, OriginKept
    <3>3. QED
      BY <3>1, <3>2
  <2>15. TrailSound'
    BY <2>11, <2>14 DEF TrailSound, Revoked
  <2>16. QED
    BY <2>9, <2>10, <2>15 DEF TablesAfter
<1>3. QED
  BY <1>1, <1>2

--------------------------------------------------------------------------------
(* The calls.                                                              *)

RevokedNext(k) == k \in Stored' /\ keys'[k].status = "revoked"

\* A call moves, and what it becomes is sound on its own.
LEMMA CallMoves ==
  ASSUME CallersTyped, CallsSound, RowsStay, NEW c \in Calls, NEW row \in CallRow,
         keyCall' = [keyCall EXCEPT ![c] = row],
         row.at = "hashing" /\ row.op = "rotate" => row.key \in Stored',
         \/ row.issued = keyCall[c].issued
         \/ row.issued = 0
         \/ row.issued \in Stored' /\ row.issued \notin Stored,
         row.at \in {"projecting", "answered"} /\ row.op \in {"create", "rotate"} => row.issued # 0,
         \A i \in DOMAIN row.left : row.left[i].status = "revoked" => RevokedNext(row.left[i].key)
  PROVE  keyCall' \in [Calls -> CallRow] /\ CallsSound'
<1>1. /\ keyCall' \in [Calls -> CallRow] /\ keyCall'[c] = row
      /\ \A d \in Calls : d # c => keyCall'[d] = keyCall[d]
  BY DEF CallersTyped
<1>2. ASSUME NEW d \in Calls, keyCall'[d].at = "hashing", keyCall'[d].op = "rotate"
      PROVE  keyCall'[d].key \in Stored'
  BY <1>1, <1>2 DEF CallsSound, RowsStay
<1>3. ASSUME NEW d \in Calls, keyCall'[d].issued # 0
      PROVE  keyCall'[d].issued \in Stored'
  BY <1>1, <1>3 DEF CallsSound, RowsStay
<1>4. ASSUME NEW d \in Calls, keyCall'[d].issued # 0, NEW e \in Calls \ {d}
      PROVE  keyCall'[e].issued # keyCall'[d].issued
  <2>1. CASE d # c /\ e # c
    BY <1>1, <1>4, <2>1 DEF CallsSound
  <2>2. CASE d = c
    BY <1>1, <1>4, <2>2 DEF CallsSound
  <2>3. CASE e = c
    BY <1>1, <1>4, <2>3 DEF CallsSound
  <2>4. QED
    BY <2>1, <2>2, <2>3
<1>5. ASSUME NEW d \in Calls, keyCall'[d].at \in {"projecting", "answered"},
             keyCall'[d].op \in {"create", "rotate"}
      PROVE  keyCall'[d].issued # 0
  BY <1>1, <1>5 DEF CallsSound
<1>6. ASSUME NEW d \in Calls, NEW i \in DOMAIN keyCall'[d].left,
             keyCall'[d].left[i].status = "revoked"
      PROVE  RevokedNext(keyCall'[d].left[i].key)
  <2>1. CASE d = c
    BY <1>1, <1>6, <2>1
  <2>2. CASE d # c
    <3> DEFINE k == keyCall[d].left[i].key
    <3>1. Revoked(k) /\ k = keyCall'[d].left[i].key
      BY <1>1, <1>6, <2>2 DEF CallsSound
    <3> HIDE DEF k
    <3>2. QED
      BY <3>1 DEF RowsStay, Revoked, RevokedNext
  <2>3. QED
    BY <2>1, <2>2
<1>7. CallsSound'
  BY <1>2, <1>3, <1>4, <1>5, <1>6 DEF CallsSound, Revoked, RevokedNext
<1>8. QED
  BY <1>1, <1>7

\* Nothing of the calls changes.
LEMMA CallsStay ==
  ASSUME CallersTyped, CallsSound, RowsStay, keyCall' = keyCall
  PROVE  keyCall' \in [Calls -> CallRow] /\ CallsSound'
<1>1. ASSUME NEW d \in Calls, NEW i \in DOMAIN keyCall[d].left, keyCall[d].left[i].status = "revoked"
      PROVE  RevokedNext(keyCall[d].left[i].key)
  <2> DEFINE k == keyCall[d].left[i].key
  <2>1. Revoked(k)
    BY <1>1 DEF CallsSound
  <2> HIDE DEF k
  <2>2. RevokedNext(k)
    BY <2>1 DEF RowsStay, Revoked, RevokedNext
  <2>3. QED
    BY <2>2 DEF k
<1>2. CallsSound'
  BY <1>1 DEF CallsSound, Revoked, RevokedNext, RowsStay
<1>3. QED
  BY <1>2 DEF CallersTyped

\* A call is answered: the row it moves to.
AnsweredRow(c, op, left, issued) ==
  [keyCall[c] EXCEPT !.at = "projecting", !.op = op, !.left = left, !.issued = issued]
LEMMA CallAnswered ==
  ASSUME CallersTyped, CallsSound, RowsStay, NEW c \in Calls,
         NEW op \in {"create", "revoke", "rename", "rotate"},
         NEW left \in Seq(ToProject), NEW issued \in 0 .. MaxKeys,
         AnsweredBy(c, op, left, issued),
         issued = 0 \/ (issued \in Stored' /\ issued \notin Stored),
         op \in {"create", "rotate"} => issued # 0,
         \A i \in DOMAIN left : left[i].status = "revoked" => RevokedNext(left[i].key)
  PROVE  keyCall' \in [Calls -> CallRow] /\ CallsSound'
<1> DEFINE row == AnsweredRow(c, op, left, issued)
<1>1. keyCall' = [keyCall EXCEPT ![c] = row]
  BY DEF AnsweredBy, AnsweredRow, CallersTyped
<1>2. keyCall[c] \in CallRow
  BY DEF CallersTyped
<1>3. /\ row \in CallRow /\ row.at = "projecting" /\ row.op = op
      /\ row.left = left /\ row.issued = issued
  BY <1>2 DEF AnsweredRow, CallRow
<1> HIDE DEF row
<1>4. QED
  BY <1>1, <1>3, CallMoves


\* One projection, or two.
LEMMA ProjectionsTyped ==
  ASSUME NEW p \in ToProject, NEW q \in ToProject
  PROVE  /\ <<p>> \in Seq(ToProject) /\ \A i \in DOMAIN <<p>> : <<p>>[i] = p
         /\ <<p, q>> \in Seq(ToProject) /\ \A i \in DOMAIN <<p, q>> : <<p, q>>[i] \in {p, q}
OBVIOUS

\* What a call's step leaves alone.
AsideFromCalls == keySend' = keySend /\ templates' = templates

LEMMA CallStepKeeps ==
  ASSUME KeysIInv, NEW c \in Calls, KeyCallStep(c)
  PROVE  /\ TablesAfter
         /\ keyCall' \in [Calls -> CallRow] /\ CallsSound'
         /\ AsideFromCalls
<1> USE DEF KeysIInv, Tables
<1>1. keyCall[c] \in CallRow /\ DOMAIN templates = TemplateIds
  BY DEF CallersTyped, KeysTypeOK
<1>2. ASSUME keys' = keys, keyEvents' = keyEvents, keyIndex' = keyIndex, templates' = templates
      PROVE  TablesAfter
  BY <1>2 DEF TablesAfter, RowsStay, KeysTypeOK, TrailSound, Stored, Revoked
<1>3. CASE createApiKey(c)
  <2>1. TablesAfter /\ RowsStay /\ AsideFromCalls
    BY <1>1, <1>3, TablesAfterCreate DEF createApiKey, AsideFromCalls, TablesAfter
  <2>2. CASE keyCall[c].at = "new"
    <3>1. PICK n \in SenderNames :
            keyCall' = [keyCall EXCEPT ![c] = [@ EXCEPT !.at = "hashing", !.op = "create", !.name = n]]
      BY <1>3, <2>2 DEF createApiKey
    <3> DEFINE row == [keyCall[c] EXCEPT !.at = "hashing", !.op = "create", !.name = n]
    <3>2. /\ keyCall' = [keyCall EXCEPT ![c] = row] /\ row \in CallRow
          /\ row.at = "hashing" /\ row.op = "create"
          /\ row.issued = keyCall[c].issued /\ row.left = keyCall[c].left
      BY <1>1, <3>1 DEF CallRow
    <3> HIDE DEF row
    <3>3. \A i \in DOMAIN row.left : row.left[i].status = "revoked" => RevokedNext(row.left[i].key)
      BY <2>1, <3>2 DEF CallsSound, Revoked, RevokedNext, RowsStay
    <3>4. QED
      BY <2>1, <3>2, <3>3, CallMoves
  <2>3. CASE keyCall[c].at # "new"
    <3> DEFINE k == Len(keys) + 1
    <3>1. /\ keys' = Append(keys, [status |-> "active", name |-> keyCall[c].name, from |-> 0])
          /\ Len(keys) < MaxKeys /\ AnsweredBy(c, "create", <<Projection(k, "active")>>, k)
      BY <1>3, <2>3 DEF createApiKey
    <3>2. [status |-> "active", name |-> keyCall[c].name, from |-> 0] \in KeyRow
      BY <1>1, KeysAssumption DEF CallRow, KeyRow, KeyStatus
    <3>3. k \in KeyIds /\ k \notin Stored /\ k \in Stored'
      BY <3>1, <3>2, RowAppended, TableShape
    <3> HIDE DEF k
    <3>4. k \in 0 .. MaxKeys /\ k # 0
      BY <3>3, KeysAssumption DEF KeyIds
    <3> DEFINE p == Projection(k, "active")
    <3>5. p \in ToProject /\ p.status = "active"
      BY <3>3 DEF Projection, ToProject, KeyStatus
    <3>6. AnsweredBy(c, "create", <<p>>, k)
      BY <3>1
    <3> HIDE DEF p
    <3>7. <<p>> \in Seq(ToProject) /\ \A i \in DOMAIN <<p>> : <<p>>[i].status = "active"
      BY <3>5, ProjectionsTyped
    <3>8. QED
      BY <2>1, <3>3, <3>4, <3>6, <3>7, CallAnswered
  <2>4. QED
    BY <2>1, <2>2, <2>3
<1>4. CASE revokeApiKey(c)
  <2>1. TablesAfter /\ RowsStay /\ AsideFromCalls
    BY <1>1, <1>4, TablesAfterRevoke DEF revokeApiKey, AsideFromCalls, TablesAfter
  <2>2. PICK k \in Stored : /\ keys' = [keys EXCEPT ![k].status = "revoked"]
                            /\ AnsweredBy(c, "revoke", <<Projection(k, "revoked")>>, 0)
    BY <1>4 DEF revokeApiKey
  <2>3. RevokedNext(k) /\ k \in KeyIds
    BY <2>1, <2>2, TableShape DEF RevokedNext, RowsStay, KeyRow
  <2> DEFINE p == Projection(k, "revoked")
  <2>4. p \in ToProject /\ p.key = k
    BY <2>3 DEF Projection, ToProject, KeyStatus
  <2>5. AnsweredBy(c, "revoke", <<p>>, 0)
    BY <2>2
  <2> HIDE DEF p
  <2>6. <<p>> \in Seq(ToProject) /\ \A i \in DOMAIN <<p>> : <<p>>[i].key = k
    BY <2>4, ProjectionsTyped
  <2>7. 0 \in 0 .. MaxKeys /\ "revoke" \in {"create", "revoke", "rename", "rotate"}
        /\ \A i \in DOMAIN <<p>> : <<p>>[i].status = "revoked" => RevokedNext(<<p>>[i].key)
    BY <2>3, <2>6, KeysAssumption
  <2> DEFINE left == <<p>>
  <2>8. /\ left \in Seq(ToProject) /\ AnsweredBy(c, "revoke", left, 0)
        /\ \A i \in DOMAIN left : left[i].status = "revoked" => RevokedNext(left[i].key)
    BY <2>5, <2>6, <2>7
  <2> HIDE DEF left
  <2>9. QED
    BY <2>1, <2>7, <2>8, CallAnswered
<1>5. CASE updateApiKeySenderName(c)
  <2>1. TablesAfter /\ RowsStay /\ AsideFromCalls
    BY <1>1, <1>5, TablesAfterRename DEF updateApiKeySenderName, AsideFromCalls, TablesAfter
  <2>2. PICK k \in Stored : /\ keys[k].status = "active"
                            /\ AnsweredBy(c, "rename", <<Projection(k, keys[k].status)>>, 0)
    BY <1>5 DEF updateApiKeySenderName
  <2> DEFINE p == Projection(k, "active")
  <2>3. p \in ToProject /\ p.status = "active"
    BY TableShape DEF Projection, ToProject, KeyStatus
  <2>4. AnsweredBy(c, "rename", <<p>>, 0)
    BY <2>2
  <2> HIDE DEF p
  <2>5. <<p>> \in Seq(ToProject) /\ \A i \in DOMAIN <<p>> : <<p>>[i].status = "active"
    BY <2>3, ProjectionsTyped
  <2> DEFINE left == <<p>>
  <2>6. /\ left \in Seq(ToProject) /\ AnsweredBy(c, "rename", left, 0)
        /\ \A i \in DOMAIN left : left[i].status = "active"
        /\ 0 \in 0 .. MaxKeys
    BY <2>4, <2>5, KeysAssumption
  <2> HIDE DEF left
  <2>7. QED
    BY <2>1, <2>6, CallAnswered
<1>6. CASE rotateApiKey(c)
  <2>1. TablesAfter /\ RowsStay /\ AsideFromCalls
    BY <1>1, <1>6, TablesAfterRotate DEF rotateApiKey, AsideFromCalls, TablesAfter
  <2>2. CASE keyCall[c].at = "new"
    <3>1. PICK k \in Stored : keyCall' = [keyCall EXCEPT ![c] =
            [@ EXCEPT !.at = "hashing", !.op = "rotate", !.key = k, !.name = keys[k].name]]
      BY <1>6, <2>2 DEF rotateApiKey
    <3>2. keys[k].name \in SenderNames /\ k \in 0 .. MaxKeys /\ k \in Stored'
      BY <2>1, TableShape, KeysAssumption DEF KeyRow, KeyIds, RowsStay
    <3> DEFINE row == [keyCall[c] EXCEPT !.at = "hashing", !.op = "rotate", !.key = k,
                                         !.name = keys[k].name]
    <3>3. /\ keyCall' = [keyCall EXCEPT ![c] = row] /\ row \in CallRow
          /\ row.at = "hashing" /\ row.key = k
          /\ row.issued = keyCall[c].issued /\ row.left = keyCall[c].left
      BY <1>1, <3>1, <3>2 DEF CallRow
    <3> HIDE DEF row
    <3>4. \A i \in DOMAIN row.left : row.left[i].status = "revoked" => RevokedNext(row.left[i].key)
      BY <2>1, <3>3 DEF CallsSound, Revoked, RevokedNext, RowsStay
    <3>5. QED
      BY <2>1, <3>2, <3>3, <3>4, CallMoves
  <2>3. CASE keyCall[c].at # "new"
    <3>1. PICK old \in Stored : old = keyCall[c].key
      BY <1>6, <2>3 DEF rotateApiKey, CallsSound
    <3> DEFINE k == Len(keys) + 1
               before == [keys EXCEPT ![old].status = "revoked"]
               p == Projection(old, "revoked")
               q == Projection(k, "active")
    <3>2. /\ keys' = Append(before, Successor(old)) /\ Len(keys) < MaxKeys
          /\ AnsweredBy(c, "rotate", <<p, q>>, k)
      BY <1>6, <2>3, <3>1 DEF rotateApiKey
    <3> DEFINE row == [keys[old] EXCEPT !.status = "revoked"]
    <3>3. row \in KeyRow /\ row.status = "revoked" /\ before = [keys EXCEPT ![old] = row]
      BY TableShape DEF KeyRow, KeyStatus
    <3> HIDE DEF row, before
    <3>4. before \in Seq(KeyRow) /\ Len(before) = Len(keys) /\ before[old] = row
      BY <3>3, TableShape, ExceptSeq
    <3>5. Successor(old) \in KeyRow
      BY TableShape, KeysAssumption DEF KeyRow, KeyStatus, Successor, KeyIds
    <3>6. k \in KeyIds /\ k \notin Stored /\ k \in Stored' /\ keys'[old] = row /\ old \in Stored'
      BY <3>2, <3>4, <3>5, RowAppended, TableShape
    <3> HIDE DEF k
    <3>7. k \in 0 .. MaxKeys /\ k # 0 /\ RevokedNext(old) /\ old \in KeyIds
      BY <3>3, <3>6, TableShape, KeysAssumption DEF KeyIds, RevokedNext
    <3>8. /\ p \in ToProject /\ p.key = old
          /\ q \in ToProject /\ q.status = "active"
      BY <3>6, <3>7 DEF Projection, ToProject, KeyStatus
    <3> HIDE DEF p, q
    <3>9. /\ <<p, q>> \in Seq(ToProject)
          /\ \A i \in DOMAIN <<p, q>> : <<p, q>>[i].status = "revoked" => RevokedNext(<<p, q>>[i].key)
      BY <3>7, <3>8, ProjectionsTyped
    <3>10. QED
      BY <2>1, <3>2, <3>6, <3>7, <3>9, CallAnswered
  <2>4. QED
    BY <2>1, <2>2, <2>3
<1>7. CASE projectApiKey(c)
  <2>1. /\ keyCall[c].left # <<>> /\ keys' = keys /\ keyEvents' = keyEvents /\ templates' = templates
        /\ keyIndex' \in {keyIndex, upsertApiKeyProjection(Head(keyCall[c].left))}
        /\ AsideFromCalls
    BY <1>7 DEF projectApiKey, AsideFromCalls
  <2>2. /\ keyCall[c].left \in Seq(ToProject) /\ Head(keyCall[c].left) \in ToProject
        /\ Tail(keyCall[c].left) \in Seq(ToProject)
        /\ DOMAIN Tail(keyCall[c].left) = 1 .. (Len(keyCall[c].left) - 1)
        /\ DOMAIN keyCall[c].left = 1 .. Len(keyCall[c].left)
        /\ Len(keyCall[c].left) \in Nat
        /\ \A i \in DOMAIN Tail(keyCall[c].left) : Tail(keyCall[c].left)[i] = keyCall[c].left[i + 1]
    BY <1>1, <2>1, HeadTailProperties, LenProperties DEF CallRow
  <2>3. TablesAfter /\ RowsStay
    <3> DEFINE p == Head(keyCall[c].left)
    <3>1. keyIndex' \in {keyIndex, [keyIndex EXCEPT ![p.key] = p.status]} /\ p \in ToProject
      BY <2>1, <2>2 DEF upsertApiKeyProjection
    <3> HIDE DEF p
    <3>2. keyIndex' \in [KeyIds -> KeyStatus \union {"none"}]
      BY <3>1 DEF KeysTypeOK, ToProject
    <3>3. Stored' = Stored
      BY <2>1 DEF Stored
    <3>4. KeysTypeOK' /\ RowsStay
      BY <2>1, <3>2, <3>3 DEF KeysTypeOK, RowsStay
    <3>5. TrailSound'
      BY <2>1, <3>3 DEF TrailSound, Revoked
    <3>6. QED
      BY <3>4, <3>5 DEF TablesAfter
  <2> DEFINE row == [keyCall[c] EXCEPT !.left = Tail(@)]
  <2>4. /\ keyCall' = [keyCall EXCEPT ![c] = row] /\ row \in CallRow
        /\ row.at = keyCall[c].at /\ row.op = keyCall[c].op /\ row.key = keyCall[c].key
        /\ row.issued = keyCall[c].issued /\ row.left = Tail(keyCall[c].left)
        /\ row.at = "projecting"
    BY <1>1, <1>7, <2>2 DEF projectApiKey, CallRow, CallersTyped
  <2> HIDE DEF row
  <2>5. \A i \in DOMAIN row.left : row.left[i].status = "revoked" => RevokedNext(row.left[i].key)
    <3> SUFFICES ASSUME NEW i \in DOMAIN row.left, row.left[i].status = "revoked"
                 PROVE  RevokedNext(row.left[i].key)
      OBVIOUS
    <3>1. i + 1 \in DOMAIN keyCall[c].left /\ row.left[i] = keyCall[c].left[i + 1]
      BY <2>2, <2>4
    <3>2. Revoked(row.left[i].key)
      BY <3>1 DEF CallsSound
    <3>3. QED
      BY <2>1, <3>2 DEF Revoked, RevokedNext, Stored
  <2>6. row.at \in {"projecting", "answered"} /\ row.op \in {"create", "rotate"} => row.issued # 0
    BY <2>4 DEF CallsSound
  <2>7. QED
    BY <2>1, <2>3, <2>4, <2>5, <2>6, CallMoves
<1>8. CASE readDoJson(c) \/ CallLost(c)
  <2>1. PICK at \in {"answered", "lost"} :
          /\ keyCall' = [keyCall EXCEPT ![c].at = at]
          /\ at = "answered" => keyCall[c].at = "projecting"
    BY <1>8 DEF readDoJson, CallLost
  <2>2. TablesAfter /\ RowsStay /\ AsideFromCalls
    BY <1>2, <1>8 DEF readDoJson, CallLost, AsideFromCalls, TablesAfter
  <2> DEFINE row == [keyCall[c] EXCEPT !.at = at]
  <2>3. /\ keyCall' = [keyCall EXCEPT ![c] = row] /\ row \in CallRow
        /\ row.at = at /\ row.op = keyCall[c].op
        /\ row.issued = keyCall[c].issued /\ row.left = keyCall[c].left
    BY <1>1, <2>1 DEF CallRow
  <2> HIDE DEF row
  <2>4. \A i \in DOMAIN row.left : row.left[i].status = "revoked" => RevokedNext(row.left[i].key)
    BY <2>2, <2>3 DEF CallsSound, Revoked, RevokedNext, RowsStay
  <2>5. row.at \in {"projecting", "answered"} /\ row.op \in {"create", "rotate"} => row.issued # 0
    BY <2>1, <2>3 DEF CallsSound
  <2>6. QED
    BY <2>2, <2>3, <2>4, <2>5, CallMoves
<1>9. QED
  BY <1>3, <1>4, <1>5, <1>6, <1>7, <1>8 DEF KeyCallStep


\* D1 is written by projections alone, each of something that has happened.
LEMMA IndexAfterCall ==
  ASSUME KeysIInv, NEW c \in Calls, KeyCallStep(c), RowsStay
  PROVE  IndexSound'
<1> USE DEF KeysIInv
<1>1. CASE keyIndex' = keyIndex
  BY <1>1 DEF IndexSound, RowsStay, Revoked
<1>2. CASE keyIndex' # keyIndex
  <2>1. /\ keyCall[c].left # <<>> /\ keys' = keys
        /\ keyIndex' = upsertApiKeyProjection(Head(keyCall[c].left))
    BY <1>2 DEF KeyCallStep, createApiKey, revokeApiKey, updateApiKeySenderName, rotateApiKey,
                projectApiKey, readDoJson, CallLost
  <2>2. keyCall[c].left \in Seq(ToProject)
    BY DEF CallersTyped, CallRow
  <2>3. 1 \in DOMAIN keyCall[c].left /\ Head(keyCall[c].left) = keyCall[c].left[1]
    BY <2>1, <2>2, LenProperties, EmptySeq
  <2> DEFINE p == keyCall[c].left[1]
  <2>4. p \in ToProject /\ keyIndex' = [keyIndex EXCEPT ![p.key] = p.status]
    BY <2>1, <2>2, <2>3, HeadTailProperties DEF upsertApiKeyProjection
  <2>5. p.status = "revoked" => Revoked(p.key)
    BY <2>3 DEF CallsSound
  <2> HIDE DEF p
  <2>6. \A k \in KeyIds : keyIndex'[k] = IF k = p.key THEN p.status ELSE keyIndex[k]
    BY <2>4 DEF KeysTypeOK, ToProject
  <2>7. \A k \in KeyIds : keyIndex'[k] = "revoked" => Revoked(k)
    BY <2>5, <2>6 DEF IndexSound
  <2>8. QED
    BY <2>1, <2>7 DEF IndexSound, Revoked, Stored
<1>3. QED
  BY <1>1, <1>2

LEMMA SendStepKeeps ==
  ASSUME KeysIInv, NEW s \in Sends, KeySendStep(s)
  PROVE  keySend' \in [Sends -> KeySendRow] /\ RequestsSound'
<1> USE DEF KeysIInv
<1>1. /\ keys' = keys /\ Stored' = Stored /\ keySend[s] \in KeySendRow
      /\ \A r \in Sends : keySend[r] \in KeySendRow
  BY DEF KeySendStep, Present, getApiKeyRecord, authenticateTransactionalKey, Stored, CallersTyped
<1>2. PICK row \in KeySendRow :
        /\ keySend' = [keySend EXCEPT ![s] = row]
        /\ row.at # "new" => row.key \in Stored
        /\ row.late => Revoked(row.key)
        /\ row.late /\ row.at = "verifying" => row.seen = "revoked"
        /\ row.late => row.at # "admitted"
  <2>1. CASE Present(s)
    <3>1. PICK k \in Stored : keySend' = [keySend EXCEPT ![s] =
            [at |-> "travelling", key |-> k, seen |-> "none", late |-> keys[k].status = "revoked"]]
      BY <2>1 DEF Present
    <3> DEFINE row == [at |-> "travelling", key |-> k, seen |-> "none",
                       late |-> keys[k].status = "revoked"]
    <3>2. k \in 0 .. MaxKeys
      BY TableShape, KeysAssumption DEF KeyIds
    <3>3. /\ row \in KeySendRow /\ row.at = "travelling" /\ row.key = k
          /\ row.late => keys[k].status = "revoked"
      BY <3>2 DEF KeySendRow
    <3>4. keySend' = [keySend EXCEPT ![s] = row]
      BY <3>1
    <3> HIDE DEF row
    <3>5. QED
      BY <3>3, <3>4 DEF Revoked
  <2>2. CASE getApiKeyRecord(s)
    <3>1. keySend[s].key \in Stored /\ keys[keySend[s].key].status \in KeyStatus
      BY <2>2, TableShape DEF getApiKeyRecord, RequestsSound, KeyRow
    <3> DEFINE row == [keySend[s] EXCEPT !.at = "verifying", !.seen = keys[keySend[s].key].status]
    <3>2. /\ keySend' = [keySend EXCEPT ![s] = row] /\ row \in KeySendRow
          /\ row.at = "verifying" /\ row.key = keySend[s].key /\ row.late = keySend[s].late
          /\ row.seen = keys[keySend[s].key].status
      BY <1>1, <2>2, <3>1 DEF getApiKeyRecord, KeySendRow
    <3> HIDE DEF row
    <3>3. QED
      BY <3>1, <3>2 DEF RequestsSound, Revoked
  <2>3. CASE authenticateTransactionalKey(s)
    <3> DEFINE row == [keySend[s] EXCEPT
                        !.at = IF keySend[s].seen = "active" THEN "admitted" ELSE "refused"]
    <3>1. /\ keySend' = [keySend EXCEPT ![s] = row] /\ row \in KeySendRow
          /\ row.at = IF keySend[s].seen = "active" THEN "admitted" ELSE "refused"
          /\ row.key = keySend[s].key /\ row.late = keySend[s].late
      BY <1>1, <2>3 DEF authenticateTransactionalKey, KeySendRow
    <3> HIDE DEF row
    <3>2. QED
      BY <2>3, <3>1 DEF RequestsSound, authenticateTransactionalKey
  <2>4. QED
    BY <2>1, <2>2, <2>3 DEF KeySendStep
<1>3. /\ keySend' \in [Sends -> KeySendRow] /\ keySend'[s] = row
      /\ \A r \in Sends : r # s => keySend'[r] = keySend[r]
  BY <1>2 DEF CallersTyped
<1>4. ASSUME NEW r \in Sends
      PROVE  /\ keySend'[r].at # "new" => keySend'[r].key \in Stored
             /\ keySend'[r].late => Revoked(keySend'[r].key)
             /\ keySend'[r].late /\ keySend'[r].at = "verifying" => keySend'[r].seen = "revoked"
             /\ keySend'[r].late => keySend'[r].at # "admitted"
  <2>1. CASE r = s
    BY <1>2, <1>3, <2>1
  <2>2. CASE r # s
    BY <1>3, <2>2 DEF RequestsSound
  <2>3. QED
    BY <2>1, <2>2
<1>5. RequestsSound'
  BY <1>1, <1>4 DEF RequestsSound, Revoked
<1>6. QED
  BY <1>3, <1>5

LEMMA TemplateCallKeeps ==
  ASSUME CallersTyped, TemplateCall
  PROVE  templates' \in [TemplateIds -> TemplateRow]
<1> USE DEF CallersTyped
<1>1. CASE \E t \in TemplateIds, content \in Contents :
             createTemplate(t, content) \/ updateTemplate(t, content)
  BY <1>1 DEF createTemplate, updateTemplate, Active, TemplateRow
<1>2. CASE \E t \in TemplateIds : archiveTemplate(t)
  BY <1>2 DEF archiveTemplate, TemplateRow
<1>3. CASE \E batch \in Batches, missing \in BOOLEAN :
             templates' = syncTemplates(templates, batch, missing)
  <2>1. PICK batch \in Batches, missing \in BOOLEAN :
          templates' = syncTemplates(templates, batch, missing)
    BY <1>3
  <2>2. \A t \in DOMAIN batch : batch[t] \in Contents
    BY DEF Batches
  <2>3. ASSUME NEW t \in TemplateIds
        PROVE  syncTemplates(templates, batch, missing)[t] \in TemplateRow
    BY <2>2 DEF syncTemplates, Active, TemplateRow
  <2>4. QED
    BY <2>1, <2>3 DEF syncTemplates
<1>4. QED
  BY <1>1, <1>2, <1>3 DEF TemplateCall

LEMMA KeysStep == KeysIInv /\ [KeysNext]_keyVars => KeysIInv'
<1> SUFFICES ASSUME KeysIInv, [KeysNext]_keyVars PROVE KeysIInv'
  OBVIOUS
<1>1. CASE \E c \in Calls : KeyCallStep(c)
  <2>1. PICK c \in Calls : KeyCallStep(c)
    BY <1>1
  <2>2. TablesAfter /\ RowsStay /\ keyCall' \in [Calls -> CallRow] /\ CallsSound' /\ AsideFromCalls
    BY <2>1, CallStepKeeps DEF TablesAfter
  <2>3. IndexSound'
    BY <2>1, <2>2, IndexAfterCall
  <2>4. CallersTyped'
    BY <2>2 DEF KeysIInv, CallersTyped, AsideFromCalls
  <2>5. RequestsSound'
    BY <2>2 DEF KeysIInv, RequestsSound, AsideFromCalls, RowsStay, Revoked
  <2>6. QED
    BY <2>2, <2>3, <2>4, <2>5 DEF KeysIInv, TablesAfter
<1>2. CASE \E s \in Sends : KeySendStep(s)
  <2>1. PICK s \in Sends : KeySendStep(s)
    BY <1>2
  <2>2. UNCHANGED <<keys, keyEvents, keyIndex, templates, keyCall>>
    BY <2>1 DEF KeySendStep, Present, getApiKeyRecord, authenticateTransactionalKey
  <2>3. keySend' \in [Sends -> KeySendRow] /\ RequestsSound'
    BY <2>1, SendStepKeeps
  <2>4. QED
    BY <2>2, <2>3 DEF KeysIInv, KeysTypeOK, CallersTyped, CallsSound, IndexSound, TrailSound,
                      Stored, Revoked
<1>3. CASE TemplateCall
  <2>1. templates' \in [TemplateIds -> TemplateRow]
    BY <1>3, TemplateCallKeeps DEF KeysIInv
  <2>2. UNCHANGED <<keys, keyEvents, keyIndex, keyCall, keySend>>
    BY <1>3 DEF TemplateCall
  <2>3. QED
    BY <2>1, <2>2 DEF KeysIInv, KeysTypeOK, CallersTyped, CallsSound, IndexSound, TrailSound,
                      RequestsSound, Stored, Revoked
<1>4. CASE UNCHANGED keyVars
  BY <1>4 DEF keyVars, KeysIInv, KeysTypeOK, CallersTyped, CallsSound, IndexSound, TrailSound,
              RequestsSound, Stored, Revoked
<1>5. QED
  BY <1>1, <1>2, <1>3, <1>4 DEF KeysNext, KeyTableNext

LEMMA KeysImplied == KeysIInv => KeysInvariant
<1> SUFFICES ASSUME KeysIInv PROVE KeysInvariant
  OBVIOUS
<1> USE DEF KeysIInv
<1>1. RevokedNeverAdmits
  BY DEF RevokedNeverAdmits, RequestsSound
<1>2. IndexRevokesNothing
  BY DEF IndexRevokesNothing, IndexSound, CallsSound, Revoked, Projection
<1>3. SecretIsStored
  BY DEF SecretIsStored, CallsSound
<1>4. AuditAccounts
  BY DEF AuditAccounts, TrailSound, Revoked
<1>5. QED
  BY <1>1, <1>2, <1>3, <1>4 DEF KeysInvariant

(***************************************************************************)
(* KeysInvariant holds of every behaviour: a request that set out after a  *)
(* revocation is not admitted, D1 never revokes what the object has not,   *)
(* and the audit trail accounts for every row.                             *)
(***************************************************************************)
THEOREM KeysAreAccountedFor == KeysSpec => []KeysInvariant
<1>1. KeysSpec => []KeysIInv
  BY KeysStart, KeysStep, PTL DEF KeysSpec
<1>2. QED
  BY <1>1, KeysImplied, PTL


\* A sync run on what it has left changes nothing, and revives nothing.
LEMMA SyncSettles ==
  ASSUME NEW table \in [TemplateIds -> TemplateRow], NEW batch \in Batches, NEW missing \in BOOLEAN
  PROVE  LET after == syncTemplates(table, batch, missing) IN
         /\ syncTemplates(after, batch, missing) = after
         /\ \A t \in TemplateIds : table[t].status = "archived" => after[t].status = "archived"
<1> DEFINE after == syncTemplates(table, batch, missing)
           again == syncTemplates(after, batch, missing)
<1>1. ASSUME NEW t \in TemplateIds
      PROVE  /\ again[t] = after[t]
             /\ table[t].status = "archived" => after[t] = table[t]
  <2>1. table[t] \in TemplateRow
    OBVIOUS
  <2>2. CASE t \in DOMAIN batch
    BY <2>1, <2>2 DEF syncTemplates, Active, IsActive, TemplateRow
  <2>3. CASE t \notin DOMAIN batch
    BY <2>1, <2>3 DEF syncTemplates, Active, IsActive, TemplateRow
  <2>4. QED
    BY <2>2, <2>3
<1>2. /\ after = [t \in TemplateIds |-> after[t]]
      /\ again = [t \in TemplateIds |-> again[t]]
  BY DEF syncTemplates
<1> HIDE DEF after, again
<1>3. again = after
  BY <1>1, <1>2
<1>4. QED
  BY <1>1, <1>3 DEF after, again

(***************************************************************************)
(* Revoked and archived are final in every behaviour, and a template sync  *)
(* is idempotent.                                                          *)
(***************************************************************************)
THEOREM NothingRetiredComesBack == KeysSpec => RetiredStaysRetired
<1>1. KeysSpec => []KeysIInv
  BY KeysStart, KeysStep, PTL DEF KeysSpec
<1> DEFINE Act ==
     /\ \A k \in Stored : (keys[k].status = "revoked") => (keys'[k].status = "revoked")
     /\ \A t \in TemplateIds : (templates[t].status = "archived") => (templates'[t].status = "archived")
     /\ (templates' # templates) =>
          \A batch \in Batches, missing \in BOOLEAN :
            (templates' = syncTemplates(templates, batch, missing))
            => (templates' = syncTemplates(templates', batch, missing))
<1>2. ASSUME KeysIInv, KeysNext PROVE Act
  <2>1. templates \in [TemplateIds -> TemplateRow]
    BY <1>2 DEF KeysIInv, CallersTyped
  <2>2. \A k \in Stored : keys[k].status = "revoked" => keys'[k].status = "revoked"
    <3>1. CASE \E c \in Calls : KeyCallStep(c)
      BY <1>2, <3>1, CallStepKeeps DEF TablesAfter, RowsStay
    <3>2. CASE (\E s \in Sends : KeySendStep(s)) \/ TemplateCall
      BY <3>2 DEF KeySendStep, Present, getApiKeyRecord, authenticateTransactionalKey, TemplateCall
    <3>3. QED
      BY <1>2, <3>1, <3>2 DEF KeysNext, KeyTableNext
  <2>3. ASSUME NEW t \in TemplateIds, templates[t].status = "archived"
        PROVE  templates'[t].status = "archived"
    <3>1. CASE \E r \in TemplateIds, content \in Contents :
                 createTemplate(r, content) \/ updateTemplate(r, content)
      <4>1. PICK r \in TemplateIds, content \in Contents :
              createTemplate(r, content) \/ updateTemplate(r, content)
        BY <3>1
      <4>2. templates[t] \in TemplateRow /\ templates[r] \in TemplateRow
        BY <2>1
      <4>3. CASE createTemplate(r, content)
        BY <2>1, <2>3, <4>2, <4>3 DEF createTemplate
      <4>4. CASE updateTemplate(r, content)
        BY <2>1, <2>3, <4>2, <4>4 DEF updateTemplate, TemplateRow
      <4>5. QED
        BY <4>1, <4>3, <4>4
    <3>2. CASE \E r \in TemplateIds : archiveTemplate(r)
      BY <2>1, <2>3, <3>2 DEF archiveTemplate, TemplateRow
    <3>3. CASE \E batch \in Batches, missing \in BOOLEAN :
                 templates' = syncTemplates(templates, batch, missing)
      BY <2>1, <2>3, <3>3, SyncSettles
    <3>4. CASE templates' = templates
      BY <2>3, <3>4
    <3>5. TemplateCall \/ templates' = templates
      <4>1. ASSUME NEW c \in Calls, KeyCallStep(c) PROVE templates' = templates
        BY <1>2, <4>1, CallStepKeeps DEF AsideFromCalls
      <4>2. ASSUME NEW s \in Sends, KeySendStep(s) PROVE templates' = templates
        BY <4>2 DEF KeySendStep, Present, getApiKeyRecord, authenticateTransactionalKey
      <4>3. QED
        BY <1>2, <4>1, <4>2 DEF KeysNext, KeyTableNext
    <3>6. QED
      BY <3>1, <3>2, <3>3, <3>4, <3>5 DEF TemplateCall
  <2>4. ASSUME NEW batch \in Batches, NEW missing \in BOOLEAN,
               templates' = syncTemplates(templates, batch, missing)
        PROVE  templates' = syncTemplates(templates', batch, missing)
    BY <2>1, <2>4, SyncSettles
  <2>5. QED
    BY <2>2, <2>3, <2>4
<1>3. KeysIInv /\ [KeysNext]_keyVars => [Act]_keyVars
  BY <1>2
<1>4. QED
  BY <1>1, <1>3, PTL DEF KeysSpec, RetiredStaysRetired


--------------------------------------------------------------------------------
(* Routing: the strengthening.                                             *)

EditRow == [at : {"new", "insertMailbox", "getAlias", "enable", "getDomain", "insertAliasIfMissing",
                  "insertAlias", "insertRule", "updateRule", "answered"},
            for : Owner, key : Owner \union Rules, patch : Rule \union Patches,
            reason : {"none", "routes_elsewhere", "reachable", "domain_not_active", "created",
                      "conflict", "not_found", "updated"}]
MailRow == [at : {"coming", "lookupActiveAlias", "getDomainByName", "listRoutingRules",
                  "aliasMailbox", "routed"},
            rcpt : Owner, claim : Owner, todo : {{}}, box : Owner,
            out : {"none", "store", "forward", "reject"}]

\* What an edit is about to write names mailboxes that exist: none is ever
\* taken out of the table.
EditSound(e) ==
  /\ edit[e].at \in {"insertMailbox", "getAlias", "enable", "getDomain", "insertAliasIfMissing",
                     "insertAlias"}
       => edit[e].for \in Addresses /\ edit[e].key \in Addresses
  /\ edit[e].at \in {"getAlias", "enable", "getDomain", "insertAliasIfMissing", "insertAlias"}
       => Exists(edit[e].for)
  /\ edit[e].at = "insertRule" =>
       /\ edit[e].key \in Rules /\ edit[e].patch \in Rule
       /\ edit[e].patch.to # Nobody => Exists(edit[e].patch.to)
  /\ edit[e].at = "updateRule" =>
       /\ edit[e].key \in Rules /\ edit[e].patch \in Patches
       /\ "to" \in DOMAIN edit[e].patch /\ edit[e].patch.to # Nobody => Exists(edit[e].patch.to)

\* A mail whose alias and domain stood still was answered from that alias.
SteadySound(d) ==
  /\ mail[d].at # "coming"
  /\ mail[d].claim = Claimed(mail[d].rcpt)
  /\ mail[d].claim # Nobody =>
       /\ mail[d].at \in {"lookupActiveAlias", "aliasMailbox", "routed"}
       /\ mail[d].at = "aliasMailbox" => mail[d].box = mail[d].claim
       /\ mail[d].at = "routed" =>
            \/ mail[d].out = "reject"
            \/ mail[d].out = "store" /\ mail[d].box = mail[d].claim

RoutingIInv ==
  /\ RoutingTypeOK
  /\ edit \in [Editors -> EditRow] /\ mail \in [Deliveries -> MailRow]
  /\ \A e \in Editors : EditSound(e)
  /\ \A d \in Deliveries : mail[d].at # "coming" => mail[d].rcpt \in Addresses
  /\ steady \subseteq Deliveries /\ \A d \in steady : SteadySound(d)
  /\ \A p \in shut : mailboxes[p[2]] = "disabled"
  /\ DisabledTakesNone


LEMMA RoutingStart == RoutingInit => RoutingIInv
<1> SUFFICES ASSUME RoutingInit PROVE RoutingIInv
  OBVIOUS
<1> USE DEF RoutingInit
<1>1. rules \in [Rules -> Rule]
  <2>1. NoRule \in Rule /\ [action |-> "forward", to |-> Nobody, enabled |-> TRUE] \in Rule
    BY DEF NoRule, Rule, Owner
  <2>2. \A m \in Addresses : Stores(m) \in Rule
    BY DEF Stores, Rule, Owner
  <2> HIDE DEF RoutingInit
  <2>3. {NoRule, [action |-> "forward", to |-> Nobody, enabled |-> TRUE]}
            \union {Stores(m) : m \in Addresses} \subseteq Rule
    BY <2>1, <2>2
  <2>4. QED
    BY <2>3 DEF RoutingInit
<1>2. RoutingTypeOK
  BY <1>1 DEF RoutingTypeOK
<1>3. NoEdit \in EditRow /\ NoEdit.at = "new"
  BY DEF NoEdit, EditRow, Owner, NoRule, Rule
<1>4. NoMail \in MailRow /\ NoMail.at = "coming"
  BY DEF NoMail, MailRow, Owner
<1>5. \A e \in Editors : EditSound(e)
  BY <1>3 DEF EditSound
<1>6. DisabledTakesNone
  BY <1>4 DEF DisabledTakesNone
<1>7. QED
  BY <1>2, <1>3, <1>4, <1>5, <1>6 DEF RoutingIInv

--------------------------------------------------------------------------------
(* The registry under its editors.                                         *)

\* What every step does to the registry: no mailbox goes, and an address keeps
\* the mailbox its alias names until the alias is deleted.
RegistryAfter ==
  /\ RoutingTypeOK'
  /\ \A m : Exists(m) => Exists(m)'
  /\ \A a \in Addresses : aliases[a].to # Nobody => aliases'[a].to \in {aliases[a].to, Nobody}

LEMMA RegistryMoves ==
  ASSUME RoutingTypeOK,
         mailboxes' \in [Addresses -> RowStatus],
         \A m \in Addresses : mailboxes[m] # "absent" => mailboxes'[m] # "absent",
         aliases' \in [Addresses -> Alias],
         \A a \in Addresses :
            \/ aliases'[a].to \in {aliases[a].to, Nobody}
            \/ aliases[a].to = Nobody /\ Exists(aliases'[a].to),
         rules' \in [Rules -> Rule],
         \A r \in Rules : rules'[r].to \in {rules[r].to, Nobody} \/ Exists(rules'[r].to)
  PROVE  RegistryAfter
<1>1. \A m : Exists(m) => Exists(m)'
  BY DEF Exists
<1>2. ASSUME NEW a \in Addresses, aliases'[a].to # Nobody PROVE Exists(aliases'[a].to)
  BY <1>2 DEF RoutingTypeOK
<1>3. ASSUME NEW r \in Rules, rules'[r].to # Nobody PROVE Exists(rules'[r].to)
  BY <1>3 DEF RoutingTypeOK
<1>4. /\ \A a \in Addresses : aliases'[a].to # Nobody => Exists(aliases'[a].to)
      /\ \A r \in Rules : rules'[r].to # Nobody => Exists(rules'[r].to)
  BY <1>2, <1>3
<1>5. RoutingTypeOK'
  BY <1>1, <1>4 DEF RoutingTypeOK, Exists
<1>6. QED
  BY <1>1, <1>5 DEF RegistryAfter

LEMMA RegistryStays ==
  ASSUME RoutingTypeOK, UNCHANGED <<mailboxes, aliases, rules>>
  PROVE  RegistryAfter
BY RegistryMoves DEF RoutingTypeOK

LEMMA PatchedTyped ==
  ASSUME NEW rule \in Rule, rule # NoRule, NEW p \in Patches
  PROVE  /\ Patched(rule, p) \in Rule
         /\ Patched(rule, p).to = IF "to" \in DOMAIN p THEN p.to ELSE rule.to
<1> DEFINE R == [action : {"store", "forward", "reject"}, to : Owner, enabled : BOOLEAN]
<1>1. rule \in R /\ R \subseteq Rule /\ DOMAIN rule = {"action", "to", "enabled"}
  BY DEF Rule, NoRule
<1>2. CASE p \in [action : {"store", "forward", "reject"}]
  <2>1. DOMAIN p = {"action"} /\ p.action \in {"store", "forward", "reject"}
    BY <1>2
  <2>2. Patched(rule, p) = [action |-> p.action, to |-> rule.to, enabled |-> rule.enabled]
    BY <1>1, <2>1 DEF Patched
  <2>3. QED
    BY <1>1, <2>1, <2>2
<1>3. CASE p \in [to : Owner]
  <2>1. DOMAIN p = {"to"} /\ p.to \in Owner
    BY <1>3
  <2>2. Patched(rule, p) = [action |-> rule.action, to |-> p.to, enabled |-> rule.enabled]
    BY <1>1, <2>1 DEF Patched
  <2>3. QED
    BY <1>1, <2>1, <2>2
<1>4. CASE p \in [enabled : BOOLEAN]
  <2>1. DOMAIN p = {"enabled"} /\ p.enabled \in BOOLEAN
    BY <1>4
  <2>2. Patched(rule, p) = [action |-> rule.action, to |-> rule.to, enabled |-> p.enabled]
    BY <1>1, <2>1 DEF Patched
  <2>3. QED
    BY <1>1, <2>1, <2>2
<1>5. QED
  BY <1>2, <1>3, <1>4 DEF Patches

LEMMA OneStatementKeeps ==
  ASSUME RoutingTypeOK,
         updateMailbox \/ updateDomain \/ updateAlias \/ deleteAlias \/ deleteRoutingRule
  PROVE  RegistryAfter /\ edit' = edit /\ mail' = mail
<1>1. edit' = edit /\ mail' = mail
  BY DEF updateMailbox, updateDomain, updateAlias, deleteAlias, deleteRoutingRule, OneStatement
<1>2. CASE updateMailbox
  <2>1. PICK m \in Addresses, s \in {"active", "disabled"} : mailboxes' = [mailboxes EXCEPT ![m] = s]
    BY <1>2 DEF updateMailbox
  <2>2. UNCHANGED <<aliases, rules>> /\ mailboxes' \in [Addresses -> RowStatus]
    BY <1>2, <2>1 DEF updateMailbox, RoutingTypeOK, RowStatus
  <2>3. QED
    BY <2>1, <2>2, <1>1, RegistryMoves DEF RoutingTypeOK
<1>3. CASE updateDomain
  BY <1>1, <1>3, RegistryStays DEF updateDomain
<1>4. CASE updateAlias
  <2>1. PICK a \in Addresses, s \in {"active", "disabled"} :
          aliases[a] # NoAlias /\ aliases' = [aliases EXCEPT ![a].status = s]
    BY <1>4 DEF updateAlias
  <2>2. mailboxes' = mailboxes /\ rules' = rules
    BY <1>4 DEF updateAlias
  <2> DEFINE row == [aliases[a] EXCEPT !.status = s]
  <2>3. row \in Alias /\ row.to = aliases[a].to /\ aliases' = [aliases EXCEPT ![a] = row]
    BY <2>1 DEF RoutingTypeOK, Alias, NoAlias
  <2> HIDE DEF row
  <2>4. QED
    BY <2>2, <2>3, <1>1, RegistryMoves DEF RoutingTypeOK
<1>5. CASE deleteAlias
  <2>1. PICK a \in Addresses : aliases' = [aliases EXCEPT ![a] = NoAlias]
    BY <1>5 DEF deleteAlias
  <2>2. mailboxes' = mailboxes /\ rules' = rules /\ NoAlias \in Alias /\ NoAlias.to = Nobody
    BY <1>5 DEF deleteAlias, NoAlias, Alias
  <2>3. QED
    BY <2>1, <2>2, <1>1, RegistryMoves DEF RoutingTypeOK
<1>6. CASE deleteRoutingRule
  <2>1. PICK r \in Rules : rules' = [rules EXCEPT ![r] = NoRule]
    BY <1>6 DEF deleteRoutingRule
  <2>2. mailboxes' = mailboxes /\ aliases' = aliases /\ NoRule \in Rule /\ NoRule.to = Nobody
    BY <1>6 DEF deleteRoutingRule, NoRule, Rule
  <2>3. QED
    BY <2>1, <2>2, <1>1, RegistryMoves DEF RoutingTypeOK
<1>7. QED
  BY <1>2, <1>3, <1>4, <1>5, <1>6

\* An address without an alias is given one, to a mailbox that exists.
LEMMA AliasGiven ==
  ASSUME RoutingTypeOK, NEW a \in Addresses, NEW m \in Addresses, Exists(m),
         aliases' = [aliases EXCEPT ![a] = IF @ = NoAlias THEN [to |-> m, status |-> "active"] ELSE @],
         UNCHANGED <<mailboxes, domain, rules>>
  PROVE  RegistryAfter
<1> DEFINE new == [to |-> m, status |-> "active"]
<1>1. new \in Alias /\ new.to = m /\ NoAlias.to = Nobody
  BY DEF Alias, NoAlias
<1>2. aliases' = [aliases EXCEPT ![a] = IF aliases[a] = NoAlias THEN new ELSE aliases[a]]
  OBVIOUS
<1> HIDE DEF new
<1>3. QED
  BY <1>1, <1>2, RegistryMoves DEF RoutingTypeOK, Exists


--------------------------------------------------------------------------------
(* The edits of several statements.                                        *)

EditsAfter == edit' \in [Editors -> EditRow] /\ \A e \in Editors : EditSound(e)'

\* One edit moves; what the others read still holds.
LEMMA EditMoves ==
  ASSUME RoutingIInv, RegistryAfter, NEW e \in Editors, NEW f \in EditRow,
         edit' = [edit EXCEPT ![e] = f], edit'[e] = f => EditSound(e)'
  PROVE  EditsAfter
<1>1. /\ edit' \in [Editors -> EditRow] /\ edit'[e] = f
      /\ \A x \in Editors : x # e => edit'[x] = edit[x]
  BY DEF RoutingIInv
<1>2. ASSUME NEW x \in Editors, x # e PROVE EditSound(x)'
  BY <1>1, <1>2 DEF RoutingIInv, EditSound, RegistryAfter
<1>3. QED
  BY <1>1, <1>2 DEF EditsAfter

LEMMA EditsStay ==
  ASSUME RoutingIInv, RegistryAfter, edit' = edit
  PROVE  EditsAfter
BY DEF RoutingIInv, RegistryAfter, EditsAfter, EditSound

\* One edit is answered.
LEMMA EditEnds ==
  ASSUME RoutingIInv, RegistryAfter, NEW e \in Editors, NEW reason, Ends(e, reason),
         reason \in {"none", "routes_elsewhere", "reachable", "domain_not_active", "created",
                     "conflict", "not_found", "updated"}
  PROVE  EditsAfter /\ mail' = mail
<1> DEFINE f == [edit[e] EXCEPT !.at = "answered", !.reason = reason]
<1>1. f \in EditRow /\ f.at = "answered"
  BY DEF RoutingIInv, EditRow
<1>2. edit' = [edit EXCEPT ![e] = f] /\ mail' = mail
  BY DEF Ends, Moves
<1> HIDE DEF f
<1>3. edit'[e] = f => EditSound(e)'
  BY <1>1 DEF EditSound
<1>4. QED
  BY <1>1, <1>2, <1>3, EditMoves

\* One edit goes on with what it is about.
LEMMA EditGoesOn ==
  ASSUME RoutingIInv, RegistryAfter, NEW e \in Editors, NEW at,
         at \in {"getAlias", "enable", "getDomain", "insertAliasIfMissing"},
         edit[e].for \in Addresses, edit[e].key \in Addresses,
         mailboxes'[edit[e].for] # "absent",
         edit' = [edit EXCEPT ![e] = [edit[e] EXCEPT !.at = at]]
  PROVE  EditsAfter
<1> DEFINE f == [edit[e] EXCEPT !.at = at]
<1>1. f \in EditRow /\ f.at = at /\ f.for = edit[e].for /\ f.key = edit[e].key
  BY DEF RoutingIInv, EditRow
<1>2. edit' = [edit EXCEPT ![e] = f]
  OBVIOUS
<1> HIDE DEF f
<1>3. edit'[e] = f => EditSound(e)'
  BY <1>1 DEF EditSound, Exists
<1>4. QED
  BY <1>1, <1>2, <1>3, EditMoves


LEMMA CreateMailboxKeeps ==
  ASSUME RoutingIInv, NEW e \in Editors, createMailbox(e)
  PROVE  RegistryAfter /\ EditsAfter /\ mail' = mail
<1> USE DEF RoutingIInv
<1>1. CASE edit[e].at = "new"
  <2>1. RegistryAfter /\ mail' = mail
    BY <1>1, RegistryStays DEF createMailbox, registry, Moves
  <2>2. PICK m \in Addresses :
          edit' = [edit EXCEPT ![e] =
            [NoEdit EXCEPT !.at = IF Exists(m) THEN "getAlias" ELSE "insertMailbox",
                           !.for = m, !.key = m]]
    BY <1>1 DEF createMailbox, Moves
  <2> DEFINE f == [NoEdit EXCEPT !.at = IF Exists(m) THEN "getAlias" ELSE "insertMailbox",
                                 !.for = m, !.key = m]
  <2>3. NoEdit \in EditRow
    BY DEF NoEdit, EditRow, Owner, NoRule, Rule
  <2>4. /\ f \in EditRow /\ f.for = m /\ f.key = m
        /\ f.at = IF Exists(m) THEN "getAlias" ELSE "insertMailbox"
    BY <2>3 DEF EditRow, Owner
  <2>5. edit' = [edit EXCEPT ![e] = f]
    BY <2>2
  <2> HIDE DEF f
  <2>6. Exists(m) => Exists(m)'
    BY <2>1 DEF RegistryAfter
  <2>7. edit'[e] = f => EditSound(e)'
    BY <2>4, <2>6 DEF EditSound
  <2>8. QED
    BY <2>1, <2>4, <2>5, <2>7, EditMoves
<1>2. CASE edit[e].at # "new"
  <2>1. PICK m \in Addresses : m = edit[e].for
    BY <1>2 DEF createMailbox, EditSound
  <2>2. /\ mailboxes' = [mailboxes EXCEPT ![m] = IF @ = "absent" THEN "active" ELSE @]
        /\ UNCHANGED <<domain, aliases, rules>> /\ edit[e].key \in Addresses
        /\ edit' = [edit EXCEPT ![e] = [edit[e] EXCEPT !.at = "getAlias"]] /\ mail' = mail
    BY <1>2, <2>1 DEF createMailbox, EditSound, Moves
  <2>3. /\ mailboxes' \in [Addresses -> RowStatus] /\ mailboxes'[m] # "absent"
        /\ \A x \in Addresses : mailboxes[x] # "absent" => mailboxes'[x] # "absent"
    BY <2>2 DEF RoutingTypeOK, RowStatus
  <2>4. RegistryAfter
    BY <2>2, <2>3, RegistryMoves DEF RoutingTypeOK
  <2>5. QED
    BY <2>1, <2>2, <2>3, <2>4, EditGoesOn
<1>3. QED
  BY <1>1, <1>2

LEMMA PrimaryAliasKeeps ==
  ASSUME RoutingIInv, NEW e \in Editors, ensurePrimaryAlias(e)
  PROVE  RegistryAfter /\ EditsAfter /\ mail' = mail
<1> USE DEF RoutingIInv
<1>1. /\ edit[e].at \in {"getAlias", "enable", "getDomain"}
      /\ edit[e].for \in Addresses /\ edit[e].key \in Addresses /\ Exists(edit[e].for)
  BY DEF ensurePrimaryAlias, EditSound
<1>2. CASE edit[e].at \in {"getAlias", "getDomain"}
  <2>1. UNCHANGED registry
    BY <1>2 DEF ensurePrimaryAlias
  <2>2. RegistryAfter /\ mailboxes'[edit[e].for] # "absent"
    BY <1>1, <2>1, RegistryStays DEF registry, Exists
  <2>3. CASE \E reason \in {"routes_elsewhere", "reachable", "domain_not_active"} : Ends(e, reason)
    BY <2>2, <2>3, EditEnds
  <2>4. CASE \E at \in {"enable", "getDomain", "insertAliasIfMissing"} :
               Moves(e, [edit[e] EXCEPT !.at = at])
    BY <1>1, <2>2, <2>4, EditGoesOn DEF Moves
  <2>5. QED
    BY <1>2, <2>3, <2>4 DEF ensurePrimaryAlias
<1>3. CASE edit[e].at = "enable"
  <2>1. PICK a \in Addresses : a = edit[e].key
    BY <1>1
  <2>2. /\ aliases' = [aliases EXCEPT ![a] = IF @ = NoAlias THEN @ ELSE [@ EXCEPT !.status = "active"]]
        /\ Ends(e, "reachable") /\ UNCHANGED <<mailboxes, domain, rules>>
    BY <1>3, <2>1 DEF ensurePrimaryAlias
  <2> DEFINE row == IF aliases[a] = NoAlias THEN aliases[a] ELSE [aliases[a] EXCEPT !.status = "active"]
  <2>3. row \in Alias /\ row.to = aliases[a].to /\ aliases' = [aliases EXCEPT ![a] = row]
    BY <2>2 DEF RoutingTypeOK, Alias, NoAlias
  <2> HIDE DEF row
  <2>4. RegistryAfter
    BY <2>2, <2>3, RegistryMoves DEF RoutingTypeOK
  <2>5. QED
    BY <2>2, <2>4, EditEnds
<1>4. QED
  BY <1>1, <1>2, <1>3

LEMMA InsertAliasKeeps ==
  ASSUME RoutingIInv, NEW e \in Editors, insertAliasIfMissing(e) \/ insertAlias(e)
  PROVE  RegistryAfter /\ EditsAfter /\ mail' = mail
<1> USE DEF RoutingIInv
<1>1. CASE edit[e].at \in {"insertAliasIfMissing", "insertAlias"}
  <2>1. PICK a \in Addresses, m \in Addresses : a = edit[e].key /\ m = edit[e].for /\ Exists(m)
    BY <1>1 DEF EditSound
  <2>2. /\ aliases' = [aliases EXCEPT ![a] = IF @ = NoAlias THEN [to |-> m, status |-> "active"] ELSE @]
        /\ UNCHANGED <<mailboxes, domain, rules>>
        /\ \E reason \in {"reachable", "created", "conflict"} : Ends(e, reason)
    BY <1>1, <2>1 DEF insertAliasIfMissing, insertAlias
  <2>3. RegistryAfter
    BY <2>1, <2>2, AliasGiven
  <2>4. QED
    BY <2>2, <2>3, EditEnds
<1>2. CASE edit[e].at \notin {"insertAliasIfMissing", "insertAlias"}
  <2>1. PICK a \in Addresses, m \in Addresses :
          /\ Exists(m) /\ UNCHANGED registry
          /\ edit' = [edit EXCEPT ![e] = [NoEdit EXCEPT !.at = "insertAlias", !.for = m, !.key = a]]
          /\ mail' = mail
    BY <1>2 DEF insertAliasIfMissing, insertAlias, Moves
  <2>2. RegistryAfter /\ Exists(m)'
    BY <2>1, RegistryStays DEF registry, Exists
  <2> DEFINE f == [NoEdit EXCEPT !.at = "insertAlias", !.for = m, !.key = a]
  <2>3. NoEdit \in EditRow
    BY DEF NoEdit, EditRow, Owner, NoRule, Rule
  <2>4. f \in EditRow /\ f.for = m /\ f.key = a /\ f.at = "insertAlias"
    BY <2>3 DEF EditRow, Owner
  <2>5. edit' = [edit EXCEPT ![e] = f]
    BY <2>1
  <2> HIDE DEF f
  <2>6. edit'[e] = f => EditSound(e)'
    BY <2>2, <2>4 DEF EditSound
  <2>7. QED
    BY <2>1, <2>2, <2>4, <2>5, <2>6, EditMoves
<1>3. QED
  BY <1>1, <1>2


LEMMA InsertRuleKeeps ==
  ASSUME RoutingIInv, NEW e \in Editors, insertRoutingRule(e)
  PROVE  RegistryAfter /\ EditsAfter /\ mail' = mail
<1> USE DEF RoutingIInv
<1>1. CASE edit[e].at = "insertRule"
  <2>1. PICK r \in Rules, rule \in Rule :
          /\ r = edit[e].key /\ rule = edit[e].patch
          /\ rule.to # Nobody => Exists(rule.to)
    BY <1>1 DEF EditSound
  <2>2. /\ rules' = [rules EXCEPT ![r] = IF @ = NoRule THEN rule ELSE @]
        /\ UNCHANGED <<mailboxes, domain, aliases>> /\ Ends(e, "created")
    BY <1>1, <2>1 DEF insertRoutingRule
  <2>3. /\ rules' \in [Rules -> Rule]
        /\ \A q \in Rules : rules'[q].to \in {rules[q].to, Nobody} \/ Exists(rules'[q].to)
    BY <2>1, <2>2 DEF RoutingTypeOK
  <2>4. RegistryAfter
    BY <2>2, <2>3, RegistryMoves DEF RoutingTypeOK
  <2>5. QED
    BY <2>2, <2>4, EditEnds
<1>2. CASE edit[e].at # "insertRule"
  <2>1. PICK r \in Rules, rule \in Rule :
          /\ rule.to # Nobody => Exists(rule.to)
          /\ edit' = [edit EXCEPT ![e] = [NoEdit EXCEPT !.at = "insertRule", !.key = r, !.patch = rule]]
          /\ mail' = mail /\ UNCHANGED registry
    BY <1>2 DEF insertRoutingRule, Moves
  <2>2. RegistryAfter
    BY <2>1, RegistryStays DEF registry
  <2> DEFINE f == [NoEdit EXCEPT !.at = "insertRule", !.key = r, !.patch = rule]
  <2>3. NoEdit \in EditRow
    BY DEF NoEdit, EditRow, Owner, NoRule, Rule
  <2>4. f \in EditRow /\ f.key = r /\ f.patch = rule /\ f.at = "insertRule"
    BY <2>3 DEF EditRow
  <2>5. edit' = [edit EXCEPT ![e] = f]
    BY <2>1
  <2> HIDE DEF f
  <2>6. rule.to # Nobody => Exists(rule.to)'
    BY <2>1, <2>2 DEF RegistryAfter
  <2>7. edit'[e] = f => EditSound(e)'
    BY <2>4, <2>6 DEF EditSound
  <2>8. QED
    BY <2>1, <2>2, <2>4, <2>5, <2>7, EditMoves
<1>3. QED
  BY <1>1, <1>2

LEMMA UpdateRuleKeeps ==
  ASSUME RoutingIInv, NEW e \in Editors, updateRoutingRule(e)
  PROVE  RegistryAfter /\ EditsAfter /\ mail' = mail
<1> USE DEF RoutingIInv
<1>1. CASE edit[e].at = "updateRule"
  <2>1. PICK r \in Rules, p \in Patches :
          /\ r = edit[e].key /\ p = edit[e].patch
          /\ "to" \in DOMAIN p /\ p.to # Nobody => Exists(p.to)
    BY <1>1 DEF EditSound
  <2>2. /\ rules' = [rules EXCEPT ![r] = IF @ = NoRule THEN @ ELSE Patched(@, p)]
        /\ UNCHANGED <<mailboxes, domain, aliases>>
        /\ \E reason \in {"not_found", "updated"} : Ends(e, reason)
    BY <1>1, <2>1 DEF updateRoutingRule
  <2> DEFINE new == IF rules[r] = NoRule THEN rules[r] ELSE Patched(rules[r], p)
  <2>3. new \in Rule /\ (new.to \in {rules[r].to, Nobody} \/ Exists(new.to))
    <3>1. rules[r] \in Rule
      BY DEF RoutingTypeOK
    <3>2. CASE rules[r] = NoRule
      BY <3>1, <3>2
    <3>3. CASE rules[r] # NoRule
      <4>1. /\ Patched(rules[r], p) \in Rule
            /\ Patched(rules[r], p).to = IF "to" \in DOMAIN p THEN p.to ELSE rules[r].to
        BY <3>1, <3>3, PatchedTyped
      <4>2. QED
        BY <2>1, <3>3, <4>1
    <3>4. QED
      BY <3>2, <3>3
  <2>4. rules' = [rules EXCEPT ![r] = new]
    BY <2>2
  <2> HIDE DEF new
  <2>5. /\ rules' \in [Rules -> Rule]
        /\ \A q \in Rules : rules'[q].to \in {rules[q].to, Nobody} \/ Exists(rules'[q].to)
    BY <2>3, <2>4 DEF RoutingTypeOK
  <2>6. RegistryAfter
    BY <2>2, <2>5, RegistryMoves DEF RoutingTypeOK
  <2>7. QED
    BY <2>2, <2>6, EditEnds
<1>2. CASE edit[e].at # "updateRule"
  <2>1. PICK r \in Rules, p \in Patches :
          /\ ("to" \in DOMAIN p /\ p # [to |-> Nobody]) => Exists(p.to)
          /\ edit' = [edit EXCEPT ![e] = [NoEdit EXCEPT !.at = "updateRule", !.key = r, !.patch = p]]
          /\ mail' = mail /\ UNCHANGED registry
    BY <1>2 DEF updateRoutingRule, Moves
  <2>2. RegistryAfter
    BY <2>1, RegistryStays DEF registry
  <2> DEFINE f == [NoEdit EXCEPT !.at = "updateRule", !.key = r, !.patch = p]
  <2>3. NoEdit \in EditRow
    BY DEF NoEdit, EditRow, Owner, NoRule, Rule
  <2>4. f \in EditRow /\ f.key = r /\ f.patch = p /\ f.at = "updateRule"
    BY <2>3 DEF EditRow
  <2>5. edit' = [edit EXCEPT ![e] = f]
    BY <2>1
  <2> HIDE DEF f
  <2>6. "to" \in DOMAIN p /\ p.to # Nobody => Exists(p.to)
    <3>1. p = [to |-> Nobody] => p.to = Nobody
      OBVIOUS
    <3>2. QED
      BY <2>1, <3>1
  <2>7. "to" \in DOMAIN p /\ p.to # Nobody => Exists(p.to)'
    BY <2>2, <2>6 DEF RegistryAfter
  <2>8. edit'[e] = f => EditSound(e)'
    BY <2>4, <2>7 DEF EditSound
  <2>9. QED
    BY <2>1, <2>2, <2>4, <2>5, <2>8, EditMoves
<1>3. QED
  BY <1>1, <1>2

LEMMA EditStepKeeps ==
  ASSUME RoutingIInv, NEW e \in Editors, EditStep(e)
  PROVE  RegistryAfter /\ EditsAfter /\ mail' = mail
BY CreateMailboxKeeps, PrimaryAliasKeeps, InsertAliasKeeps, InsertRuleKeeps, UpdateRuleKeeps
   DEF EditStep


--------------------------------------------------------------------------------
(* The resolution.                                                         *)

\* Among rules that decide there is a first.
LEMMA SomeRuleIsFirst ==
  ASSUME NEW Q \in SUBSET Rules, Q # {}
  PROVE  First(Q) \in Q
<1>1. Q \subseteq Nat
  BY RoutingAssumption
<1>2. PICK r \in Q : \A q \in Q : <<q, r>> \notin OpToRel(<, Nat)
  BY <1>1, NatLessThanWellFounded, WFMin
<1>3. \A q \in Q : ~(q < r)
  BY <1>1, <1>2 DEF OpToRel
<1>4. \A q \in Q : r <= q
  BY <1>1, <1>3
<1>5. QED
  BY <1>4 DEF First

\* What a rule makes of a mail.
ByRule(d, r) ==
  IF rules[r].action = "store" THEN [mail[d] EXCEPT !.at = "aliasMailbox", !.box = rules[r].to]
  ELSE Out(d, rules[r].action, Nobody)

\* The rows one step of a resolution may leave.
MailMoves(d, f) ==
  /\ f \in MailRow
  /\ f.rcpt \in Addresses
  /\ f.claim = IF mail[d].at = "coming" THEN Claimed(f.rcpt) ELSE mail[d].claim
  /\ mail[d].at # "coming" => f.rcpt = mail[d].rcpt
  /\ \/ mail[d].at = "coming" /\ f.at = "lookupActiveAlias"
     \/ mail[d].at = "lookupActiveAlias" /\ f.at = "aliasMailbox" /\ f.box = Claimed(f.rcpt)
     \/ mail[d].at = "lookupActiveAlias" /\ f.at = "getDomainByName" /\ Claimed(f.rcpt) = Nobody
     \/ mail[d].at = "aliasMailbox" /\ f.at = "routed" /\ f.out = "store"
          /\ f.box = mail[d].box /\ mailboxIsActive(f.box)
     \/ mail[d].at = "aliasMailbox" /\ f.at = "routed" /\ f.out = "reject"
     \/ mail[d].at \in {"getDomainByName", "listRoutingRules"} /\ f.at # "coming"
          /\ ~(f.at = "routed" /\ f.out = "store")

LEMMA ResolutionMoves ==
  ASSUME RoutingIInv, NEW d \in Deliveries, resolveRoutingForRecipient(d)
  PROVE  \E f : mail' = [mail EXCEPT ![d] = f] /\ MailMoves(d, f) /\ UNCHANGED <<registry, edit>>
<1> USE DEF RoutingIInv
<1>1. mail[d] \in MailRow /\ (mail[d].at # "coming" => mail[d].rcpt \in Addresses)
  OBVIOUS
<1>2. \A a \in Addresses : Claimed(a) \in Owner
  BY DEF Claimed, RoutingTypeOK, Alias, Owner
<1>3. CASE Arrive(d)
  <2>1. PICK a \in Addresses :
          /\ mail' = [mail EXCEPT ![d] =
                [NoMail EXCEPT !.at = "lookupActiveAlias", !.rcpt = a, !.claim = Claimed(a)]]
          /\ UNCHANGED <<registry, edit>>
    BY <1>3 DEF Arrive, Resolves
  <2> DEFINE f == [NoMail EXCEPT !.at = "lookupActiveAlias", !.rcpt = a, !.claim = Claimed(a)]
  <2>2. NoMail \in MailRow
    BY DEF NoMail, MailRow, Owner
  <2>3. /\ f \in MailRow /\ f.rcpt = a /\ f.claim = Claimed(a) /\ f.at = "lookupActiveAlias"
        /\ mail' = [mail EXCEPT ![d] = f]
    BY <1>2, <2>1, <2>2 DEF MailRow, Owner
  <2> HIDE DEF f
  <2>4. QED
    BY <1>3, <2>1, <2>3 DEF MailMoves, Arrive
<1>4. CASE lookupActiveAlias(d)
  <2> DEFINE m == Claimed(mail[d].rcpt)
             f == [mail[d] EXCEPT !.at = IF m = Nobody THEN "getDomainByName" ELSE "aliasMailbox",
                                  !.box = m]
  <2>1. /\ mail[d].at = "lookupActiveAlias" /\ mail' = [mail EXCEPT ![d] = f]
        /\ UNCHANGED <<registry, edit>>
    BY <1>4 DEF lookupActiveAlias, Resolves
  <2>2. m \in Owner
    BY <1>1, <1>2, <2>1
  <2> HIDE DEF m
  <2>3. /\ f \in MailRow /\ f.rcpt = mail[d].rcpt /\ f.claim = mail[d].claim /\ f.box = m
        /\ f.at = IF m = Nobody THEN "getDomainByName" ELSE "aliasMailbox"
    BY <1>1, <2>2 DEF MailRow
  <2> HIDE DEF f
  <2>4. QED
    BY <1>1, <2>1, <2>3 DEF MailMoves, m
<1>5. CASE aliasMailbox(d)
  <2>1. mail[d].at = "aliasMailbox" /\ UNCHANGED <<registry, edit>>
    BY <1>5 DEF aliasMailbox, Resolves
  <2>2. CASE mailboxIsActive(mail[d].box)
    <3> DEFINE f == Out(d, "store", mail[d].box)
    <3>1. mail' = [mail EXCEPT ![d] = f]
      BY <1>5, <2>2 DEF aliasMailbox, Resolves
    <3>2. /\ f \in MailRow /\ f.rcpt = mail[d].rcpt /\ f.claim = mail[d].claim
          /\ f.box = mail[d].box /\ f.at = "routed" /\ f.out = "store"
      BY <1>1 DEF Out, MailRow
    <3> HIDE DEF f
    <3>3. QED
      BY <1>1, <2>1, <2>2, <3>1, <3>2 DEF MailMoves
  <2>3. CASE ~mailboxIsActive(mail[d].box)
    <3> DEFINE f == Out(d, "reject", Nobody)
    <3>1. mail' = [mail EXCEPT ![d] = f]
      BY <1>5, <2>3 DEF aliasMailbox, Resolves
    <3>2. /\ f \in MailRow /\ f.rcpt = mail[d].rcpt /\ f.claim = mail[d].claim
          /\ f.at = "routed" /\ f.out = "reject"
      BY <1>1 DEF Out, MailRow, Owner
    <3> HIDE DEF f
    <3>3. QED
      BY <1>1, <2>1, <3>1, <3>2 DEF MailMoves
  <2>4. QED
    BY <2>2, <2>3
<1>6. CASE getDomainByName(d)
  <2>1. PICK f \in {[mail[d] EXCEPT !.at = "listRoutingRules"], Out(d, "reject", Nobody)} :
          /\ mail[d].at = "getDomainByName" /\ mail' = [mail EXCEPT ![d] = f]
          /\ UNCHANGED <<registry, edit>>
    BY <1>6 DEF getDomainByName, Resolves
  <2>2. /\ f \in MailRow /\ f.rcpt = mail[d].rcpt /\ f.claim = mail[d].claim
        /\ f.at = "listRoutingRules" \/ (f.at = "routed" /\ f.out = "reject")
    BY <1>1, <2>1 DEF Out, MailRow, Owner
  <2>3. QED
    BY <1>1, <2>1, <2>2 DEF MailMoves
<1>7. CASE listRoutingRules(d)
  <2>1. mail[d].at = "listRoutingRules" /\ UNCHANGED <<registry, edit>>
    BY <1>7 DEF listRoutingRules, Resolves
  <2>2. PICK f : /\ mail' = [mail EXCEPT ![d] = f]
                 /\ f = Out(d, "reject", Nobody) \/ \E r \in Rules : rules[r] # NoRule /\ f = ByRule(d, r)
    <3>1. CASE Deciding = {}
      BY <1>7, <3>1 DEF listRoutingRules, Resolves
    <3>2. CASE Deciding # {}
      <4>1. Deciding \subseteq Rules /\ First(Deciding) \in Deciding
        BY <3>2, SomeRuleIsFirst DEF Deciding
      <4>2. PICK r \in Rules : r = First(Deciding) /\ rules[r] # NoRule
        BY <4>1 DEF Deciding
      <4>3. mail' = [mail EXCEPT ![d] = ByRule(d, r)]
        BY <1>7, <3>2, <4>2 DEF listRoutingRules, Resolves, ByRule
      <4>4. QED
        BY <4>2, <4>3
    <3>3. QED
      BY <3>1, <3>2
  <2>3. /\ f \in MailRow /\ f.rcpt = mail[d].rcpt /\ f.claim = mail[d].claim
        /\ f.at = "aliasMailbox" \/ (f.at = "routed" /\ f.out # "store")
    <3>1. CASE f = Out(d, "reject", Nobody)
      BY <1>1, <3>1 DEF Out, MailRow, Owner
    <3>2. CASE f # Out(d, "reject", Nobody)
      <4>1. PICK r \in Rules : rules[r] # NoRule /\ f = ByRule(d, r)
        BY <2>2, <3>2
      <4>2. rules[r].action \in {"store", "forward", "reject"} /\ rules[r].to \in Owner
        BY <4>1 DEF RoutingTypeOK, Rule, NoRule
      <4>3. CASE rules[r].action = "store"
        BY <1>1, <4>1, <4>2, <4>3 DEF ByRule, MailRow
      <4>4. CASE rules[r].action # "store"
        BY <1>1, <4>1, <4>2, <4>4 DEF ByRule, Out, MailRow, Owner
      <4>5. QED
        BY <4>3, <4>4
    <3>3. QED
      BY <3>1, <3>2
  <2>4. QED
    BY <1>1, <2>1, <2>2, <2>3 DEF MailMoves
<1>8. QED
  BY <1>3, <1>4, <1>5, <1>6, <1>7 DEF resolveRoutingForRecipient


\* A mail whose row does not move: what stood still still stands.
LEMMA MailWaits ==
  ASSUME RoutingIInv, Watch, NEW d \in Deliveries, mail'[d] = mail[d]
  PROVE  d \in steady' => SteadySound(d)'
<1> SUFFICES ASSUME d \in steady' PROVE SteadySound(d)'
  OBVIOUS
<1>1. /\ mail[d].at # "coming" /\ d \in steady /\ domain' = domain
      /\ aliases'[mail[d].rcpt] = aliases[mail[d].rcpt]
  BY DEF Watch, Underway
<1>2. Claimed(mail[d].rcpt)' = Claimed(mail[d].rcpt)
  BY <1>1 DEF Claimed
<1>3. SteadySound(d)
  BY <1>1 DEF RoutingIInv
<1>4. QED
  BY <1>1, <1>2, <1>3 DEF SteadySound

LEMMA MailGoesOn ==
  ASSUME RoutingIInv, Watch, NEW d \in Deliveries, NEW f, MailMoves(d, f), mail'[d] = f,
         UNCHANGED registry
  PROVE  d \in steady' => SteadySound(d)'
<1> SUFFICES ASSUME d \in steady' PROVE SteadySound(d)'
  OBVIOUS
<1>1. mail[d].at = "coming" \/ d \in steady
  BY DEF Watch
<1>2. \A a : Claimed(a)' = Claimed(a)
  BY DEF Claimed, registry
<1>3. f.at # "coming"
  BY DEF MailMoves
<1>4. f.claim = Claimed(f.rcpt)
  BY <1>1 DEF MailMoves, RoutingIInv, SteadySound
<1>5. mail[d].at # "coming" => SteadySound(d) /\ f.claim = mail[d].claim /\ f.rcpt = mail[d].rcpt
  BY <1>1 DEF MailMoves, RoutingIInv
<1>6. f.claim # Nobody =>
        /\ f.at \in {"lookupActiveAlias", "aliasMailbox", "routed"}
        /\ f.at = "aliasMailbox" => f.box = f.claim
        /\ f.at = "routed" => (f.out = "reject" \/ (f.out = "store" /\ f.box = f.claim))
  BY <1>4, <1>5 DEF MailMoves, SteadySound
<1>7. QED
  BY <1>2, <1>3, <1>4, <1>6 DEF SteadySound

LEMMA RoutingStep == RoutingIInv /\ [RoutingNext]_routingVars => RoutingIInv' /\ RegistryAfter
<1> SUFFICES ASSUME RoutingIInv, [RoutingNext]_routingVars PROVE RoutingIInv' /\ RegistryAfter
  OBVIOUS
<1> USE DEF RoutingIInv
<1>1. CASE UNCHANGED routingVars
  <2>1. RegistryAfter
    BY <1>1, RegistryStays DEF routingVars
  <2>2. \A e \in Editors : EditSound(e)'
    BY <1>1, <2>1, EditsStay DEF EditsAfter, routingVars
  <2>3. \A d \in Deliveries : SteadySound(d)' = SteadySound(d)
    BY <1>1 DEF routingVars, SteadySound, Claimed
  <2>4. DisabledTakesNone'
    BY <1>1 DEF routingVars, DisabledTakesNone
  <2>5. QED
    BY <1>1, <2>1, <2>2, <2>3, <2>4 DEF RegistryAfter, routingVars
<1>2. CASE RoutingNext /\ mail' = mail
  <2>1. RegistryAfter /\ EditsAfter
    <3>1. CASE updateMailbox \/ updateDomain \/ updateAlias \/ deleteAlias \/ deleteRoutingRule
      BY <3>1, OneStatementKeeps, EditsStay
    <3>2. CASE \E e \in Editors : EditStep(e)
      BY <3>2, EditStepKeeps
    <3>3. CASE \E d \in Deliveries : resolveRoutingForRecipient(d)
      <4>1. UNCHANGED <<registry, edit>>
        BY <3>3, ResolutionMoves
      <4>2. QED
        BY <4>1, RegistryStays, EditsStay DEF registry
    <3>4. QED
      BY <1>2, <3>1, <3>2, <3>3 DEF RoutingNext
  <2>2. Watch
    BY <1>2 DEF RoutingNext
  <2>3. steady' \subseteq Deliveries /\ \A d \in steady' : SteadySound(d)'
    BY <1>2, <2>2, MailWaits DEF Watch
  <2>4. (\A p \in shut' : mailboxes'[p[2]] = "disabled") /\ DisabledTakesNone'
    BY <1>2, <2>2 DEF Watch, DisabledTakesNone, Underway
  <2>5. QED
    BY <1>2, <2>1, <2>3, <2>4 DEF RegistryAfter, EditsAfter
<1>3. CASE RoutingNext /\ mail' # mail
  <2>1. PICK d \in Deliveries : resolveRoutingForRecipient(d)
    <3>1. ~(updateMailbox \/ updateDomain \/ updateAlias \/ deleteAlias \/ deleteRoutingRule)
      BY <1>3, OneStatementKeeps
    <3>2. \A e \in Editors : ~EditStep(e)
      BY <1>3, EditStepKeeps
    <3>3. QED
      BY <1>3, <3>1, <3>2 DEF RoutingNext
  <2>2. PICK f : mail' = [mail EXCEPT ![d] = f] /\ MailMoves(d, f) /\ UNCHANGED <<registry, edit>>
    BY <2>1, ResolutionMoves
  <2>3. /\ mail' \in [Deliveries -> MailRow] /\ mail'[d] = f
        /\ \A x \in Deliveries : x # d => mail'[x] = mail[x]
    BY <2>2 DEF MailMoves
  <2>4. Watch
    BY <1>3 DEF RoutingNext
  <2>5. RegistryAfter /\ EditsAfter
    BY <2>2, RegistryStays, EditsStay DEF registry
  <2>6. \A x \in Deliveries : mail'[x].at # "coming" => mail'[x].rcpt \in Addresses
    BY <2>2, <2>3 DEF MailMoves
  <2>7. \A x \in Deliveries : x \in steady' => SteadySound(x)'
    BY <2>2, <2>3, <2>4, MailWaits, MailGoesOn
  <2>8. steady' \subseteq Deliveries /\ \A p \in shut' : mailboxes'[p[2]] = "disabled"
    BY <2>4 DEF Watch
  <2>9. ASSUME NEW x \in Deliveries, mail'[x].at = "routed", mail'[x].out = "store"
        PROVE  <<x, mail'[x].box>> \notin shut'
    <3> SUFFICES ASSUME <<x, mail'[x].box>> \in shut' PROVE FALSE
      OBVIOUS
    <3>1. mail[x].at = "coming" \/ <<x, mail'[x].box>> \in shut
      BY <2>4 DEF Watch
    <3>2. CASE x # d
      BY <2>3, <2>9, <3>1, <3>2 DEF DisabledTakesNone
    <3>3. CASE x = d
      <4>1. mail[d].at # "coming" /\ (mail[d].at = "aliasMailbox" => mailboxIsActive(f.box))
        BY <2>2, <2>3, <2>9, <3>3 DEF MailMoves
      <4>2. mail[d].at = "aliasMailbox"
        BY <2>2, <2>3, <2>9, <3>3 DEF MailMoves
      <4>3. QED
        BY <2>3, <3>1, <3>3, <4>1, <4>2 DEF mailboxIsActive
    <3>4. QED
      BY <3>2, <3>3
  <2>10. DisabledTakesNone'
    BY <2>9 DEF DisabledTakesNone
  <2>11. QED
    BY <2>3, <2>5, <2>6, <2>7, <2>8, <2>10 DEF RegistryAfter, EditsAfter
<1>4. QED
  BY <1>1, <1>2, <1>3

(***************************************************************************)
(* RoutingInvariant holds of every behaviour: the foreign keys of D1 are   *)
(* never broken, mail whose alias stood still went to that alias' mailbox  *)
(* or was refused, and a mailbox disabled all along took none.             *)
(***************************************************************************)
THEOREM MailGoesWhereItBelongs == RoutingSpec => []RoutingInvariant
<1>1. RoutingSpec => []RoutingIInv
  BY RoutingStart, RoutingStep, PTL DEF RoutingSpec
<1>2. RoutingIInv => RoutingInvariant
  BY DEF RoutingIInv, RoutingInvariant, MailStaysHome, SteadySound
<1>3. QED
  BY <1>1, <1>2, PTL

(***************************************************************************)
(* No step of any editor takes an address from one mailbox to another.     *)
(***************************************************************************)
THEOREM NoAliasIsStolen == RoutingSpec => AliasNotStolen
<1>1. RoutingSpec => []RoutingIInv
  BY RoutingStart, RoutingStep, PTL DEF RoutingSpec
<1> DEFINE Act == \A a \in Addresses :
      (aliases[a].to # Nobody) => (aliases'[a].to \in {aliases[a].to, Nobody})
<1>2. RoutingIInv /\ [RoutingNext]_routingVars => [Act]_routingVars
  BY RoutingStep DEF RegistryAfter
<1>3. QED
  BY <1>1, <1>2, PTL DEF RoutingSpec, AliasNotStolen

--------------------------------------------------------------------------------
(* Feedback: the strengthening.                                            *)

\* A row that tells of a send names its time, and an event that came after it.
StampsFit(t) ==
  \A s \in Requests :
    /\ t[s].status = "none" => t[s].at = Never /\ t[s].event = Never
    /\ t[s].status # "none" => t[s].at \in 0 .. now
    /\ t[s].event # Never => t[s].status = "sent" /\ t[s].event \in t[s].at .. now

\* D1 has the time of the object's row, and no event the object has not seen.
LogFollows ==
  \A s \in Requests :
    /\ log[s].status # "none" => rows[s].status # "none" /\ log[s].at = rows[s].at
    /\ log[s].event # Never => rows[s].event # Never

\* A channel is up or down now, and was neither later.
ChannelsFit ==
  \A d \in Domains :
    /\ lastUp[d] <= now /\ lastDown[d] <= now
    /\ d \in wired => lastUp[d] = now
    /\ d \notin wired => lastDown[d] = now

\* No event is later than the channel worked.
EventsCameUp(t) == \A s \in Requests : t[s].event <= lastUp[DomainOf[s]]

\* What is owed an event is not yet mature.
OwedIsYoung(t) == \A s \in Requests : Owed(t, s) => now <= t[s].at + Maturity

FeedbackInductive ==
  /\ FeedbackTypeOK /\ LogFollows /\ ChannelsFit
  /\ StampsFit(rows) /\ EventsCameUp(rows) /\ OwedIsYoung(rows)
  /\ StampsFit(log) /\ EventsCameUp(log) /\ OwedIsYoung(log)

\* The parts that are about one table.
TableFits(t) == t \in [Requests -> SendRow] /\ StampsFit(t) /\ EventsCameUp(t) /\ OwedIsYoung(t)

LEMMA InductiveFits ==
  ASSUME FeedbackInductive
  PROVE  FeedbackTypeOK /\ LogFollows /\ ChannelsFit /\ TableFits(rows) /\ TableFits(log)
BY DEF FeedbackInductive, FeedbackTypeOK, TableFits

--------------------------------------------------------------------------------
(* Feedback: what an observation says.                                     *)

LEMMA StampsAreNumbers ==
  /\ Stamp \subseteq Int /\ Never \in Stamp /\ Never = -1
BY FeedbackAssumption DEF Stamp, Never

\* The latest of some stamps is one of them, if there are any.
LEMMA LatestIsThere ==
  ASSUME NEW T \in SUBSET Stamp
  PROVE  /\ Latest(T) \in T \cup {Never} /\ Latest(T) \in Int
         /\ \A y \in T : y <= Latest(T)
<1> DEFINE U == T \cup {Never}
           Away == {k \in Nat : \E j \in U : j + k = LastTick}
<1>1. LastTick \in Nat /\ U \subseteq Int /\ \A j \in U : j <= LastTick
  BY FeedbackAssumption DEF Stamp, Never
<1>2. ASSUME NEW j \in U PROVE LastTick - j \in Away
  <2>1. j \in Int /\ j <= LastTick
    BY <1>1
  <2>2. LastTick - j \in Nat /\ j + (LastTick - j) = LastTick
    BY <1>1, <2>1
  <2> QED
    BY <2>2
<1>3. Away \subseteq Nat /\ Away # {}
  BY <1>2
<1>4. \E k \in Away : \A x \in Away : ~ (x < k)
  <2>1. \E k \in Away : \A x \in Away : <<x, k>> \notin OpToRel(<, Nat)
    BY <1>3, NatLessThanWellFounded, WFMin
  <2> QED
    BY <1>3, <2>1, Zenon DEF OpToRel
<1>5. PICK k \in Away : \A x \in Away : ~ (x < k)
  BY <1>4
<1>6. PICK i \in U : k \in Nat /\ i + k = LastTick
  BY <1>5
<1> HIDE DEF Away
<1>7. ASSUME NEW j \in U PROVE j <= i
  <2>1. LastTick - j \in Nat /\ ~ (LastTick - j < k) /\ i \in Int /\ j \in Int
    BY <1>1, <1>2, <1>3, <1>5
  <2> QED
    BY <2>1, <1>6, <1>1
<1>8. \E x \in T \cup {Never} : \A y \in T : y <= x
  BY <1>7
<1>9. Latest(T) \in U /\ \A y \in T : y <= Latest(T)
  BY <1>8 DEF Latest
<1> QED
  BY <1>1, <1>9

\* The sets an observation is made of.
ObservedOf(t, sends) == {s \in Counted(t, sends) : t[s].event # Never}
SilentOf(t, sends) ==
  {s \in Counted(t, sends) \ ObservedOf(t, sends) : t[s].at < feedbackMaturityCutoff}

\* A count is zero where there is nothing to count.
LEMMA NoneIsZero ==
  ASSUME NEW Q \in SUBSET Requests
  PROVE  Cardinality(Q) \in Nat /\ (Cardinality(Q) = 0 <=> Q = {})
<1>1. IsFiniteSet(Q)
  BY FeedbackAssumption, FS_Subset
<1> QED
  BY <1>1, FS_CardinalityType, FS_EmptySet

LEMMA ObservationIs ==
  ASSUME NEW t \in [Requests -> SendRow], NEW sends \in SUBSET Requests
  PROVE  LET o == Observation(t, sends)
         IN  /\ o.dispatched \in Nat /\ (o.dispatched = 0 <=> Counted(t, sends) = {})
             /\ o.observed \in Nat /\ (o.observed = 0 <=> ObservedOf(t, sends) = {})
             /\ o.silentMatureDispatches \in Nat
             /\ o.silentMatureDispatches = 0 <=> SilentOf(t, sends) = {}
             /\ o.lastEventAt \in Int /\ o.lastSilentMatureAt \in Int
             /\ o.lastEventAt \in {t[s].event : s \in ObservedOf(t, sends)} \cup {Never}
             /\ \A s \in ObservedOf(t, sends) : t[s].event <= o.lastEventAt
             /\ o.lastSilentMatureAt \in {t[s].at : s \in SilentOf(t, sends)} \cup {Never}
             /\ \A s \in SilentOf(t, sends) : t[s].at <= o.lastSilentMatureAt
<1> DEFINE C == Counted(t, sends)
           O == ObservedOf(t, sends)
           L == SilentOf(t, sends)
           E == {t[s].event : s \in O}
           A == {t[s].at : s \in L}
<1>1. C \in SUBSET Requests /\ O \in SUBSET C /\ L \in SUBSET C
  BY DEF Counted, ObservedOf, SilentOf
<1>2. E \in SUBSET Stamp /\ A \in SUBSET Stamp
  BY <1>1 DEF SendRow
<1>3. Observation(t, sends) =
        [dispatched |-> Cardinality(C), observed |-> Cardinality(O), lastEventAt |-> Latest(E),
         silentMatureDispatches |-> Cardinality(L), lastSilentMatureAt |-> Latest(A)]
  BY DEF Observation, ObservedOf, SilentOf
<1>4. \A Q \in SUBSET C : Cardinality(Q) \in Nat /\ (Cardinality(Q) = 0 <=> Q = {})
  BY <1>1, NoneIsZero
<1>5. /\ Latest(E) \in E \cup {Never} /\ Latest(E) \in Int /\ \A y \in E : y <= Latest(E)
      /\ Latest(A) \in A \cup {Never} /\ Latest(A) \in Int /\ \A y \in A : y <= Latest(A)
  BY <1>2, LatestIsThere
<1>6. (\A s \in O : t[s].event \in E) /\ (\A s \in L : t[s].at \in A)
  OBVIOUS
<1> HIDE DEF C, O, L, E, A
<1> DEFINE o == [dispatched |-> Cardinality(C), observed |-> Cardinality(O), lastEventAt |-> Latest(E),
                 silentMatureDispatches |-> Cardinality(L), lastSilentMatureAt |-> Latest(A)]
<1>7. /\ o.dispatched = Cardinality(C) /\ o.observed = Cardinality(O) /\ o.lastEventAt = Latest(E)
      /\ o.silentMatureDispatches = Cardinality(L) /\ o.lastSilentMatureAt = Latest(A)
  OBVIOUS
<1> HIDE DEF o
<1>8. /\ o.dispatched \in Nat /\ (o.dispatched = 0 <=> C = {})
      /\ o.observed \in Nat /\ (o.observed = 0 <=> O = {})
      /\ o.silentMatureDispatches \in Nat /\ (o.silentMatureDispatches = 0 <=> L = {})
  BY <1>1, <1>4, <1>7
<1>9. /\ o.lastEventAt \in Int /\ o.lastSilentMatureAt \in Int
      /\ o.lastEventAt \in E \cup {Never} /\ \A s \in O : t[s].event <= o.lastEventAt
      /\ o.lastSilentMatureAt \in A \cup {Never} /\ \A s \in L : t[s].at <= o.lastSilentMatureAt
  BY <1>5, <1>6, <1>7
<1>10. Observation(t, sends) = o
  BY <1>3 DEF o
<1> QED
  BY <1>8, <1>9, <1>10 DEF C, O, L, E, A

\* In a table that fits, what is silent was sent while its channel was down.
LEMMA SilentWasDown ==
  ASSUME FeedbackTypeOK, NEW t, TableFits(t), NEW sends \in SUBSET Requests,
         NEW s \in SilentOf(t, sends)
  PROVE  /\ t[s].at <= lastDown[DomainOf[s]] /\ t[s].at >= feedbackLookbackFloor
         /\ t[s].at \in Int /\ lastDown[DomainOf[s]] \in Int
<1>1. /\ s \in Requests /\ t[s].status = "sent" /\ t[s].event = Never
      /\ t[s].at >= feedbackLookbackFloor /\ t[s].at < feedbackMaturityCutoff
  BY DEF SilentOf, ObservedOf, Counted
<1>2. t[s].at \in Int /\ lastDown[DomainOf[s]] \in Int /\ now \in Int /\ Maturity \in Int
  <2>1. t[s] \in SendRow /\ lastDown[DomainOf[s]] \in Stamp /\ now \in 0 .. LastTick
    BY <1>1, FeedbackAssumption DEF FeedbackTypeOK, TableFits
  <2>2. t[s].at \in Stamp
    BY <2>1 DEF SendRow
  <2>3. t[s].at \in Int /\ lastDown[DomainOf[s]] \in Int
    BY <2>1, <2>2, StampsAreNumbers
  <2>4. now \in Int /\ Maturity \in Int
    BY <2>1, FeedbackAssumption
  <2> QED
    BY <2>3, <2>4
<1>3. ~Owed(t, s)
  BY <1>1, <1>2 DEF TableFits, OwedIsYoung, feedbackMaturityCutoff
<1> QED
  BY <1>1, <1>2, <1>3 DEF Owed

\* A dark verdict rests on a silent send.
LEMMA DarkIsSilent ==
  ASSUME NEW t \in [Requests -> SendRow], NEW sends \in SUBSET Requests,
         Dark(classifyFeedbackLiveness(Observation(t, sends)))
  PROVE  SilentOf(t, sends) # {}
<1> DEFINE o == Observation(t, sends)
<1>1. o.silentMatureDispatches \in Nat /\ (o.silentMatureDispatches = 0 <=> SilentOf(t, sends) = {})
  BY ObservationIs
<1> HIDE DEF o
<1>2. o.silentMatureDispatches # 0
  BY <1>1 DEF o, Dark, classifyFeedbackLiveness
<1> QED
  BY <1>1, <1>2

\* A silent send later than the channel worked makes the verdict dark.
LEMMA DownIsDark ==
  ASSUME FeedbackTypeOK, NEW t, TableFits(t), NEW d \in Domains,
         NEW sends \in SUBSET OfDomain(d), NEW s \in sends, s \in Unanswerable(t)
  PROVE  /\ Dark(classifyFeedbackLiveness(Observation(t, sends)))
         /\ Observation(t, sends).dispatched > 0
<1> DEFINE o == Observation(t, sends)
<1>1. /\ s \in Requests /\ DomainOf[s] = d /\ t \in [Requests -> SendRow]
      /\ sends \in SUBSET Requests
  BY DEF OfDomain, TableFits
<1>2. /\ s \in Counted(t, sends) /\ t[s].at < feedbackMaturityCutoff /\ t[s].at > lastUp[d]
      /\ t[s].status = "sent"
  BY <1>1 DEF Unanswerable, Counted
<1>3. lastUp[d] \in Int /\ \A q \in Requests : t[q].at \in Int /\ t[q].event \in Int
  BY <1>1, StampsAreNumbers DEF FeedbackTypeOK, SendRow
<1>4. t[s].event = Never
  <2>1. SUFFICES ASSUME t[s].event # Never PROVE FALSE
    OBVIOUS
  <2>2. t[s].at <= t[s].event
    BY <1>1, <1>3, <2>1 DEF TableFits, StampsFit
  <2>3. t[s].event <= lastUp[d]
    BY <1>1 DEF TableFits, EventsCameUp
  <2> QED
    BY <1>1, <1>2, <1>3, <2>2, <2>3
<1>5. s \in SilentOf(t, sends)
  BY <1>2, <1>4 DEF SilentOf, ObservedOf
<1>6. /\ o.dispatched \in Nat /\ o.dispatched # 0
      /\ o.silentMatureDispatches \in Nat /\ o.silentMatureDispatches # 0
      /\ o.lastEventAt \in Int /\ o.lastSilentMatureAt \in Int
      /\ t[s].at <= o.lastSilentMatureAt
      /\ o.observed = 0 <=> ObservedOf(t, sends) = {}
      /\ o.lastEventAt \in {t[q].event : q \in ObservedOf(t, sends)} \cup {Never}
  BY <1>1, <1>2, <1>5, ObservationIs
<1> HIDE DEF o
<1>7. o.observed # 0 => o.lastSilentMatureAt > o.lastEventAt
  <2>1. SUFFICES ASSUME o.observed # 0 PROVE o.lastSilentMatureAt > o.lastEventAt
    OBVIOUS
  <2>2. \A q \in ObservedOf(t, sends) : t[q].event <= lastUp[d]
    BY <1>1 DEF ObservedOf, Counted, OfDomain, TableFits, EventsCameUp
  <2>3. o.lastEventAt <= lastUp[d]
    <3>1. Never <= lastUp[d]
      BY <1>1, <1>4 DEF TableFits, EventsCameUp
    <3> QED
      BY <1>6, <2>2, <3>1
  <2> QED
    BY <1>1, <1>2, <1>3, <1>6, <2>3
<1>8. Dark(classifyFeedbackLiveness(o))
  BY <1>6, <1>7 DEF Dark, classifyFeedbackLiveness
<1> QED
  BY <1>6, <1>8 DEF o

LEMMA HealthIs ==
  LET h == getSendingFeedbackStatus
      saw(d) == readSenderFeedbackObservations(d).dispatched > 0
  IN  /\ h.dark = {d \in Domains : saw(d) /\ Dark(Verdict(d))}
      /\ h.dark # {} => h.mode = "dark"
BY DEF getSendingFeedbackStatus, Verdict

LEMMA OneMailboxIs ==
  ASSUME NEW s \in Requests
  PROVE  /\ DomainOf[s] \in Domains
         /\ {q \in OfDomain(DomainOf[s]) : BoxOf[q] = BoxOf[s]} \in SUBSET OfDomain(DomainOf[s])
         /\ OfDomain(DomainOf[s]) \in SUBSET Requests
         /\ s \in {q \in OfDomain(DomainOf[s]) : BoxOf[q] = BoxOf[s]}
         /\ s \in OfDomain(DomainOf[s])
BY FeedbackAssumption DEF OfDomain

LEMMA CutsAreSeen ==
  ASSUME FeedbackInductive
  PROVE  CutIsSeen
<1>1. FeedbackTypeOK /\ TableFits(rows) /\ TableFits(log)
  BY InductiveFits
<1>2. ASSUME NEW s \in Unanswerable(log)
      PROVE  /\ getSendingFeedbackStatus.mode = "dark"
             /\ DomainOf[s] \in getSendingFeedbackStatus.dark
  <2>1. s \in Requests
    BY DEF Unanswerable, Counted
  <2>2. /\ Dark(Verdict(DomainOf[s]))
        /\ readSenderFeedbackObservations(DomainOf[s]).dispatched > 0
    BY <1>1, <2>1, OneMailboxIs, DownIsDark DEF Verdict, readSenderFeedbackObservations
  <2>3. DomainOf[s] \in getSendingFeedbackStatus.dark
    BY <2>1, <2>2, OneMailboxIs, HealthIs
  <2> QED
    BY <2>3, HealthIs
<1>3. ASSUME NEW s \in Unanswerable(rows)
      PROVE  Dark(getTransactionalRequestStatus(s))
  <2>1. s \in Requests
    BY DEF Unanswerable, Counted
  <2> QED
    BY <1>1, <2>1, OneMailboxIs, DownIsDark
    DEF getTransactionalRequestStatus, observeSenderFeedback
<1> QED
  BY <1>2, <1>3 DEF CutIsSeen

LEMMA AlarmsAreTrue ==
  ASSUME FeedbackInductive
  PROVE  AlarmIsTrue
<1>1. FeedbackTypeOK /\ TableFits(rows) /\ TableFits(log)
  BY InductiveFits
<1>2. ASSUME NEW t, TableFits(t), NEW d \in Domains, NEW sends \in SUBSET OfDomain(d),
             Dark(classifyFeedbackLiveness(Observation(t, sends)))
      PROVE  lastDown[d] >= feedbackLookbackFloor
  <2>1. sends \in SUBSET Requests /\ t \in [Requests -> SendRow]
    BY <1>2 DEF OfDomain, TableFits
  <2>2. PICK s \in SilentOf(t, sends) : TRUE
    BY <1>2, <2>1, DarkIsSilent
  <2>3. DomainOf[s] = d
    BY DEF SilentOf, Counted, OfDomain
  <2>4. /\ t[s].at <= lastDown[d] /\ t[s].at >= feedbackLookbackFloor
        /\ t[s].at \in Int /\ lastDown[d] \in Int
    BY <1>1, <1>2, <2>1, <2>3, SilentWasDown
  <2>5. feedbackLookbackFloor \in Int
    BY <1>1, FeedbackAssumption DEF feedbackLookbackFloor, FeedbackTypeOK
  <2> QED
    BY <2>4, <2>5
<1> SUFFICES ASSUME NEW s \in Requests,
                    \/ DomainOf[s] \in getSendingFeedbackStatus.dark
                    \/ Dark(getTransactionalRequestStatus(s))
             PROVE  lastDown[DomainOf[s]] >= feedbackLookbackFloor
  BY DEF AlarmIsTrue
<1>3. CASE DomainOf[s] \in getSendingFeedbackStatus.dark
  <2>1. Dark(classifyFeedbackLiveness(Observation(log, OfDomain(DomainOf[s]))))
    BY <1>3, HealthIs DEF Verdict, readSenderFeedbackObservations
  <2>2. OfDomain(DomainOf[s]) \in SUBSET OfDomain(DomainOf[s])
    OBVIOUS
  <2> QED
    BY <1>1, <1>2, <2>1, <2>2, OneMailboxIs
<1>4. CASE Dark(getTransactionalRequestStatus(s))
  BY <1>1, <1>2, <1>4, OneMailboxIs DEF getTransactionalRequestStatus, observeSenderFeedback
<1> QED
  BY <1>3, <1>4

LEMMA AlarmsClear ==
  ASSUME FeedbackInductive
  PROVE  AlarmClears
<1>1. FeedbackTypeOK /\ TableFits(log) /\ log \in [Requests -> SendRow]
  BY InductiveFits DEF TableFits
<1> SUFFICES ASSUME NEW s \in Counted(log, Requests), log[s].event # Never,
                    log[s].at > lastDown[DomainOf[s]]
             PROVE  Verdict(DomainOf[s]) = "live"
  BY DEF AlarmClears
<1> DEFINE d == DomainOf[s]
           o == Observation(log, OfDomain(d))
<1>2. s \in Requests /\ OfDomain(d) \in SUBSET Requests
  BY DEF Counted, OfDomain
<1>3. s \in ObservedOf(log, OfDomain(d)) /\ s \in Counted(log, OfDomain(d))
  BY <1>2 DEF ObservedOf, Counted, OfDomain
<1>4. /\ o.dispatched \in Nat /\ o.dispatched # 0 /\ o.observed # 0
      /\ o.silentMatureDispatches \in Nat
      /\ o.silentMatureDispatches = 0 <=> SilentOf(log, OfDomain(d)) = {}
      /\ o.lastEventAt \in Int /\ o.lastSilentMatureAt \in Int
      /\ log[s].event <= o.lastEventAt
      /\ o.lastSilentMatureAt \in {log[q].at : q \in SilentOf(log, OfDomain(d))} \cup {Never}
  BY <1>1, <1>2, <1>3, ObservationIs
<1>5. /\ log[s].at \in Int /\ log[s].event \in Int /\ lastDown[d] \in Int
      /\ log[s].at <= log[s].event /\ Never <= log[s].event
  <2>1. log[s] \in SendRow /\ lastDown[d] \in Stamp
    BY <1>1, <1>2, FeedbackAssumption DEF FeedbackTypeOK
  <2>2. log[s].at \in Stamp /\ log[s].event \in Stamp
    BY <2>1 DEF SendRow
  <2>3. log[s].event \in log[s].at .. now
    BY <1>1, <1>2 DEF TableFits, StampsFit
  <2> QED
    BY <2>1, <2>2, <2>3, FeedbackAssumption DEF Stamp, Never
<1>6. ASSUME NEW q \in SilentOf(log, OfDomain(d)) PROVE log[q].at <= lastDown[d] /\ log[q].at \in Int
  <2>1. DomainOf[q] = d
    BY DEF SilentOf, Counted, OfDomain
  <2> QED
    BY <1>1, <1>2, <2>1, SilentWasDown
<1>7. o.lastSilentMatureAt <= o.lastEventAt
  <2>1. CASE o.lastSilentMatureAt = Never
    BY <2>1, <1>4, <1>5, StampsAreNumbers
  <2>2. CASE \E q \in SilentOf(log, OfDomain(d)) : o.lastSilentMatureAt = log[q].at
    BY <2>2, <1>4, <1>5, <1>6
  <2> QED
    BY <2>1, <2>2, <1>4
<1> HIDE DEF o
<1>8. classifyFeedbackLiveness(o) = "live"
  BY <1>4, <1>7 DEF classifyFeedbackLiveness
<1> QED
  BY <1>8 DEF o, Verdict, readSenderFeedbackObservations

--------------------------------------------------------------------------------
(* Feedback: the steps.                                                    *)

LEMMA FeedbackTypes ==
  ASSUME FeedbackInductive
  PROVE  /\ now \in 0 .. LastTick /\ now \in Nat /\ wired \subseteq Domains
         /\ rows \in [Requests -> SendRow] /\ log \in [Requests -> SendRow]
         /\ lastUp \in [Domains -> Stamp] /\ lastDown \in [Domains -> Stamp]
BY FeedbackAssumption DEF FeedbackInductive, FeedbackTypeOK

LEMMA RowParts ==
  ASSUME NEW f \in SendRow
  PROVE  /\ f.status \in {"none", "unknown", "sent"} /\ f.at \in Stamp /\ f.event \in Stamp
         /\ f.at \in Int /\ f.event \in Int
BY StampsAreNumbers DEF SendRow

\* What a table says of one send, when the rest stand.
RowFits(s, f) ==
  /\ f \in SendRow
  /\ f.status = "none" => f.at = Never /\ f.event = Never
  /\ f.status # "none" => f.at \in 0 .. now
  /\ f.event # Never => f.status = "sent" /\ f.event \in f.at .. now
  /\ f.event <= lastUp[DomainOf[s]]
  /\ f.status = "sent" /\ f.event = Never /\ f.at > lastDown[DomainOf[s]] =>
       now <= f.at + Maturity

LEMMA TableIsRows ==
  ASSUME NEW t
  PROVE  TableFits(t) <=> /\ t \in [Requests -> SendRow]
                          /\ \A s \in Requests : RowFits(s, t[s])
BY DEF TableFits, StampsFit, EventsCameUp, OwedIsYoung, Owed, RowFits

\* One row is written.
LEMMA WritingFits ==
  ASSUME NEW t, TableFits(t), NEW s \in Requests, NEW w \in [Requests -> SendRow],
         RowFits(s, w[s]), \A q \in Requests : q # s => w[q] = t[q]
  PROVE  TableFits(w)
<1>1. \A q \in Requests : RowFits(q, w[q])
  BY TableIsRows
<1> QED
  BY <1>1, TableIsRows

\* Nothing but a table changes.
Stands == UNCHANGED <<now, wired, lastUp, lastDown>>

LEMMA StandingKeeps ==
  ASSUME FeedbackInductive, Stands,
         TableFits(rows'), TableFits(log'), LogFollows'
  PROVE  FeedbackInductive'
<1>1. now' = now /\ wired' = wired /\ lastUp' = lastUp /\ lastDown' = lastDown
  BY DEF Stands
<1>2. FeedbackTypeOK'
  BY <1>1, FeedbackTypes DEF FeedbackTypeOK, TableFits
<1>3. ChannelsFit'
  BY <1>1, InductiveFits DEF ChannelsFit
<1>4. ASSUME NEW t, TableFits(t) PROVE StampsFit(t)' /\ EventsCameUp(t)' /\ OwedIsYoung(t)'
  BY <1>1, <1>4 DEF TableFits, StampsFit, EventsCameUp, OwedIsYoung, Owed
<1>5. /\ \A s \in Requests : /\ rows'[s].status = "none" => rows'[s].at = Never /\ rows'[s].event = Never
                             /\ rows'[s].status # "none" => rows'[s].at \in 0 .. now
                             /\ rows'[s].event # Never => /\ rows'[s].status = "sent"
                                                          /\ rows'[s].event \in rows'[s].at .. now
      /\ \A s \in Requests : rows'[s].event <= lastUp[DomainOf[s]]
      /\ \A s \in Requests : Owed(rows', s) => now <= rows'[s].at + Maturity
  BY DEF TableFits, StampsFit, EventsCameUp, OwedIsYoung
<1>6. /\ \A s \in Requests : /\ log'[s].status = "none" => log'[s].at = Never /\ log'[s].event = Never
                             /\ log'[s].status # "none" => log'[s].at \in 0 .. now
                             /\ log'[s].event # Never => /\ log'[s].status = "sent"
                                                         /\ log'[s].event \in log'[s].at .. now
      /\ \A s \in Requests : log'[s].event <= lastUp[DomainOf[s]]
      /\ \A s \in Requests : Owed(log', s) => now <= log'[s].at + Maturity
  BY DEF TableFits, StampsFit, EventsCameUp, OwedIsYoung
<1>7. StampsFit(rows)' /\ EventsCameUp(rows)' /\ OwedIsYoung(rows)'
  BY <1>1, <1>5 DEF StampsFit, EventsCameUp, OwedIsYoung, Owed
<1>8. StampsFit(log)' /\ EventsCameUp(log)' /\ OwedIsYoung(log)'
  BY <1>1, <1>6 DEF StampsFit, EventsCameUp, OwedIsYoung, Owed
<1> QED
  BY <1>2, <1>3, <1>7, <1>8 DEF FeedbackInductive

LEMMA DispatchKeeps ==
  ASSUME FeedbackInductive, NEW s \in Requests, Dispatch(s)
  PROVE  FeedbackInductive'
<1>1. PICK status \in {"sent", "unknown"} :
        rows' = [rows EXCEPT ![s] = [status |-> status, at |-> now, event |-> Never]]
  BY DEF Dispatch
<1> DEFINE f == [status |-> status, at |-> now, event |-> Never]
<1>2. f.status = status /\ f.at = now /\ f.event = Never
  OBVIOUS
<1>3. f \in SendRow
  <2>1. now \in Stamp /\ Never \in Stamp /\ status \in {"none", "unknown", "sent"}
    BY FeedbackTypes DEF Stamp
  <2> QED
    BY <2>1 DEF SendRow
<1> HIDE DEF f
<1>4. Never <= lastUp[DomainOf[s]]
  <2>1. lastUp[DomainOf[s]] \in Stamp
    BY FeedbackTypes, FeedbackAssumption
  <2> QED
    BY <2>1, FeedbackAssumption DEF Stamp, Never
<1>5. now \in Nat /\ now \in 0 .. now /\ now <= now + Maturity
  BY FeedbackTypes, FeedbackAssumption
<1>6. RowFits(s, f)
  BY <1>2, <1>3, <1>4, <1>5 DEF RowFits
<1>7. TableFits(rows') /\ rows'[s] = f /\ \A q \in Requests : q # s => rows'[q] = rows[q]
  <2>1. rows \in [Requests -> SendRow] /\ TableFits(rows) /\ f \in SendRow
    BY <1>6, InductiveFits, FeedbackTypes DEF RowFits
  <2>2. rows' = [rows EXCEPT ![s] = f]
    BY <1>1 DEF f
  <2>3. /\ rows' \in [Requests -> SendRow] /\ rows'[s] = f
        /\ \A q \in Requests : q # s => rows'[q] = rows[q]
    BY <2>1, <2>2
  <2>4. RowFits(s, rows'[s])
    BY <1>6, <2>3
  <2> QED
    BY <2>1, <2>3, <2>4, WritingFits
<1>8. log' = log /\ Stands /\ rows[s].status = "none"
  BY DEF Dispatch, Stands
<1>9. LogFollows'
  <2>1. log[s].status = "none" /\ log[s].event = Never
    BY <1>8, InductiveFits DEF LogFollows, TableFits, StampsFit
  <2> QED
    BY <1>7, <1>8, <2>1, InductiveFits DEF LogFollows
<1> QED
  BY <1>7, <1>8, <1>9, InductiveFits, StandingKeeps

LEMMA LogWriteKeeps ==
  ASSUME FeedbackInductive, NEW s \in Requests, LogWrite(s)
  PROVE  FeedbackInductive'
<1>1. log' = [log EXCEPT ![s] = rows[s]] /\ rows' = rows /\ Stands /\ rows[s].status # "none"
  BY DEF LogWrite, Stands
<1>2. RowFits(s, rows[s])
  BY InductiveFits, TableIsRows
<1>3. TableFits(log') /\ log'[s] = rows[s] /\ \A q \in Requests : q # s => log'[q] = log[q]
  <2>1. log \in [Requests -> SendRow] /\ TableFits(log) /\ rows[s] \in SendRow
    BY <1>2, InductiveFits, FeedbackTypes DEF RowFits
  <2>2. log' = [log EXCEPT ![s] = rows[s]]
    BY <1>1
  <2>3. /\ log' \in [Requests -> SendRow] /\ log'[s] = rows[s]
        /\ \A q \in Requests : q # s => log'[q] = log[q]
    BY <2>1, <2>2
  <2>4. RowFits(s, log'[s])
    BY <1>2, <2>3
  <2> QED
    BY <2>1, <2>3, <2>4, WritingFits
<1>4. LogFollows'
  BY <1>1, <1>3, InductiveFits DEF LogFollows
<1> QED
  BY <1>1, <1>3, <1>4, InductiveFits, StandingKeeps

\* A row is answered at some time between its dispatch and now.
LEMMA StampedRow ==
  ASSUME NEW g \in SendRow, NEW x \in Stamp
  PROVE  LET h == [g EXCEPT !.event = x, !.status = "sent"]
         IN  h \in SendRow /\ h.status = "sent" /\ h.at = g.at /\ h.event = x
<1>1. PICK sent \in {"none", "unknown", "sent"} : sent = "sent"
  OBVIOUS
<1>2. PICK a \in {"none", "unknown", "sent"}, b \in Stamp, c \in Stamp :
        g = [status |-> a, at |-> b, event |-> c]
  BY DEF SendRow
<1>3. [g EXCEPT !.event = x, !.status = "sent"] = [status |-> sent, at |-> g.at, event |-> x]
  <2>1. PICK h : h = [g EXCEPT !.event = x, !.status = "sent"]
    OBVIOUS
  <2>2. h = [status |-> "sent", at |-> b, event |-> x]
    BY <1>2, <2>1
  <2> QED
    BY <1>1, <1>2, <2>1, <2>2
<1>4. [status |-> sent, at |-> g.at, event |-> x] \in SendRow
  BY <1>2 DEF SendRow
<1> QED
  BY <1>1, <1>3, <1>4

LEMMA AnsweredFits ==
  ASSUME FeedbackInductive, NEW s \in Requests, NEW g \in SendRow, RowFits(s, g),
         g.status # "none", NEW x \in g.at .. now, x <= lastUp[DomainOf[s]],
         NEW h \in SendRow, h.status = "sent", h.at = g.at, h.event = x
  PROVE  RowFits(s, h) /\ x # Never
<1>1. g.at \in 0 .. now /\ now \in 0 .. LastTick
  BY FeedbackTypes DEF RowFits
<1>2. x # Never
  BY <1>1, FeedbackAssumption DEF Never
<1> QED
  BY <1>1, <1>2 DEF RowFits

LEMMA ObjectStampKeeps ==
  ASSUME FeedbackInductive, NEW s \in Requests, EventStampsObject(s)
  PROVE  FeedbackInductive'
<1>1. /\ rows[s].status # "none" /\ lastUp[DomainOf[s]] = now
      /\ log' = log /\ Stands
      /\ rows' = [rows EXCEPT ![s] = [rows[s] EXCEPT !.event = now, !.status = "sent"]]
  BY FeedbackTypes DEF EventStampsObject, Stands
<1> DEFINE f == [rows[s] EXCEPT !.event = now, !.status = "sent"]
<1>2. rows[s] \in SendRow /\ RowFits(s, rows[s])
  BY InductiveFits, TableIsRows
<1>3. now \in rows[s].at .. now /\ now <= lastUp[DomainOf[s]]
  BY <1>1, <1>2, FeedbackTypes DEF RowFits
<1>4. RowFits(s, f) /\ f.status = "sent" /\ f.at = rows[s].at /\ f.event = now /\ now # Never
  <2>1. now \in Stamp
    BY FeedbackTypes DEF Stamp
  <2>2. f \in SendRow /\ f.status = "sent" /\ f.at = rows[s].at /\ f.event = now
    BY <1>2, <2>1, StampedRow, Zenon
  <2> HIDE DEF f
  <2> QED
    BY <1>1, <1>2, <1>3, <2>2, AnsweredFits
<1> HIDE DEF f
<1>5. TableFits(rows') /\ rows'[s] = f /\ \A q \in Requests : q # s => rows'[q] = rows[q]
  <2>1. rows \in [Requests -> SendRow] /\ TableFits(rows) /\ f \in SendRow
    BY <1>4, InductiveFits, FeedbackTypes DEF RowFits
  <2>2. rows' = [rows EXCEPT ![s] = f]
    BY <1>1 DEF f
  <2>3. /\ rows' \in [Requests -> SendRow] /\ rows'[s] = f
        /\ \A q \in Requests : q # s => rows'[q] = rows[q]
    BY <2>1, <2>2
  <2>4. RowFits(s, rows'[s])
    BY <1>4, <2>3
  <2> QED
    BY <2>1, <2>3, <2>4, WritingFits
<1>6. LogFollows'
  BY <1>1, <1>4, <1>5, InductiveFits DEF LogFollows
<1> QED
  BY <1>1, <1>5, <1>6, InductiveFits, StandingKeeps

LEMMA LogStampKeeps ==
  ASSUME FeedbackInductive, NEW s \in Requests, EventStampsLog(s)
  PROVE  FeedbackInductive'
<1>1. PICK x \in rows[s].at .. rows[s].event :
        log' = [log EXCEPT ![s] = [log[s] EXCEPT !.event = x, !.status = "sent"]]
  BY FeedbackTypes DEF EventStampsLog
<1>2. rows[s].event # Never /\ log[s].status # "none" /\ rows' = rows /\ Stands
  BY DEF EventStampsLog, Stands
<1> DEFINE f == [log[s] EXCEPT !.event = x, !.status = "sent"]
<1>3. /\ log[s] \in SendRow /\ RowFits(s, log[s]) /\ rows[s] \in SendRow /\ RowFits(s, rows[s])
      /\ log[s].at = rows[s].at
  BY <1>2, InductiveFits, TableIsRows DEF LogFollows
<1>4. x \in log[s].at .. now /\ x <= lastUp[DomainOf[s]]
  <2>1. /\ rows[s].at \in Int /\ rows[s].event \in Int /\ lastUp[DomainOf[s]] \in Int
        /\ now \in Nat
    BY <1>3, RowParts, FeedbackTypes, FeedbackAssumption, StampsAreNumbers
  <2>2. rows[s].event <= now /\ rows[s].event <= lastUp[DomainOf[s]]
    BY <1>2, <1>3, <2>1 DEF RowFits
  <2> QED
    BY <1>3, <2>1, <2>2
<1>5. RowFits(s, f) /\ f.status = "sent" /\ f.at = log[s].at /\ f.event = x
  <2>1. x \in Stamp
    <3>1. now \in 0 .. LastTick /\ rows[s].at \in 0 .. now /\ log[s].at = rows[s].at
      BY <1>2, <1>3, FeedbackTypes DEF RowFits, LogFollows
    <3> QED
      BY <1>4, <3>1, FeedbackAssumption DEF Stamp
  <2>2. f \in SendRow /\ f.status = "sent" /\ f.at = log[s].at /\ f.event = x
    BY <1>3, <2>1, StampedRow, Zenon
  <2> HIDE DEF f
  <2> QED
    BY <1>2, <1>3, <1>4, <2>2, AnsweredFits
<1> HIDE DEF f
<1>6. TableFits(log') /\ log'[s] = f /\ \A q \in Requests : q # s => log'[q] = log[q]
  <2>1. log \in [Requests -> SendRow] /\ TableFits(log) /\ f \in SendRow
    BY <1>5, InductiveFits, FeedbackTypes DEF RowFits
  <2>2. log' = [log EXCEPT ![s] = f]
    BY <1>1 DEF f
  <2>3. /\ log' \in [Requests -> SendRow] /\ log'[s] = f
        /\ \A q \in Requests : q # s => log'[q] = log[q]
    BY <2>1, <2>2
  <2>4. RowFits(s, log'[s])
    BY <1>5, <2>3
  <2> QED
    BY <2>1, <2>3, <2>4, WritingFits
<1>7. LogFollows'
  BY <1>2, <1>3, <1>5, <1>6, InductiveFits DEF LogFollows
<1> QED
  BY <1>2, <1>6, <1>7, InductiveFits, StandingKeeps

--------------------------------------------------------------------------------
(* Feedback: the channel and the clock.                                    *)

\* The tables stand while channels and clock go on.
LEMMA GoingOnKeeps ==
  ASSUME FeedbackInductive, rows' = rows, log' = log, FeedbackTypeOK', ChannelsFit',
         now <= now', \A d \in Domains : lastUp[d] <= lastUp'[d],
         \A s \in Requests : Owed(rows, s)' => now' <= rows[s].at + Maturity,
         \A s \in Requests : Owed(log, s)' => now' <= log[s].at + Maturity
  PROVE  FeedbackInductive'
<1>1. now \in Nat /\ now' \in Nat
  BY FeedbackTypes, FeedbackAssumption DEF FeedbackTypeOK
<1>2. LogFollows'
  BY InductiveFits DEF LogFollows
<1>3. \A i, j \in Int : i \in j .. now => i \in j .. now'
  BY <1>1
<1>4. ASSUME NEW t, t \in [Requests -> SendRow], StampsFit(t), EventsCameUp(t), NEW s \in Requests
      PROVE  /\ t[s].status = "none" => t[s].at = Never /\ t[s].event = Never
             /\ t[s].status # "none" => t[s].at \in 0 .. now'
             /\ t[s].event # Never => t[s].status = "sent" /\ t[s].event \in t[s].at .. now'
             /\ t[s].event <= lastUp'[DomainOf[s]]
  <2>1. t[s].at \in Int /\ t[s].event \in Int
    BY <1>4, RowParts
  <2>2. /\ lastUp[DomainOf[s]] \in Int /\ lastUp'[DomainOf[s]] \in Int
        /\ lastUp[DomainOf[s]] <= lastUp'[DomainOf[s]]
    BY FeedbackTypes, FeedbackAssumption, StampsAreNumbers DEF FeedbackTypeOK
  <2>3. t[s].event <= lastUp'[DomainOf[s]]
    BY <1>4, <2>1, <2>2 DEF EventsCameUp
  <2> QED
    BY <1>1, <1>3, <1>4, <2>1, <2>3 DEF StampsFit
<1>5. /\ rows \in [Requests -> SendRow] /\ StampsFit(rows) /\ EventsCameUp(rows)
      /\ log \in [Requests -> SendRow] /\ StampsFit(log) /\ EventsCameUp(log)
  BY InductiveFits DEF TableFits
<1>6. StampsFit(rows)' /\ EventsCameUp(rows)' /\ OwedIsYoung(rows)'
  BY <1>4, <1>5 DEF StampsFit, EventsCameUp, OwedIsYoung
<1>7. StampsFit(log)' /\ EventsCameUp(log)' /\ OwedIsYoung(log)'
  BY <1>4, <1>5 DEF StampsFit, EventsCameUp, OwedIsYoung
<1> QED
  BY <1>2, <1>6, <1>7 DEF FeedbackInductive

LEMMA CutKeeps ==
  ASSUME FeedbackInductive, NEW d \in Domains, Cut(d)
  PROVE  FeedbackInductive'
<1>1. /\ wired' = wired \ {d} /\ lastDown' = [lastDown EXCEPT ![d] = now]
      /\ UNCHANGED <<now, rows, log, lastUp>>
  BY DEF Cut
<1>2. now \in Stamp /\ now \in Nat
  BY FeedbackTypes DEF Stamp
<1>3. /\ lastDown' \in [Domains -> Stamp] /\ lastDown'[d] = now
      /\ \A e \in Domains : e # d => lastDown'[e] = lastDown[e]
  BY <1>1, <1>2, FeedbackTypes
<1>4. FeedbackTypeOK'
  BY <1>1, <1>3, FeedbackTypes DEF FeedbackTypeOK
<1>5. ChannelsFit'
  BY <1>1, <1>2, <1>3, InductiveFits DEF ChannelsFit
<1>6. \A e \in Domains : lastDown[e] <= lastDown'[e] /\ lastDown[e] \in Int /\ lastDown'[e] \in Int
  <2>1. \A e \in Domains : lastDown[e] \in Int
    BY FeedbackTypes, StampsAreNumbers
  <2> QED
    BY <1>2, <1>3, <2>1, InductiveFits DEF ChannelsFit
<1>7. ASSUME NEW t, TableFits(t), NEW s \in Requests, t[s].status = "sent", t[s].event = Never,
             t[s].at > lastDown'[DomainOf[s]]
      PROVE  now <= t[s].at + Maturity
  <2>1. t[s].at \in Int /\ DomainOf[s] \in Domains
    BY <1>7, RowParts, FeedbackAssumption DEF TableFits
  <2>2. t[s].at > lastDown[DomainOf[s]]
    BY <1>6, <1>7, <2>1
  <2> QED
    BY <1>7, <2>2 DEF TableFits, OwedIsYoung, Owed
<1>8. \A s \in Requests : /\ Owed(rows, s)' => now' <= rows[s].at + Maturity
                          /\ Owed(log, s)' => now' <= log[s].at + Maturity
  BY <1>1, <1>7, InductiveFits DEF Owed
<1>9. now <= now' /\ \A e \in Domains : lastUp[e] <= lastUp'[e]
  <2>1. \A e \in Domains : lastUp[e] \in Int
    BY FeedbackTypes, StampsAreNumbers
  <2> QED
    BY <1>1, <1>2, <2>1
<1> QED
  BY <1>1, <1>4, <1>5, <1>8, <1>9, GoingOnKeeps

LEMMA RestoreKeeps ==
  ASSUME FeedbackInductive, NEW d \in Domains, Restore(d)
  PROVE  FeedbackInductive'
<1>1. /\ wired' = wired \cup {d} /\ lastUp' = [lastUp EXCEPT ![d] = now]
      /\ UNCHANGED <<now, rows, log, lastDown>>
  BY DEF Restore
<1>2. now \in Stamp /\ now \in Nat
  BY FeedbackTypes DEF Stamp
<1>3. /\ lastUp' \in [Domains -> Stamp] /\ lastUp'[d] = now
      /\ \A e \in Domains : e # d => lastUp'[e] = lastUp[e]
  BY <1>1, <1>2, FeedbackTypes
<1>4. FeedbackTypeOK'
  BY <1>1, <1>3, FeedbackTypes DEF FeedbackTypeOK
<1>5. ChannelsFit'
  BY <1>1, <1>2, <1>3, InductiveFits DEF ChannelsFit
<1>6. \A s \in Requests : /\ Owed(rows, s)' => now' <= rows[s].at + Maturity
                          /\ Owed(log, s)' => now' <= log[s].at + Maturity
  BY <1>1, InductiveFits DEF Owed, TableFits, OwedIsYoung
<1>7. now <= now' /\ \A e \in Domains : lastUp[e] <= lastUp'[e]
  <2>1. \A e \in Domains : lastUp[e] \in Int
    BY FeedbackTypes, StampsAreNumbers
  <2> QED
    BY <1>1, <1>2, <1>3, <2>1, InductiveFits DEF ChannelsFit
<1> QED
  BY <1>1, <1>4, <1>5, <1>6, <1>7, GoingOnKeeps

LEMMA TickKeeps ==
  ASSUME FeedbackInductive, Tick
  PROVE  FeedbackInductive'
<1>1. /\ now < LastTick /\ now' = now + 1 /\ UNCHANGED <<rows, log, wired>>
      /\ \A s \in Requests : Owed(rows, s) \/ Owed(log, s) => now < rows[s].at + Maturity
      /\ lastUp' = [d \in Domains |-> IF d \in wired THEN now' ELSE lastUp[d]]
      /\ lastDown' = [d \in Domains |-> IF d \in wired THEN lastDown[d] ELSE now']
  BY DEF Tick
<1>2. now \in Nat /\ now' \in 0 .. LastTick /\ now' \in Stamp /\ now < now'
  BY <1>1, FeedbackTypes, FeedbackAssumption DEF Stamp
<1>3. lastUp' \in [Domains -> Stamp] /\ lastDown' \in [Domains -> Stamp]
  BY <1>1, <1>2, FeedbackTypes
<1>4. FeedbackTypeOK'
  BY <1>1, <1>2, <1>3, FeedbackTypes DEF FeedbackTypeOK
<1>5. \A d \in Domains : /\ lastUp[d] \in Int /\ lastDown[d] \in Int
                         /\ lastUp[d] <= now /\ lastDown[d] <= now
                         /\ lastUp'[d] = (IF d \in wired THEN now' ELSE lastUp[d])
                         /\ lastDown'[d] = (IF d \in wired THEN lastDown[d] ELSE now')
  BY <1>1, FeedbackTypes, StampsAreNumbers, InductiveFits DEF ChannelsFit
<1>6. ChannelsFit' /\ \A d \in Domains : lastUp[d] <= lastUp'[d] /\ lastDown[d] <= lastDown'[d]
  BY <1>1, <1>2, <1>5 DEF ChannelsFit
<1>7. ASSUME NEW t, TableFits(t), NEW s \in Requests, t[s].status = "sent", t[s].event = Never,
             t[s].at > lastDown'[DomainOf[s]], t[s].at = rows[s].at,
             Owed(t, s) => now < rows[s].at + Maturity
      PROVE  now' <= t[s].at + Maturity
  <2>1. t[s].at \in Int /\ DomainOf[s] \in Domains /\ lastDown'[DomainOf[s]] \in Int /\ Maturity \in Int
    <3>1. t[s] \in SendRow /\ DomainOf[s] \in Domains
      BY <1>7, FeedbackAssumption DEF TableFits
    <3>2. lastDown'[DomainOf[s]] \in Stamp
      BY <1>3, <3>1
    <3>3. t[s].at \in Int /\ lastDown'[DomainOf[s]] \in Int
      BY <3>1, <3>2, RowParts, StampsAreNumbers
    <3> QED
      BY <3>1, <3>3, FeedbackAssumption
  <2>2. t[s].at > lastDown[DomainOf[s]]
    BY <1>5, <1>6, <1>7, <2>1
  <2>3. now < t[s].at + Maturity
    BY <1>7, <2>2 DEF Owed
  <2> QED
    BY <1>1, <1>2, <2>1, <2>3
<1>8. ASSUME NEW s \in Requests
      PROVE  /\ Owed(rows, s)' => now' <= rows[s].at + Maturity
             /\ Owed(log, s)' => now' <= log[s].at + Maturity
  <2>1. log[s].status = "sent" => log[s].at = rows[s].at
    BY InductiveFits DEF LogFollows
  <2> QED
    BY <1>1, <1>7, <2>1, InductiveFits DEF Owed
<1> QED
  BY <1>1, <1>2, <1>4, <1>6, <1>8, GoingOnKeeps

LEMMA FeedbackStarts ==
  ASSUME FeedbackInit
  PROVE  FeedbackInductive
<1>1. /\ now = 0 /\ rows = [s \in Requests |-> NoRow] /\ log = rows /\ wired \subseteq Domains
      /\ lastUp = [d \in Domains |-> IF d \in wired THEN 0 ELSE Never]
      /\ lastDown = [d \in Domains |-> IF d \in wired THEN Never ELSE 0]
  BY DEF FeedbackInit
<1>2. 0 \in Stamp /\ Never \in Stamp /\ Never <= 0 /\ 0 \in 0 .. LastTick
  BY FeedbackAssumption DEF Stamp, Never
<1>3. NoRow \in SendRow /\ NoRow.status = "none" /\ NoRow.at = Never /\ NoRow.event = Never
  BY <1>2 DEF NoRow, SendRow
<1>4. FeedbackTypeOK
  BY <1>1, <1>2, <1>3 DEF FeedbackTypeOK
<1>5. ChannelsFit
  BY <1>1, <1>2 DEF ChannelsFit
<1>6. \A s \in Requests : rows[s] = NoRow /\ log[s] = NoRow
  BY <1>1
<1>7. \A s \in Requests : Never <= lastUp[DomainOf[s]]
  BY <1>1, FeedbackAssumption DEF Never
<1>8. StampsFit(rows) /\ EventsCameUp(rows) /\ OwedIsYoung(rows) /\ LogFollows
  BY <1>3, <1>6, <1>7 DEF StampsFit, EventsCameUp, OwedIsYoung, Owed, LogFollows
<1> QED
  BY <1>1, <1>4, <1>5, <1>8 DEF FeedbackInductive

LEMMA FeedbackSteps ==
  ASSUME FeedbackInductive, [FeedbackNext]_feedbackVars
  PROVE  FeedbackInductive'
<1>1. CASE UNCHANGED feedbackVars
  <2>1. rows' = rows /\ log' = log /\ Stands
    BY <1>1 DEF feedbackVars, Stands
  <2>2. LogFollows'
    BY <2>1, InductiveFits DEF LogFollows
  <2> QED
    BY <2>1, <2>2, InductiveFits, StandingKeeps
<1>2. CASE FeedbackNext
  BY <1>2, DispatchKeeps, LogWriteKeeps, ObjectStampKeeps, LogStampKeeps, CutKeeps,
     RestoreKeeps, TickKeeps DEF FeedbackNext
<1> QED
  BY <1>1, <1>2

(***************************************************************************)
(* FeedbackInvariant holds of every behaviour: a mature send into a channel *)
(* that is down is seen in the health report and in the status of a        *)
(* request, a domain is called dark only if its channel was down within    *)
(* the period looked back on, and the first event for a send made since    *)
(* ends the alarm (classifyFeedbackLiveness and its two queries).          *)
(***************************************************************************)
THEOREM AVerdictIsTheChannel == FeedbackSpec => []FeedbackInvariant
<1>1. FeedbackInit => FeedbackInductive
  BY FeedbackStarts
<1>2. FeedbackInductive /\ [FeedbackNext]_feedbackVars => FeedbackInductive'
  BY FeedbackSteps
<1>3. FeedbackInductive => FeedbackInvariant
  BY CutsAreSeen, AlarmsAreTrue, AlarmsClear, InductiveFits DEF FeedbackInvariant
<1> QED
  BY <1>1, <1>2, <1>3, PTL DEF FeedbackSpec
================================================================================
