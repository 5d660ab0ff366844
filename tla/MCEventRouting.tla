----------------------------- MODULE MCEventRouting -----------------------------
(* Two API sends to one recipient under two Idempotency-Keys, with events   *)
(* about both; or events about one of them and about a mail a person sent. *)
EXTENDS EventRouting
CONSTANTS k1, i1, i2, p1, r1, q1, q2, s1, h1

MCKeyOf == [q \in Requests |-> k1]
MCClientKeyOf == [q \in Requests |-> IF q = q1 THEN i1 ELSE i2]
MCRecipientOf == [p \in Payloads |-> r1]
MCSenderOf == [k \in ApiKeys |-> s1]
MCQuota == [k \in ApiKeys |-> 2]
MCAddressOf == [h \in HumanMails |-> r1]
MCTraffic == {{q1, q2}, {h1}}
================================================================================
