-------------------------- MODULE MCTransactionalSend --------------------------
(* One API key; q1 and q2 carry the same Idempotency-Key, q3 another one.   *)
EXTENDS TransactionalSend, TLC
CONSTANTS k1, i1, i2, p1, p2, r1, q1, q2, q3, s1

MCKeyOf == [q \in Requests |-> k1]
MCClientKeyOf == [q \in Requests |-> IF q = q3 THEN i2 ELSE i1]
MCRecipientOf == [p \in Payloads |-> r1]
MCSenderOf == [k \in ApiKeys |-> s1]
MCQuota == [k \in ApiKeys |-> 1]
MCSymmetry == Permutations({q1, q2}) \cup Permutations(Payloads)
================================================================================
