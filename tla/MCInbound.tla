-------------------------------- MODULE MCInbound --------------------------------
(* One mail that reaches the handler twice under one key, with other bytes   *)
(* the second time, the queue delivering each message up to twice; and the   *)
(* storage the object opens on a cold start.  They share no state here; a    *)
(* behaviour moves one.                                                      *)
EXTENDS InboundIngest, MailboxSchema
CONSTANTS a1, a2, x1, x2
VARIABLE live
vars == <<live, ingestVars, schemaVars>>

MCKeyOf == [d \in Deliveries |-> "k1"]
MCRawOf == [d \in Deliveries |-> IF d = a1 THEN x1 ELSE x2]
MCShaOf == [r \in Raws |-> r]

MCInit ==
    /\ live \in {"inbound", "schema"}
    /\ IngestInit
    /\ SchemaInit
    /\ live = "inbound" => edited = "never" /\ db.version = MAILBOX_SCHEMA_VERSION
InboundTurn(A) == live = "inbound" /\ A /\ UNCHANGED <<live, schemaVars>>
SchemaTurn(A) == live = "schema" /\ A /\ UNCHANGED <<live, ingestVars>>
MCNext == InboundTurn(IngestNext) \/ SchemaTurn(SchemaNext)

(* The fairness of the two modules, on the turns of the product.               *)
MCFairness ==
    /\ \A w \in Workers : WF_vars(InboundTurn(handleInboundQueue(w)))
    /\ \A d \in Deliveries : WF_vars(InboundTurn(handleDeadLetterQueue(d)))
    /\ WF_vars(SchemaTurn(constructor))
MCSpec == MCInit /\ [][MCNext]_vars /\ MCFairness

(* Mail the handler accepted is stored, buried or lost in the end and does not *)
(* stay on the queue; and a mailbox that is woken comes up, from any release.  *)
InboundEnds ==
    /\ live = "inbound" => AcceptedEnds
    /\ live = "schema" => MailboxServes
================================================================================
