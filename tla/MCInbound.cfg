\* Inbound mail and the object's storage: safety and liveness.
SPECIFICATION MCSpec
CONSTANTS
  a1 = a1  a2 = a2  x1 = x1  x2 = x2
  Deliveries = {a1, a2}
  Keys = {"k1"}
  Raws = {x1, x2}
  KeyOf <- MCKeyOf
  RawOf <- MCRawOf
  ShaOf <- MCShaOf
  Malformed = {}
  Workers = {1, 2}
  NoDelivery = NoDelivery
  MaxRetries = 1
  DeadRetries = 1
  Mails = {"m1", "m2"}
  Audits = {"e1"}
  Rename = "e2"
  MaxThrows = 2
INVARIANTS
  IngestInvariant
  AckedIsKept
  SchemaInvariant
PROPERTIES
  InboundEnds
CHECK_DEADLOCK FALSE
