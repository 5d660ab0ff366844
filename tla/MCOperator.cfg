\* Replaying an old index into an empty mailbox and verifying the result, and
\* what a deploy ships after any three commands in two terminals and an edit.
SPECIFICATION Spec
CONSTANTS
  m1 = m1  m2 = m2  n1 = n1
  Deliveries <- MCDeliveries
  Keys = {"k1", "k2"}
  Raws = {m1, m2, n1}
  KeyOf <- MCKeyOf
  RawOf <- MCRawOf
  ShaOf <- MCShaOf
  Malformed = {}
  Workers = {1}
  NoDelivery = NoDelivery
  MaxRetries = 1
  DeadRetries = 0
  Source <- MCSource
  Sent = {n1}
  Filed = {m2}
  RowKey <- MCRowKey
  Lost <- MCLost
  Backups <- MCBackups
  ReRunRows = 1
  Runs = {1, 2}
  PushOf <- MCPushOf
  Terminals = {1, 2}
  Envs = {"dev"}
  Domains = {"a", "b"}
  NoSender = "unset"
  Edits = {"structure", "domain", "workers_dev", "list"}
  MaxEdits = 1
  MaxCommands = 3
INVARIANTS
  RebuildInvariant
  SetUpIsShipped
PROPERTIES
  ReplayInOrder
  DeploysOnlyAdd
CHECK_DEADLOCK FALSE
