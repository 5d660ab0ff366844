\* Owners, sessions, pairing codes and the webhook: safety and liveness.
SPECIFICATION MCSpec
CONSTANTS
  p1 = p1  m1 = m1  c1 = c1  c2 = c2
  Accounts = {p1}
  Mails = {m1}
  Codes = {c1, c2}
  Requests = {1}
  Nobody = Nobody
  NoCode = NoCode
  Tokens = {"t1", "t2"}
  Origins = {"o1", "o2"}
  Foreign = "foreign"
  Unknown = "unknown"
  MaxDrifts = 3
INVARIANTS AccessInvariant RecordWasTrue
PROPERTIES AccessHeals
CHECK_DEADLOCK FALSE
